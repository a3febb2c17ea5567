-------------------------- MODULE Evaluator_proofs --------------------------
(***************************************************************************)
(* Theorems about Evaluator, for any evaluations, reloads, definitions and *)
(* bounds: the type invariant, with that of the metrics store; reloads     *)
(* that do not overlap agree; a module that is not found did not compile;  *)
(* a result fits the schema of its definition; the counters of the store   *)
(* and every copy a reader makes of them add up.                           *)
(***************************************************************************)
EXTENDS Evaluator, NumberFacts, SequenceTheorems

-----------------------------------------------------------------------------
(* The metrics store.                                                      *)

(* A change of m that leaves the gauges as they are.                       *)
Counts(m, next) == next \in MetricsType /\ next.gauges = m.gauges

LEMMA NoMetricsType == NoMetrics \in MetricsType
<1>1. NoFilterCounts \in FilterCounters
  BY DEF NoFilterCounts, FilterCounters
<1>2. NoEvaluatorCounts \in EvaluatorCounters
  BY DEF NoEvaluatorCounts, EvaluatorCounters
<1>3. QED
  BY <1>1, <1>2 DEF NoMetrics, MetricsType, PipelineCounters, Gauges

LEMMA EvaluatorCounted ==
  ASSUME NEW m \in MetricsType, NEW n \in Names, NEW c \in EvaluatorCounters
  PROVE  /\ Counts(m, [m EXCEPT !.evaluators[n] = c])
         /\ [m EXCEPT !.evaluators[n] = c].evaluators[n] = c
<1> DEFINE row == [m.evaluators EXCEPT ![n] = c]
<1>1. m.evaluators \in [Names -> EvaluatorCounters]
  BY DEF MetricsType
<1>2. row \in [Names -> EvaluatorCounters] /\ row[n] = c
  BY <1>1
<1> HIDE DEF row
<1>3. [m EXCEPT !.evaluators = row] \in MetricsType
  BY <1>2 DEF MetricsType
<1>4. [m EXCEPT !.evaluators[n] = c] = [m EXCEPT !.evaluators = row]
  BY DEF row
<1>5. /\ [m EXCEPT !.evaluators = row].gauges = m.gauges
      /\ [m EXCEPT !.evaluators = row].evaluators = row
  BY DEF MetricsType
<1>6. QED
  BY <1>2, <1>3, <1>4, <1>5 DEF Counts

LEMMA CountersOf ==
  ASSUME NEW m \in MetricsType, NEW n \in Names
  PROVE  m.evaluators[n] \in EvaluatorCounters
  BY DEF MetricsType

LEMMA DecisionCounted ==
  ASSUME NEW m \in MetricsType, NEW n \in Names, NEW d \in Decisions
  PROVE  Counts(m, RecordDecision(m, n, d))
<1> DEFINE row == m.evaluators[n]
           decided == [row.decisions EXCEPT ![d] = @ + 1]
           c == [row EXCEPT !.decisions = decided]
<1>1. row \in EvaluatorCounters
  BY CountersOf
<1>2. decided \in [Decisions -> Nat]
  BY <1>1 DEF EvaluatorCounters
<1>3. c \in EvaluatorCounters
  BY <1>1, <1>2 DEF EvaluatorCounters
<1>4. RecordDecision(m, n, d) = [m EXCEPT !.evaluators[n] = c]
  BY DEF RecordDecision
<1> HIDE DEF c
<1>5. QED
  BY <1>3, <1>4, EvaluatorCounted

LEMMA CallCounted ==
  ASSUME NEW m \in MetricsType, NEW n \in Names, NEW ok \in BOOLEAN
  PROVE  Counts(m, RecordLlmCall(m, n, ok))
<1> DEFINE row == m.evaluators[n]
           timed == [row EXCEPT !.llm_timed = @ + 1]
           between == [m EXCEPT !.evaluators[n] = timed]
           c == IF ok THEN [timed EXCEPT !.llm_success = @ + 1]
                      ELSE [timed EXCEPT !.llm_failure = @ + 1]
<1>1. row \in EvaluatorCounters
  BY CountersOf
<1>2. timed \in EvaluatorCounters
  BY <1>1 DEF EvaluatorCounters
<1> HIDE DEF timed
<1>3. c \in EvaluatorCounters
  BY <1>2 DEF EvaluatorCounters
<1>4. Counts(m, between) /\ between.evaluators[n] = timed
  BY <1>2, EvaluatorCounted
<1>5. between = [m EXCEPT !.evaluators[n].llm_timed = @ + 1]
  BY DEF timed
<1> HIDE DEF between
<1>6. RecordLlmCall(m, n, ok) = [between EXCEPT !.evaluators[n] = c]
  <2>1. RecordLlmCall(m, n, ok) = IF ok THEN [between EXCEPT !.evaluators[n].llm_success = @ + 1]
                                        ELSE [between EXCEPT !.evaluators[n].llm_failure = @ + 1]
    BY <1>5 DEF RecordLlmCall
  <2>2. between.evaluators[n] = timed
    BY <1>4
  <2>3. CASE ok
    BY <2>1, <2>2, <2>3
  <2>4. CASE ~ok
    BY <2>1, <2>2, <2>4
  <2>5. QED
    BY <2>3, <2>4
<1> HIDE DEF c
<1>7. Counts(between, [between EXCEPT !.evaluators[n] = c])
  BY <1>3, <1>4, EvaluatorCounted DEF Counts
<1>8. QED
  BY <1>4, <1>6, <1>7 DEF Counts

(* The calls that add one to a single counter, or to two.                  *)
LEMMA OneCounted ==
  ASSUME NEW m \in MetricsType, NEW n \in Names, NEW ok \in BOOLEAN
  PROVE  /\ Counts(m, RecordLlmEmpty(m, n)) /\ Counts(m, RecordValidation(m, n, ok))
         /\ Counts(m, RecordRetry(m, n, ok)) /\ Counts(m, RecordExecution(m, n))
         /\ Counts(m, RecordNotFound(m, n)) /\ Counts(m, RecordPipeline(m, n))
<1> DEFINE row == m.evaluators[n]
           c1 == [row EXCEPT !.llm_empty = @ + 1]
           c2 == [row EXCEPT !.valid = @ + 1]
           c3 == [row EXCEPT !.invalid = @ + 1]
           c4 == [row EXCEPT !.retries_success = @ + 1]
           c5 == [row EXCEPT !.retries_failure = @ + 1]
           c6 == [row EXCEPT !.executions = @ + 1, !.wasm_timed = @ + 1]
           c7 == [row EXCEPT !.not_found = @ + 1]
           c8 == [row EXCEPT !.pipeline_timed = @ + 1]
<1>1. row \in EvaluatorCounters
  BY CountersOf
<1>2. /\ c1 \in EvaluatorCounters /\ c2 \in EvaluatorCounters /\ c3 \in EvaluatorCounters
      /\ c4 \in EvaluatorCounters /\ c5 \in EvaluatorCounters /\ c6 \in EvaluatorCounters
      /\ c7 \in EvaluatorCounters /\ c8 \in EvaluatorCounters
  <2>1. c1 \in EvaluatorCounters /\ c2 \in EvaluatorCounters
    BY <1>1 DEF EvaluatorCounters
  <2>2. c3 \in EvaluatorCounters /\ c4 \in EvaluatorCounters
    BY <1>1 DEF EvaluatorCounters
  <2>3. c5 \in EvaluatorCounters /\ c7 \in EvaluatorCounters
    BY <1>1 DEF EvaluatorCounters
  <2>4. c8 \in EvaluatorCounters
    BY <1>1 DEF EvaluatorCounters
  <2> DEFINE first == [row EXCEPT !.executions = @ + 1]
  <2>5. first \in EvaluatorCounters
    BY <1>1 DEF EvaluatorCounters
  <2>6. c6 = [first EXCEPT !.wasm_timed = @ + 1]
    OBVIOUS
  <2> HIDE DEF first, c6
  <2>7. c6 \in EvaluatorCounters
    BY <2>5, <2>6 DEF EvaluatorCounters
  <2>8. QED
    BY <2>1, <2>2, <2>3, <2>4, <2>7
<1>3. /\ RecordLlmEmpty(m, n) = [m EXCEPT !.evaluators[n] = c1]
      /\ RecordValidation(m, n, TRUE) = [m EXCEPT !.evaluators[n] = c2]
      /\ RecordValidation(m, n, FALSE) = [m EXCEPT !.evaluators[n] = c3]
      /\ RecordRetry(m, n, TRUE) = [m EXCEPT !.evaluators[n] = c4]
      /\ RecordRetry(m, n, FALSE) = [m EXCEPT !.evaluators[n] = c5]
      /\ RecordNotFound(m, n) = [m EXCEPT !.evaluators[n] = c7]
      /\ RecordPipeline(m, n) = [m EXCEPT !.evaluators[n] = c8]
  BY DEF RecordLlmEmpty, RecordValidation, RecordRetry, RecordNotFound, RecordPipeline
<1>4. RecordExecution(m, n) = [m EXCEPT !.evaluators[n] = c6]
  <2> DEFINE first == [row EXCEPT !.executions = @ + 1]
             between == [m EXCEPT !.evaluators[n] = first]
  <2>1. first \in EvaluatorCounters
    BY <1>1 DEF EvaluatorCounters
  <2>2. between \in MetricsType /\ between.evaluators[n] = first
    BY <2>1, EvaluatorCounted DEF Counts
  <2>3. c6 = [first EXCEPT !.wasm_timed = @ + 1]
    OBVIOUS
  <2>4. RecordExecution(m, n) = [between EXCEPT !.evaluators[n].wasm_timed = @ + 1]
    BY DEF RecordExecution
  <2> HIDE DEF first
  <2>5. m.evaluators \in [Names -> EvaluatorCounters]
    BY DEF MetricsType
  <2>6. between.evaluators = [m.evaluators EXCEPT ![n] = first]
    BY DEF MetricsType
  <2> HIDE DEF c6
  <2>7. [between EXCEPT !.evaluators[n].wasm_timed = @ + 1] = [between EXCEPT !.evaluators[n] = c6]
    BY <2>2, <2>3
  <2>8. [between EXCEPT !.evaluators[n] = c6] = [m EXCEPT !.evaluators[n] = c6]
    BY <2>5, <2>6 DEF MetricsType
  <2>9. QED
    BY <2>4, <2>7, <2>8
<1> HIDE DEF c1, c2, c3, c4, c5, c6, c7, c8
<1>5. \A c \in EvaluatorCounters : Counts(m, [m EXCEPT !.evaluators[n] = c])
  BY EvaluatorCounted
<1>6. /\ Counts(m, RecordValidation(m, n, TRUE)) /\ Counts(m, RecordValidation(m, n, FALSE))
      /\ Counts(m, RecordRetry(m, n, TRUE)) /\ Counts(m, RecordRetry(m, n, FALSE))
  BY <1>2, <1>3, <1>5
<1>7. Counts(m, RecordValidation(m, n, ok)) /\ Counts(m, RecordRetry(m, n, ok))
  BY <1>6
<1>8. QED
  BY <1>2, <1>3, <1>4, <1>5, <1>7

(* The counters of the filters and of the pipeline.                        *)
LEMMA RestCounted ==
  ASSUME NEW m \in MetricsType
  PROVE  /\ \A f \in FilterNames, r \in FilterResults : Counts(m, RecordFilterResult(m, f, r))
         /\ \A matched \in BOOLEAN : Counts(m, RecordTrigger(m, matched))
         /\ \A s \in Skips : Counts(m, RecordSkip(m, s))
<1>1. /\ m.filters \in [FilterNames -> FilterCounters] /\ m.pipeline \in PipelineCounters
      /\ m.evaluators \in [Names -> EvaluatorCounters] /\ m.gauges \in Gauges
      /\ m = [filters |-> m.filters, evaluators |-> m.evaluators, pipeline |-> m.pipeline,
              gauges |-> m.gauges]
  BY DEF MetricsType
<1>2. ASSUME NEW f \in FilterNames, NEW r \in FilterResults
      PROVE  Counts(m, RecordFilterResult(m, f, r))
  <2> DEFINE row == m.filters[f]
             results == [row.results EXCEPT ![r] = @ + 1]
             c == [row EXCEPT !.results = results, !.timed = @ + 1]
             filters == [m.filters EXCEPT ![f] = c]
  <2>1. row \in FilterCounters
    BY <1>1
  <2>2. results \in [FilterResults -> Nat]
    BY <2>1 DEF FilterCounters
  <2> HIDE DEF results
  <2>3. c \in FilterCounters
    <3> DEFINE c1 == [row EXCEPT !.results = results]
    <3>1. c1 \in FilterCounters
      BY <2>1, <2>2 DEF FilterCounters
    <3>2. c = [c1 EXCEPT !.timed = @ + 1]
      OBVIOUS
    <3> HIDE DEF c1, c
    <3>3. QED
      BY <3>1, <3>2 DEF FilterCounters
  <2>4. RecordFilterResult(m, f, r) = [m EXCEPT !.filters = filters]
    <3> DEFINE c1 == [row EXCEPT !.results = results]
               first == [m EXCEPT !.filters = [m.filters EXCEPT ![f] = c1]]
    <3>1. first = [m EXCEPT !.filters[f].results[r] = @ + 1]
      BY DEF results
    <3>2. first.filters = [m.filters EXCEPT ![f] = c1] /\ first.filters[f] = c1
      BY <1>1
    <3>3. c = [c1 EXCEPT !.timed = @ + 1]
      OBVIOUS
    <3> HIDE DEF c1, c
    <3>4. [first.filters EXCEPT ![f] = c] = filters
      BY <1>1, <3>2
    <3>5. [first EXCEPT !.filters = filters] = [m EXCEPT !.filters = filters]
      BY <1>1
    <3> HIDE DEF first
    <3>6. RecordFilterResult(m, f, r) = [first EXCEPT !.filters[f].timed = @ + 1]
      BY <3>1 DEF RecordFilterResult
    <3>7. [first EXCEPT !.filters[f].timed = @ + 1] = [first EXCEPT !.filters[f] = c]
      BY <3>2, <3>3
    <3>8. [first EXCEPT !.filters[f] = c] = [first EXCEPT !.filters = filters]
      BY <3>4
    <3>9. QED
      BY <3>5, <3>6, <3>7, <3>8
  <2> HIDE DEF c
  <2>5. filters \in [FilterNames -> FilterCounters]
    BY <1>1, <2>3
  <2> HIDE DEF filters
  <2>6. QED
    BY <2>4, <2>5 DEF Counts, MetricsType
<1>3. ASSUME NEW matched \in BOOLEAN
      PROVE  Counts(m, RecordTrigger(m, matched))
  <2> DEFINE p1 == [m.pipeline EXCEPT !.matches = @ + 1]
             p2 == [m.pipeline EXCEPT !.misses = @ + 1]
  <2>1. p1 \in PipelineCounters /\ p2 \in PipelineCounters
    BY <1>1 DEF PipelineCounters
  <2>2. RecordTrigger(m, matched) = IF matched THEN [m EXCEPT !.pipeline = p1] ELSE [m EXCEPT !.pipeline = p2]
    BY DEF RecordTrigger
  <2> HIDE DEF p1, p2
  <2>3. QED
    BY <2>1, <2>2 DEF Counts, MetricsType
<1>4. ASSUME NEW s \in Skips
      PROVE  Counts(m, RecordSkip(m, s))
  <2> DEFINE skipped == [m.pipeline.skipped EXCEPT ![s] = @ + 1]
             p == [m.pipeline EXCEPT !.skipped = skipped]
  <2>1. skipped \in [Skips -> Nat]
    BY <1>1 DEF PipelineCounters
  <2>2. p \in PipelineCounters
    BY <1>1, <2>1 DEF PipelineCounters
  <2>3. RecordSkip(m, s) = [m EXCEPT !.pipeline = p]
    BY DEF RecordSkip
  <2> HIDE DEF p
  <2>4. QED
    BY <2>2, <2>3 DEF Counts, MetricsType
<1>5. QED
  BY <1>2, <1>3, <1>4

LEMMA GaugeSet ==
  ASSUME NEW m \in MetricsType, NEW n \in Nat
  PROVE  /\ SetLoaded(m, n) \in MetricsType
         /\ SetLoaded(m, n).gauges = [m.gauges EXCEPT !.loaded = n]
         /\ SetCompiled(m, n) \in MetricsType
         /\ SetCompiled(m, n).gauges = [m.gauges EXCEPT !.compiled = n]
         /\ SetBindings(m, n) \in MetricsType
         /\ SetBindings(m, n).gauges = [m.gauges EXCEPT !.bindings = n]
         /\ m.gauges \in Gauges
<1> DEFINE g1 == [m.gauges EXCEPT !.loaded = n]
           g2 == [m.gauges EXCEPT !.compiled = n]
           g3 == [m.gauges EXCEPT !.bindings = n]
<1>1. m.gauges \in Gauges
  BY DEF MetricsType
<1>2. {g1, g2, g3} \subseteq Gauges
  BY <1>1 DEF Gauges
<1>3. /\ SetLoaded(m, n) = [m EXCEPT !.gauges = g1]
      /\ SetCompiled(m, n) = [m EXCEPT !.gauges = g2]
      /\ SetBindings(m, n) = [m EXCEPT !.gauges = g3]
  BY DEF SetLoaded, SetCompiled, SetBindings
<1>4. \A g \in Gauges : [m EXCEPT !.gauges = g] \in MetricsType /\ [m EXCEPT !.gauges = g].gauges = g
  BY DEF MetricsType
<1> HIDE DEF g1, g2, g3
<1>5. /\ SetLoaded(m, n) \in MetricsType /\ SetLoaded(m, n).gauges = g1
      /\ SetCompiled(m, n) \in MetricsType /\ SetCompiled(m, n).gauges = g2
      /\ SetBindings(m, n) \in MetricsType /\ SetBindings(m, n).gauges = g3
  BY <1>2, <1>3, <1>4
<1>6. QED
  BY <1>1, <1>5 DEF g1, g2, g3
-----------------------------------------------------------------------------
(* The invariant.                                                          *)

AfterModules == <<"schemas", "definitions">>
AfterSchemas == <<"definitions">>
Halves       == {AfterModules, AfterSchemas}

(* What is left of a reload, and what it brings.                           *)
Brought(x) ==
  /\ x \in ReloadType
  /\ x.left \in {<<>>, LoadSteps} \cup Halves
  /\ x.left # <<>> => x.defs \in Configs /\ x.ok \subseteq PathsOf(x.defs)

(* Halfway through the only reload, the values it has replaced are its own. *)
Replaced(x) ==
  /\ x.left \in Halves => compiled = PathsOf(x.defs) \ broken
  /\ x.left = AfterSchemas => schemas = SchemasOf(x.defs)

Agreed == schemas = SchemasOf(evaluators) /\ compiled = PathsOf(evaluators) \ broken

Alone ==
  /\ \A q, r \in Reloads : reload[q].left # <<>> /\ reload[r].left # <<>> => q = r
  /\ \A r \in Reloads : Replaced(reload[r])
  /\ (\A r \in Reloads : reload[r].left \notin Halves) => Agreed

Loaded ==
  /\ evaluators \in Configs /\ compiled \subseteq Paths
  /\ schemas \in [Names -> (Schemas \ {"broken"}) \cup {None}]
  /\ bindings \in [Namespaces -> Conversations \cup {None}]
  /\ DOMAIN reload = Reloads /\ (\A r \in Reloads : Brought(reload[r]))
  /\ broken \subseteq Paths /\ serial \in BOOLEAN
  /\ serial => Alone

Gauged ==
  /\ metrics \in MetricsType
  /\ metrics.gauges.loaded = Len(evaluators)
  /\ metrics.gauges.compiled = Cardinality(compiled)
  /\ metrics.gauges.bindings = Bindings(bindings)

Viewed ==
  /\ view = [left |-> view.left, todo |-> view.todo, copy |-> view.copy, taken |-> view.taken]
  /\ view.copy \in MetricsType

Fields == {"pc", "method", "ns", "def", "conv", "raw", "schema", "result", "asked", "trapped",
           "found", "answer", "calm"}
IsEv(x) == x = [f \in Fields |-> x[f]]

Working == {"matched", "asking", "answered", "retrying", "decided"}

Typed(x) ==
  /\ x.pc \in {"idle", "answering", "done"} \cup Working
  /\ x.method \in Methods \cup {None} /\ x.ns \in Namespaces \cup {None}
  /\ x.def \in Def \cup {None} /\ x.conv \in Conversations \cup {None}
  /\ x.raw \in Results /\ x.schema \in Schemas \cup {None} /\ x.result \in Results
  /\ x.asked \in 0..2 /\ x.trapped \in BOOLEAN /\ x.found \in BOOLEAN /\ x.calm \in BOOLEAN
  /\ x.answer \in {None, "continue", "warning", "metadata", "tools", "-32001", "-32002", "-32603"}
  /\ x.pc \in Working => x.def \in Def /\ x.method \in Methods /\ x.ns \in Namespaces
  /\ x.pc = "retrying" => x.asked = 2

(* An evaluation that no reload has interfered with.                       *)
Undisturbed(x) ==
  x.calm =>
    /\ x.pc \in Working => x.def.path \in compiled \cup broken
    /\ ~x.found => x.def.path \in broken
    /\ x.pc \in Working \cup {"answering"} => schemas = SchemasOf(evaluators)
    /\ x.pc = "retrying" => x.schema = schemas[x.def.name]
    /\ x.pc \in {"decided", "answering"} =>
         (x.def.schema # None /\ schemas[x.def.name] # None =>
            Valid(schemas[x.def.name], x.result) \/ (x.asked = 2 /\ x.result = x.raw))

Good(x) == IsEv(x) /\ Typed(x)

Inv ==
  /\ Loaded /\ Gauged /\ Viewed
  /\ DOMAIN ev = Evaluations
  /\ \A e \in Evaluations : Good(ev[e]) /\ Undisturbed(ev[e])

-----------------------------------------------------------------------------
(* Definitions, reloads and their steps.                                   *)

LEMMA StepsAre ==
  /\ LoadSteps # <<>> /\ Head(LoadSteps) = "modules" /\ Tail(LoadSteps) = AfterModules
  /\ AfterModules # <<>> /\ Head(AfterModules) = "schemas" /\ Tail(AfterModules) = AfterSchemas
  /\ AfterSchemas # <<>> /\ Head(AfterSchemas) = "definitions" /\ Tail(AfterSchemas) = <<>>
  /\ LoadSteps \notin Halves /\ AfterModules # AfterSchemas /\ <<>> \notin Halves
  /\ AfterModules \in Halves /\ AfterSchemas \in Halves
  /\ {<<>>, LoadSteps, AfterModules, AfterSchemas} \subseteq Seq({"modules", "schemas", "definitions"})
<1>1. /\ LoadSteps # <<>> /\ AfterModules # <<>> /\ AfterSchemas # <<>>
      /\ LoadSteps # AfterModules /\ LoadSteps # AfterSchemas /\ AfterModules # AfterSchemas
  BY DEF LoadSteps, AfterModules, AfterSchemas
<1>2. Head(LoadSteps) = "modules" /\ Head(AfterModules) = "schemas" /\ Head(AfterSchemas) = "definitions"
  BY DEF LoadSteps, AfterModules, AfterSchemas
<1>3. Tail(LoadSteps) = AfterModules /\ Tail(AfterModules) = AfterSchemas /\ Tail(AfterSchemas) = <<>>
  BY DEF LoadSteps, AfterModules, AfterSchemas
<1>4. {<<>>, LoadSteps, AfterModules, AfterSchemas} \subseteq Seq({"modules", "schemas", "definitions"})
  BY DEF LoadSteps, AfterModules, AfterSchemas
<1>5. QED
  BY <1>1, <1>2, <1>3, <1>4 DEF Halves

LEMMA HalfIs ==
  ASSUME NEW r \in Reloads, Brought(reload[r])
  PROVE  HalfLoaded(r) <=> reload[r].left \in Halves
<1>1. reload[r].left = <<>> => DOMAIN reload[r].left = {}
  <2> DEFINE left == reload[r].left
  <2>1. left \in Seq({"modules", "schemas", "definitions"})
    BY DEF Brought, ReloadType
  <2> HIDE DEF left
  <2>2. DOMAIN left = 1..Len(left) /\ (left = <<>> => Len(left) = 0)
    BY <2>1, LenProperties, EmptySeq
  <2>3. QED
    BY <2>2 DEF left
<1>2. \E i \in DOMAIN AfterModules : AfterModules[i] = "definitions"
  <2>1. 2 \in DOMAIN AfterModules /\ AfterModules[2] = "definitions"
    BY DEF AfterModules
  <2>2. QED
    BY <2>1
<1>3. \E i \in DOMAIN AfterSchemas : AfterSchemas[i] = "definitions"
  <2>1. 1 \in DOMAIN AfterSchemas /\ AfterSchemas[1] = "definitions"
    BY DEF AfterSchemas
  <2>2. QED
    BY <2>1
<1>4. reload[r].left \in {<<>>, LoadSteps} \cup Halves
  BY DEF Brought
<1>5. QED
  BY <1>1, <1>2, <1>3, <1>4, StepsAre DEF HalfLoaded, Halves

(* The paths of a configuration are paths, finitely many.                  *)
LEMMA PathsAre ==
  ASSUME NEW defs \in Configs
  PROVE  /\ defs \in Seq(Def) /\ DOMAIN defs = 1..Len(defs) /\ Len(defs) \in Nat
         /\ \A i \in DOMAIN defs : defs[i] \in Def
         /\ PathsOf(defs) \subseteq Paths /\ IsFiniteSet(PathsOf(defs))
<1>1. defs \in Seq(Def)
  BY ConfigAssumption
<1>2. DOMAIN defs = 1..Len(defs) /\ Len(defs) \in Nat /\ \A i \in DOMAIN defs : defs[i] \in Def
  BY <1>1, LenProperties, ElementOfSeq
<1>3. PathsOf(defs) \subseteq Paths
  BY <1>2 DEF PathsOf, Def
<1>4. IsFiniteSet(PathsOf(defs))
  <2> DEFINE f == [i \in 1..Len(defs) |-> defs[i].path]
  <2>1. f \in Surjection(1..Len(defs), PathsOf(defs))
    BY <1>2 DEF PathsOf, Surjection
  <2>2. IsFiniteSet(1..Len(defs))
    BY <1>2, FS_Interval
  <2>3. QED
    BY <2>1, <2>2, FS_Surjection
<1>5. QED
  BY <1>1, <1>2, <1>3, <1>4

LEMMA SchemasAre ==
  ASSUME NEW defs \in Configs
  PROVE  /\ SchemasOf(defs) \in [Names -> (Schemas \ {"broken"}) \cup {None}]
         /\ \A n \in Names : \A i \in WithSchema(defs, n) :
              (\A j \in WithSchema(defs, n) : j <= i) => SchemasOf(defs)[n] = defs[i].schema
<1>1. DOMAIN defs \subseteq Nat /\ \A i \in DOMAIN defs : defs[i] \in Def
  BY PathsAre
<1>2. \A schema \in Schemas \cup {None} : Compiled(schema) \in (Schemas \ {"broken"}) \cup {None}
  BY DEF Compiled
<1>3. ASSUME NEW n \in Names
      PROVE  SchemasOf(defs)[n] \in (Schemas \ {"broken"}) \cup {None}
  <2> DEFINE having == WithSchema(defs, n)
             at == CHOOSE i \in having : \A j \in having : j <= i
  <2>1. SchemasOf(defs)[n] = IF having = {} THEN None ELSE Compiled(defs[at].schema)
    BY DEF SchemasOf
  <2>2. CASE having = {}
    BY <2>1, <2>2
  <2>3. CASE having # {}
    <3>1. having \in SUBSET (1..Len(defs)) /\ Len(defs) \in Nat
      BY PathsAre DEF WithSchema
    <3>2. \E i \in having : \A j \in having : j <= i
      BY <2>3, <3>1, Greatest
    <3>3. at \in having
      BY <3>2
    <3>4. defs[at].schema \in Schemas \cup {None}
      BY <1>1, <3>3 DEF WithSchema, Def
    <3> HIDE DEF at, having
    <3>5. QED
      BY <1>2, <2>1, <2>3, <3>4
  <2>4. QED
    BY <2>2, <2>3
<1>4. ASSUME NEW n \in Names, NEW i \in WithSchema(defs, n),
             \A j \in WithSchema(defs, n) : j <= i
      PROVE  SchemasOf(defs)[n] = defs[i].schema
  <2> DEFINE having == WithSchema(defs, n)
             at == CHOOSE k \in having : \A j \in having : j <= k
  <2>1. at \in having /\ \A j \in having : j <= at
    BY <1>4
  <2>2. SchemasOf(defs)[n] = Compiled(defs[at].schema)
    BY <1>4 DEF SchemasOf
  <2> HIDE DEF at
  <2>3. at = i
    BY <1>1, <1>4, <2>1 DEF WithSchema
  <2>4. Compiled(defs[i].schema) = defs[i].schema
    BY DEF WithSchema, Compiled
  <2>5. QED
    BY <2>2, <2>3, <2>4
<1>5. DOMAIN SchemasOf(defs) = Names /\ SchemasOf(defs) = [n \in Names |-> SchemasOf(defs)[n]]
  BY DEF SchemasOf
<1>6. QED
  BY <1>3, <1>4, <1>5
-----------------------------------------------------------------------------
(* Steps of an evaluation.                                                 *)

LEMMA CountsOn ==
  ASSUME NEW m, NEW m1, NEW m2, Counts(m, m1), Counts(m1, m2)
  PROVE  Counts(m, m2) /\ m1 \in MetricsType
  BY DEF Counts

(* Replaced, of the next state.                                            *)
LEMMA ReplacedNext ==
  ASSUME NEW r
  PROVE  Replaced(reload[r])' <=>
           /\ reload'[r].left \in Halves => compiled' = PathsOf(reload'[r].defs) \ broken'
           /\ reload'[r].left = AfterSchemas => schemas' = SchemasOf(reload'[r].defs)
  BY Zenon DEF Replaced, PathsOf, SchemasOf, WithSchema, Compiled, Halves, AfterModules, AfterSchemas

LEMMA AloneSame ==
  ASSUME UNCHANGED <<evaluators, compiled, schemas, reload, broken>>, Alone
  PROVE  Alone'
<1>1. Agreed => Agreed'
  BY DEF Agreed, PathsOf, SchemasOf, WithSchema, Compiled
<1>2. \A r \in Reloads : Replaced(reload[r])'
  BY ReplacedNext DEF Alone, Replaced
<1>3. QED
  BY <1>1, <1>2 DEF Alone

LEMMA LoadedSame ==
  ASSUME Loaded, UNCHANGED <<evaluators, compiled, schemas, bindings, reload, broken, serial>>
  PROVE  Loaded'
<1>1. serial' => Alone'
  BY AloneSame DEF Loaded
<1>2. \A r \in Reloads : Brought(reload'[r])
  BY DEF Loaded
<1>3. QED
  BY <1>1, <1>2 DEF Loaded, Brought, PathsOf

LEMMA GaugedSame ==
  ASSUME Gauged, UNCHANGED <<evaluators, compiled, bindings>>, Counts(metrics, metrics')
  PROVE  Gauged'
<1>1. Bindings(bindings') = Bindings(bindings)
  OBVIOUS
<1>2. QED
  BY <1>1 DEF Gauged, Counts, Bindings

LEMMA BecomeInv ==
  ASSUME Inv, NEW e \in Evaluations, NEW x, Good(x), Undisturbed(x),
         Become(e, x), Counts(metrics, metrics')
  PROVE  Inv'
<1>1. /\ ev' = [ev EXCEPT ![e] = x] /\ DOMAIN ev = Evaluations
      /\ UNCHANGED <<evaluators, compiled, schemas, bindings, reload, view, requests, broken, serial>>
  BY DEF Become, Inv
<1>2. Loaded' /\ Gauged'
  BY <1>1, LoadedSame, GaugedSame DEF Inv
<1>3. Viewed'
  BY <1>1 DEF Inv, Viewed
<1>4. ASSUME NEW o \in Evaluations
      PROVE  (Good(ev[o]) /\ Undisturbed(ev[o]))'
  <2>1. Good(ev'[o]) /\ Undisturbed(ev'[o])
    BY <1>1 DEF Inv
  <2>2. QED
    BY <1>1, <2>1 DEF Good, IsEv, Typed, Undisturbed
<1>5. DOMAIN ev' = Evaluations
  BY <1>1
<1>6. QED
  BY <1>2, <1>3, <1>4, <1>5 DEF Inv

LEMMA EvIs ==
  ASSUME Inv, NEW e \in Evaluations
  PROVE  Good(ev[e]) /\ IsEv(ev[e]) /\ Typed(ev[e]) /\ Undisturbed(ev[e])
  BY DEF Inv, Good

LEMMA NameIs ==
  ASSUME Inv, NEW e \in Evaluations, ev[e].pc \in Working
  PROVE  ev[e].def \in Def /\ Name(e) \in Names /\ metrics \in MetricsType
<1>1. ev[e].def \in Def
  BY EvIs DEF Typed
<1>2. QED
  BY <1>1 DEF Name, Def, Inv, Gauged

LEMMA NoEvaluationIs ==
  /\ IsEv(NoEvaluation) /\ Typed(NoEvaluation) /\ Undisturbed(NoEvaluation)
  /\ NoEvaluation.pc = "idle" /\ NoEvaluation.found = TRUE /\ NoEvaluation.calm = FALSE
<1>1. IsEv(NoEvaluation)
  BY DEF IsEv, Fields, NoEvaluation
<1>2. /\ NoEvaluation.pc = "idle" /\ NoEvaluation.found = TRUE /\ NoEvaluation.calm = FALSE
      /\ Typed(NoEvaluation)
  BY DEF NoEvaluation, Typed, Working, Results
<1>3. QED
  BY <1>1, <1>2 DEF Undisturbed

LEMMA FindIs ==
  ASSUME Inv, NEW method, NEW ns
  PROVE  \/ FindMatching(method, ns) = None
         \/ \E i \in DOMAIN evaluators : FindMatching(method, ns) = evaluators[i]
<1> DEFINE hits == {i \in DOMAIN evaluators : Matches(evaluators[i], method, ns)}
<1>1. evaluators \in Configs
  BY DEF Inv, Loaded
<1>2. DOMAIN evaluators \subseteq Nat
  BY <1>1, PathsAre
<1>3. CASE hits = {}
  BY <1>3 DEF FindMatching
<1>4. CASE hits # {}
  <2> DEFINE at == CHOOSE i \in hits : \A j \in hits : i <= j
  <2>1. \E i \in hits : \A j \in hits : i <= j
    BY <1>2, <1>4, Least
  <2>2. at \in DOMAIN evaluators
    BY <2>1
  <2>3. FindMatching(method, ns) = evaluators[at]
    BY <1>4 DEF FindMatching
  <2> HIDE DEF at
  <2>4. QED
    BY <2>2, <2>3
<1>5. QED
  BY <1>3, <1>4

(* A definition that is matched between reloads has its module, unless it  *)
(* did not compile, and its schema.                                        *)
LEMMA MatchStep ==
  ASSUME Inv, NEW e \in Evaluations, NEW method \in Methods \cup {None}, NEW ns \in Namespaces,
         Match(e, method, ns)
  PROVE  Inv'
<1> DEFINE d == FindMatching(method, ns)
           x == [NoEvaluation EXCEPT !.method = method, !.ns = ns]
           on == [x EXCEPT !.pc = "answering", !.answer = "continue"]
           calm == serial /\ \A r \in Reloads : ~HalfLoaded(r)
           y == [x EXCEPT !.pc = "matched", !.def = d, !.calm = calm]
<1>1. /\ IsEv(x) /\ x.method = method /\ x.ns = ns
      /\ \A f \in Fields : f \notin {"method", "ns"} => x[f] = NoEvaluation[f]
  BY NoEvaluationIs DEF IsEv, Fields
<1>2. /\ x.found = TRUE /\ x.calm = FALSE /\ Typed(x)
  <2>1. /\ x.pc = "idle" /\ x.found = TRUE /\ x.calm = FALSE /\ x.def = NoEvaluation.def
        /\ x.conv = NoEvaluation.conv /\ x.raw = NoEvaluation.raw /\ x.schema = NoEvaluation.schema
        /\ x.result = NoEvaluation.result /\ x.asked = NoEvaluation.asked
        /\ x.trapped = NoEvaluation.trapped /\ x.answer = NoEvaluation.answer
    BY <1>1, NoEvaluationIs DEF Fields
  <2>2. QED
    BY <1>1, <2>1, NoEvaluationIs DEF Typed, Working
<1>3. metrics \in MetricsType
  BY DEF Inv, Gauged
<1> HIDE DEF x, d
<1>4. Good(on) /\ Undisturbed(on)
  <2>1. /\ IsEv(on) /\ on.pc = "answering" /\ on.answer = "continue"
        /\ \A f \in Fields : f \notin {"pc", "answer"} => on[f] = x[f]
    BY <1>1 DEF IsEv, Fields
  <2> HIDE DEF on
  <2>2. /\ on.method = x.method /\ on.ns = x.ns /\ on.def = x.def /\ on.conv = x.conv
        /\ on.raw = x.raw /\ on.schema = x.schema /\ on.result = x.result /\ on.asked = x.asked
        /\ on.trapped = x.trapped /\ on.found = x.found /\ on.calm = FALSE
    BY <1>2, <2>1 DEF Fields
  <2>3. Typed(on)
    BY <1>2, <2>1, <2>2 DEF Typed, Working
  <2>4. QED
    BY <2>1, <2>2, <2>3 DEF Good, Undisturbed
<1>5. CASE method = None
  <2>1. Become(e, on) /\ metrics' = RecordSkip(metrics, "no_method")
    BY <1>5 DEF Match, x
  <2>2. Counts(metrics, metrics')
    BY <1>3, <2>1, RestCounted DEF Skips
  <2>3. QED
    BY <1>4, <2>1, <2>2, BecomeInv
<1>6. CASE method # None /\ d = None
  <2>1. Become(e, on) /\ metrics' = RecordTrigger(RecordSkip(metrics, "no_match"), FALSE)
    BY <1>6 DEF Match, x, d
  <2>2. Counts(metrics, RecordSkip(metrics, "no_match"))
    BY <1>3, RestCounted DEF Skips
  <2>3. RecordSkip(metrics, "no_match") \in MetricsType
    BY <2>2 DEF Counts
  <2>4. Counts(metrics, metrics')
    BY <2>1, <2>2, <2>3, RestCounted, CountsOn
  <2>5. QED
    BY <1>4, <2>1, <2>4, BecomeInv
<1>7. CASE method # None /\ d # None
  <2>1. Become(e, y) /\ metrics' = RecordTrigger(metrics, TRUE)
    BY <1>7 DEF Match, x, d
  <2>2. Counts(metrics, metrics')
    BY <1>3, <2>1, RestCounted
  <2>3. PICK i \in DOMAIN evaluators : d = evaluators[i]
    BY <1>7, FindIs DEF d
  <2>4. evaluators \in Configs /\ d \in Def
    BY <2>3, PathsAre DEF Inv, Loaded
  <2>5. calm \in BOOLEAN
    BY DEF Inv, Loaded
  <2>6. calm => d.path \in compiled \cup broken /\ schemas = SchemasOf(evaluators)
    <3> SUFFICES ASSUME calm
                 PROVE  d.path \in compiled \cup broken /\ schemas = SchemasOf(evaluators)
      OBVIOUS
    <3>1. Alone /\ \A r \in Reloads : reload[r].left \notin Halves
      BY HalfIs DEF Inv, Loaded
    <3>2. Agreed
      BY <3>1 DEF Alone
    <3>3. d.path \in PathsOf(evaluators)
      BY <2>3 DEF PathsOf
    <3>4. QED
      BY <3>2, <3>3 DEF Agreed
  <2> HIDE DEF calm
  <2>7. /\ IsEv(y) /\ y.pc = "matched" /\ y.def = d /\ y.calm = calm
        /\ \A f \in Fields : f \notin {"pc", "def", "calm"} => y[f] = x[f]
    BY <1>1 DEF IsEv, Fields
  <2> HIDE DEF y
  <2>8. /\ y.method = x.method /\ y.ns = x.ns /\ y.conv = x.conv /\ y.answer = x.answer
        /\ y.raw = x.raw /\ y.schema = x.schema /\ y.result = x.result /\ y.asked = x.asked
        /\ y.trapped = x.trapped /\ y.found = TRUE
    BY <1>2, <2>7 DEF Fields
  <2>9. method \in Methods
    BY <1>7
  <2>10. Typed(y)
    BY <1>1, <1>2, <2>4, <2>5, <2>7, <2>8, <2>9 DEF Typed, Working
  <2>11. Undisturbed(y)
    BY <2>6, <2>7, <2>8 DEF Undisturbed
  <2>12. QED
    BY <2>1, <2>2, <2>7, <2>10, <2>11, BecomeInv DEF Good, y, calm
<1>8. QED
  BY <1>5, <1>6, <1>7

LEMMA GatherContextStep ==
  ASSUME Inv, NEW e \in Evaluations, NEW c \in Conversations \cup {None}, GatherContext(e, c)
  PROVE  Inv'
<1> DEFINE x == ev[e]
           conv == IF c # None THEN c ELSE bindings[x.ns]
           y == [x EXCEPT !.pc = "asking", !.asked = 1, !.conv = conv]
<1>1. IsEv(x) /\ Typed(x) /\ Undisturbed(x) /\ x.pc = "matched"
  BY EvIs DEF GatherContext
<1>2. Become(e, y) /\ Counts(metrics, metrics')
  BY DEF GatherContext, Counts, Inv, Gauged
<1>3. conv \in Conversations \cup {None}
  BY <1>1 DEF Typed, Working, Inv, Loaded
<1> HIDE DEF conv
<1>4. /\ IsEv(y) /\ y.pc = "asking" /\ y.asked = 1 /\ y.conv = conv
      /\ \A f \in Fields : f \notin {"pc", "asked", "conv"} => y[f] = x[f]
  BY <1>1 DEF IsEv, Fields
<1> HIDE DEF y
<1>5. /\ y.method = x.method /\ y.ns = x.ns /\ y.def = x.def /\ y.raw = x.raw
      /\ y.schema = x.schema /\ y.result = x.result /\ y.trapped = x.trapped
      /\ y.found = x.found /\ y.answer = x.answer /\ y.calm = x.calm
  BY <1>4 DEF Fields
<1>6. Typed(y)
  BY <1>1, <1>3, <1>4, <1>5 DEF Typed, Working
<1>7. Undisturbed(y)
  BY <1>1, <1>4, <1>5 DEF Undisturbed, Working
<1>8. QED
  BY <1>2, <1>4, <1>6, <1>7, BecomeInv DEF Good

LEMMA LlmAnswersStep ==
  ASSUME Inv, NEW e \in Evaluations, NEW r \in Results \cup {"none"}, LlmAnswers(e, r)
  PROVE  Inv'
<1> DEFINE x == ev[e]
           raw == IF r = "none" THEN "" ELSE r
           y == [x EXCEPT !.pc = "answered", !.raw = raw]
           called == RecordLlmCall(metrics, Name(e), r # "none")
<1>1. IsEv(x) /\ Typed(x) /\ Undisturbed(x) /\ x.pc = "asking"
  BY EvIs DEF LlmAnswers
<1>2. Become(e, y)
  BY DEF LlmAnswers
<1>3. Counts(metrics, metrics')
  <2>1. Name(e) \in Names /\ metrics \in MetricsType
    BY <1>1, NameIs DEF Working
  <2>2. Counts(metrics, called)
    BY <2>1, CallCounted
  <2>3. metrics' = called \/ metrics' = RecordLlmEmpty(called, Name(e))
    BY DEF LlmAnswers
  <2> HIDE DEF called
  <2>4. called \in MetricsType
    BY <2>2 DEF Counts
  <2>5. Counts(called, RecordLlmEmpty(called, Name(e)))
    BY <2>1, <2>4, OneCounted
  <2>6. QED
    BY <2>2, <2>3, <2>5, CountsOn
<1>4. raw \in Results
  BY DEF Results
<1> HIDE DEF raw
<1>5. /\ IsEv(y) /\ y.pc = "answered" /\ y.raw = raw
      /\ \A f \in Fields : f \notin {"pc", "raw"} => y[f] = x[f]
  BY <1>1 DEF IsEv, Fields
<1> HIDE DEF y
<1>6. /\ y.method = x.method /\ y.ns = x.ns /\ y.def = x.def /\ y.conv = x.conv
      /\ y.schema = x.schema /\ y.result = x.result /\ y.trapped = x.trapped
      /\ y.found = x.found /\ y.answer = x.answer /\ y.calm = x.calm /\ y.asked = x.asked
  BY <1>5 DEF Fields
<1>7. Typed(y)
  BY <1>1, <1>4, <1>5, <1>6 DEF Typed, Working
<1>8. Undisturbed(y)
  BY <1>1, <1>5, <1>6 DEF Undisturbed, Working
<1>9. QED
  BY <1>2, <1>3, <1>5, <1>7, <1>8, BecomeInv DEF Good

(* A result is taken: the first one, whatever it is, or the second.        *)
LEMMA TakenInv ==
  ASSUME Inv, NEW e \in Evaluations, ev[e].pc \in {"answered", "retrying"},
         NEW result \in Results, NEW y, y = [ev[e] EXCEPT !.pc = "decided", !.result = result],
         ev[e].calm /\ ev[e].def.schema # None /\ schemas[ev[e].def.name] # None =>
           \/ Valid(schemas[ev[e].def.name], result)
           \/ ev[e].asked = 2 /\ result = ev[e].raw,
         Become(e, y), Counts(metrics, metrics')
  PROVE  Inv'
<1> DEFINE x == ev[e]
<1>1. IsEv(x) /\ Typed(x) /\ Undisturbed(x)
  BY EvIs
<1>2. /\ IsEv(y) /\ y.pc = "decided" /\ y.result = result
      /\ \A f \in Fields : f \notin {"pc", "result"} => y[f] = x[f]
  BY <1>1 DEF IsEv, Fields
<1>3. /\ y.method = x.method /\ y.ns = x.ns /\ y.def = x.def /\ y.conv = x.conv
      /\ y.schema = x.schema /\ y.raw = x.raw /\ y.trapped = x.trapped
      /\ y.found = x.found /\ y.answer = x.answer /\ y.calm = x.calm /\ y.asked = x.asked
  BY <1>2 DEF Fields
<1>4. Typed(y)
  BY <1>1, <1>2, <1>3 DEF Typed, Working
<1>5. Undisturbed(y)
  BY <1>1, <1>2, <1>3 DEF Undisturbed, Working
<1>6. QED
  BY <1>2, <1>4, <1>5, BecomeInv DEF Good

LEMMA ValidateStep ==
  ASSUME Inv, NEW e \in Evaluations, Validate(e)
  PROVE  Inv'
<1> DEFINE x == ev[e]
           schema == schemas[Name(e)]
           ok == Passes(schema, x.raw)
           taken == [x EXCEPT !.pc = "decided", !.result = x.raw]
           again == [x EXCEPT !.pc = "retrying", !.asked = 2, !.schema = schema]
           counted == RecordValidation(metrics, Name(e), ok)
<1>1. IsEv(x) /\ Typed(x) /\ Undisturbed(x) /\ x.pc = "answered" /\ x.raw \in Results
  BY EvIs DEF Validate, Typed
<1>2. x.def \in Def /\ Name(e) \in Names /\ metrics \in MetricsType
  BY <1>1, NameIs DEF Working
<1>3. ok \in BOOLEAN /\ schema \in Schemas \cup {None}
  <2>1. \A s, result : Passes(s, result) \in BOOLEAN
    <3>1. \A s, result : Passes(s, result) = TRUE \/ Passes(s, result) = FALSE
      BY DEF Passes, Valid
    <3>2. QED
      BY <3>1
  <2>2. schemas \in [Names -> (Schemas \ {"broken"}) \cup {None}]
    BY DEF Inv, Loaded
  <2>3. QED
    BY <1>2, <2>1, <2>2
<1>4. Counts(metrics, counted)
  BY <1>2, <1>3, OneCounted
<1>5. schema = schemas[x.def.name]
  BY DEF Name
<1>6. /\ schema = None => Become(e, taken) /\ UNCHANGED metrics
      /\ schema # None /\ ok => Become(e, taken) /\ metrics' = counted
      /\ schema # None /\ ~ok /\ x.def.schema # None => Become(e, again) /\ metrics' = counted
      /\ schema # None /\ ~ok /\ x.def.schema = None =>
           Become(e, taken) /\ metrics' = RecordRetry(counted, Name(e), FALSE)
  BY DEF Validate
<1> HIDE DEF counted, schema
<1>7. CASE schema = None
  <2>1. Counts(metrics, metrics')
    BY <1>2, <1>6, <1>7 DEF Counts
  <2>2. QED
    BY <1>1, <1>5, <1>6, <1>7, <2>1, TakenInv
<1>8. CASE schema # None /\ ok
  <2>1. Valid(schema, x.raw)
    BY <1>8 DEF Passes
  <2> HIDE DEF ok
  <2>2. QED
    BY <1>1, <1>4, <1>5, <1>6, <1>8, <2>1, TakenInv
<1>9. CASE schema # None /\ ~ok /\ x.def.schema # None
  <2>1. /\ IsEv(again) /\ again.pc = "retrying" /\ again.asked = 2 /\ again.schema = schema
        /\ \A f \in Fields : f \notin {"pc", "asked", "schema"} => again[f] = x[f]
    BY <1>1 DEF IsEv, Fields
  <2>2. Become(e, again) /\ Counts(metrics, metrics')
    BY <1>4, <1>6, <1>9
  <2> HIDE DEF again
  <2>3. /\ again.method = x.method /\ again.ns = x.ns /\ again.def = x.def /\ again.conv = x.conv
        /\ again.raw = x.raw /\ again.result = x.result /\ again.trapped = x.trapped
        /\ again.found = x.found /\ again.answer = x.answer /\ again.calm = x.calm
    BY <2>1 DEF Fields
  <2>4. Typed(again)
    BY <1>1, <1>3, <2>1, <2>3 DEF Typed, Working
  <2>5. Undisturbed(again)
    BY <1>1, <1>5, <2>1, <2>3 DEF Undisturbed, Working
  <2>6. QED
    BY <2>1, <2>2, <2>4, <2>5, BecomeInv DEF Good
<1>10. CASE schema # None /\ ~ok /\ x.def.schema = None
  <2>1. counted \in MetricsType
    BY <1>4 DEF Counts
  <2>2. Counts(counted, RecordRetry(counted, Name(e), FALSE))
    BY <1>2, <2>1, OneCounted
  <2>3. Counts(metrics, metrics')
    BY <1>4, <1>6, <1>10, <2>2, CountsOn
  <2>4. QED
    BY <1>1, <1>6, <1>10, <2>3, TakenInv
<1>11. QED
  BY <1>7, <1>8, <1>9, <1>10

LEMMA RetryAnswersStep ==
  ASSUME Inv, NEW e \in Evaluations, NEW r \in Results \cup {"none"}, RetryAnswers(e, r)
  PROVE  Inv'
<1> DEFINE x == ev[e]
           result == AfterRetry(x, r)
           ok == r # "none" /\ Valid(x.schema, r)
<1>1. IsEv(x) /\ Typed(x) /\ Undisturbed(x) /\ x.pc = "retrying" /\ x.raw \in Results /\ x.asked = 2
  BY EvIs DEF RetryAnswers, Typed
<1>2. Name(e) \in Names /\ metrics \in MetricsType
  BY <1>1, NameIs DEF Working
<1>3. ok \in BOOLEAN
  OBVIOUS
<1>4. Counts(metrics, metrics')
  BY <1>2, <1>3, OneCounted DEF RetryAnswers
<1>5. result \in Results /\ (result = x.raw \/ Valid(x.schema, result))
  BY <1>1 DEF AfterRetry
<1>6. x.calm => x.schema = schemas[x.def.name]
  BY <1>1 DEF Undisturbed
<1>7. Become(e, [x EXCEPT !.pc = "decided", !.result = result])
  BY DEF RetryAnswers
<1> HIDE DEF result
<1>8. QED
  BY <1>1, <1>4, <1>5, <1>6, <1>7, TakenInv

(* An answer is decided, with a module or without.                         *)
LEMMA AnswerInv ==
  ASSUME Inv, NEW e \in Evaluations, ev[e].pc = "decided",
         NEW found \in BOOLEAN, NEW trapped \in BOOLEAN,
         NEW answer \in {"continue", "warning", "metadata", "tools", "-32001", "-32002", "-32603"},
         NEW y,
         y = [ev[e] EXCEPT !.pc = "answering", !.found = found, !.trapped = trapped, !.answer = answer],
         ~found => ~ev[e].found \/ ev[e].def.path \notin compiled,
         Become(e, y), Counts(metrics, metrics')
  PROVE  Inv'
<1> DEFINE x == ev[e]
<1>1. IsEv(x) /\ Typed(x) /\ Undisturbed(x)
  BY EvIs
<1>2. /\ IsEv(y) /\ y.pc = "answering" /\ y.found = found /\ y.trapped = trapped /\ y.answer = answer
      /\ \A f \in Fields : f \notin {"pc", "found", "trapped", "answer"} => y[f] = x[f]
  BY <1>1 DEF IsEv, Fields
<1>3. /\ y.method = x.method /\ y.ns = x.ns /\ y.def = x.def /\ y.conv = x.conv
      /\ y.schema = x.schema /\ y.raw = x.raw /\ y.result = x.result
      /\ y.calm = x.calm /\ y.asked = x.asked
  BY <1>2 DEF Fields
<1>4. Typed(y)
  BY <1>1, <1>2, <1>3 DEF Typed, Working
<1>5. Undisturbed(y)
  BY <1>1, <1>2, <1>3 DEF Undisturbed, Working
<1>6. QED
  BY <1>2, <1>4, <1>5, BecomeInv DEF Good

LEMMA MissingModuleStep ==
  ASSUME Inv, NEW e \in Evaluations, MissingModule(e)
  PROVE  Inv'
<1> DEFINE x == ev[e]
           answer == IF x.def.on_error = "block" THEN "-32603" ELSE "continue"
           y == [x EXCEPT !.pc = "answering", !.found = FALSE, !.trapped = x.trapped, !.answer = answer]
<1>1. IsEv(x) /\ Typed(x) /\ x.pc = "decided" /\ x.def.path \notin compiled
  BY EvIs DEF MissingModule
<1>2. Name(e) \in Names /\ metrics \in MetricsType
  BY <1>1, NameIs DEF Working
<1>3. Counts(metrics, metrics')
  BY <1>2, OneCounted DEF MissingModule, NotFound
<1>4. answer \in {"continue", "-32603"}
  OBVIOUS
<1>5. [x EXCEPT !.pc = "answering", !.found = FALSE, !.answer = answer] = y
  BY <1>1 DEF IsEv, Fields
<1>6. Become(e, y)
  BY <1>5 DEF MissingModule
<1>7. x.trapped \in BOOLEAN
  BY <1>1 DEF Typed
<1> HIDE DEF answer
<1>8. QED
  BY <1>1, <1>3, <1>4, <1>6, <1>7, AnswerInv

LEMMA EvaluateStep ==
  ASSUME Inv, NEW e \in Evaluations, NEW d \in Decisions, NEW trapped \in BOOLEAN,
         Evaluate(e, d, trapped)
  PROVE  Inv'
<1> DEFINE x == ev[e]
           answer == AnswerTo(d, x.method)
           y == [x EXCEPT !.pc = "answering", !.found = x.found, !.trapped = trapped, !.answer = answer]
           m1 == RecordExecution(metrics, Name(e))
           m2 == RecordDecision(m1, Name(e), d)
<1>1. IsEv(x) /\ Typed(x) /\ x.pc = "decided" /\ x.found \in BOOLEAN
  BY EvIs DEF Evaluate, Typed
<1>2. Name(e) \in Names /\ metrics \in MetricsType
  BY <1>1, NameIs DEF Working
<1>3. Counts(metrics, metrics')
  <2>1. Counts(metrics, m1)
    BY <1>2, OneCounted
  <2>2. metrics' = RecordPipeline(m2, Name(e))
    BY DEF Evaluate
  <2> HIDE DEF m1
  <2>3. Counts(m1, m2)
    BY <1>2, <2>1, DecisionCounted DEF Counts
  <2> HIDE DEF m2
  <2>4. Counts(m2, metrics')
    BY <1>2, <2>2, <2>3, OneCounted DEF Counts
  <2>5. QED
    BY <2>1, <2>3, <2>4, CountsOn
<1>4. answer \in {"continue", "warning", "metadata", "tools", "-32001", "-32002", "-32603"}
  BY DEF AnswerTo, Decisions
<1> HIDE DEF answer
<1>5. [x EXCEPT !.pc = "answering", !.trapped = trapped, !.answer = answer] = y
  BY <1>1 DEF IsEv, Fields
<1>6. Become(e, y)
  BY <1>5 DEF Evaluate, answer
<1>7. QED
  BY <1>1, <1>3, <1>4, <1>6, AnswerInv

LEMMA RespondStep ==
  ASSUME Inv, NEW e \in Evaluations, Respond(e)
  PROVE  Inv'
<1> DEFINE x == ev[e]
           y == [x EXCEPT !.pc = "done", !.conv = None, !.raw = "", !.result = "", !.schema = None]
<1>1. IsEv(x) /\ Typed(x) /\ Undisturbed(x)
  BY EvIs
<1>2. Become(e, y)
  BY DEF Respond
<1>3. Counts(metrics, metrics')
  <2>1. metrics \in MetricsType
    BY DEF Inv, Gauged
  <2>2. FilterResult(x.answer) \in FilterResults
    BY DEF FilterResult, FilterResults
  <2>3. QED
    BY <2>1, <2>2, RestCounted DEF Respond
<1>4. /\ IsEv(y) /\ y.pc = "done" /\ y.conv = None /\ y.raw = "" /\ y.result = "" /\ y.schema = None
      /\ \A f \in Fields : f \notin {"pc", "conv", "raw", "result", "schema"} => y[f] = x[f]
  BY <1>1 DEF IsEv, Fields
<1> HIDE DEF y
<1>5. /\ y.method = x.method /\ y.ns = x.ns /\ y.def = x.def /\ y.trapped = x.trapped
      /\ y.found = x.found /\ y.answer = x.answer /\ y.calm = x.calm /\ y.asked = x.asked
  BY <1>4 DEF Fields
<1>6. Typed(y)
  BY <1>1, <1>4, <1>5 DEF Typed, Working, Results
<1>7. Undisturbed(y)
  BY <1>1, <1>4, <1>5 DEF Undisturbed, Working
<1>8. QED
  BY <1>2, <1>3, <1>4, <1>6, <1>7, BecomeInv DEF Good

-----------------------------------------------------------------------------
(* Steps of a reload.                                                      *)

(* An evaluation that a reload interferes with is as good as before.       *)
LEMMA DisturbIs ==
  ASSUME Inv, ev' = Disturb
  PROVE  /\ DOMAIN ev' = Evaluations
         /\ \A e \in Evaluations : (Good(ev[e]) /\ Undisturbed(ev[e]))'
<1>1. DOMAIN ev' = Evaluations
  BY DEF Disturb
<1>2. ASSUME NEW e \in Evaluations
      PROVE  Good(ev'[e]) /\ ev'[e].calm = FALSE
  <2> DEFINE x == ev[e]
             y == [x EXCEPT !.calm = FALSE]
  <2>1. ev'[e] = y
    BY DEF Disturb
  <2>2. IsEv(x) /\ Typed(x)
    BY EvIs
  <2>3. IsEv(y) /\ y.calm = FALSE /\ \A f \in Fields : f \notin {"calm"} => y[f] = x[f]
    BY <2>2 DEF IsEv, Fields
  <2> HIDE DEF y
  <2>4. /\ y.pc = x.pc /\ y.method = x.method /\ y.ns = x.ns /\ y.def = x.def /\ y.conv = x.conv
        /\ y.raw = x.raw /\ y.schema = x.schema /\ y.result = x.result /\ y.asked = x.asked
        /\ y.trapped = x.trapped /\ y.found = x.found /\ y.answer = x.answer
    BY <2>3 DEF Fields
  <2>5. Typed(y)
    BY <2>2, <2>3, <2>4 DEF Typed, Working
  <2>6. QED
    BY <2>1, <2>3, <2>5 DEF Good
<1>3. ASSUME NEW e \in Evaluations
      PROVE  (Good(ev[e]) /\ Undisturbed(ev[e]))'
  <2>1. Good(ev'[e]) /\ Undisturbed(ev'[e])
    BY <1>2 DEF Undisturbed
  <2>2. ~ev'[e].calm
    BY <1>2
  <2>3. Good(ev[e])'
    BY <2>1 DEF Good, IsEv, Typed
  <2>4. Undisturbed(ev[e])'
    BY <2>2 DEF Undisturbed
  <2>5. QED
    BY <2>3, <2>4
<1>4. QED
  BY <1>1, <1>3

(* The modules that a reload brings: some of the paths of its definitions. *)
LEMMA BringsIs ==
  ASSUME NEW x, Brought(x), x.left # <<>>
  PROVE  /\ x.defs \in Configs /\ x.ok \subseteq PathsOf(x.defs) /\ x.ok \subseteq Paths
         /\ Cardinality(x.ok) \in Nat /\ Len(x.defs) \in Nat
         /\ PathsOf(x.defs) \subseteq Paths
         /\ x = [left |-> x.left, defs |-> x.defs, ok |-> x.ok]
<1>1. x.defs \in Configs /\ x.ok \subseteq PathsOf(x.defs)
  BY DEF Brought
<1>2. PathsOf(x.defs) \subseteq Paths /\ IsFiniteSet(PathsOf(x.defs)) /\ Len(x.defs) \in Nat
  BY <1>1, PathsAre
<1>3. Cardinality(x.ok) \in Nat
  BY <1>1, <1>2, FS_Subset, FS_CardinalityType
<1>4. x = [left |-> x.left, defs |-> x.defs, ok |-> x.ok]
  BY DEF Brought, ReloadType
<1>5. QED
  BY <1>1, <1>2, <1>3, <1>4

(* A step of a reload leaves what it brings as it is, up to its last one.  *)
LEMMA LoadStepIs ==
  ASSUME Inv, NEW r \in Reloads, NEW step, LoadStep(r, step)
  PROVE  /\ Brought(reload[r]) /\ reload[r].left \in {LoadSteps} \cup Halves
         /\ DOMAIN reload' = Reloads
         /\ \A q \in Reloads : q # r => reload'[q] = reload[q]
         /\ \A q \in Reloads : Brought(reload'[q])
         /\ step = "modules" => /\ reload[r].left = LoadSteps
                                /\ reload'[r] = [reload[r] EXCEPT !.left = AfterModules]
         /\ step = "schemas" => /\ reload[r].left = AfterModules
                                /\ reload'[r] = [reload[r] EXCEPT !.left = AfterSchemas]
         /\ step = "definitions" => reload[r].left = AfterSchemas /\ reload'[r] = NoReload
<1> DEFINE x == reload[r]
<1>1. DOMAIN reload = Reloads /\ \A q \in Reloads : Brought(reload[q])
  BY DEF Inv, Loaded
<1>2. x.left # <<>> /\ Head(x.left) = step
  BY DEF LoadStep
<1>3. Brought(x) /\ x.left \in {LoadSteps} \cup Halves
  BY <1>1, <1>2 DEF Brought
<1>4. /\ DOMAIN reload' = Reloads
      /\ \A q \in Reloads : q # r => reload'[q] = reload[q]
      /\ reload'[r] = IF Tail(x.left) = <<>> THEN NoReload ELSE [x EXCEPT !.left = Tail(x.left)]
  <2> DEFINE next == IF Tail(x.left) = <<>> THEN NoReload ELSE [x EXCEPT !.left = Tail(x.left)]
  <2>1. reload' = [reload EXCEPT ![r] = next]
    BY DEF LoadStep
  <2> HIDE DEF next
  <2>2. /\ DOMAIN reload' = Reloads /\ reload'[r] = next
        /\ \A q \in Reloads : q # r => reload'[q] = reload[q]
    BY <1>1, <2>1
  <2>3. QED
    BY <2>2 DEF next
<1>5. x.left \in {LoadSteps, AfterModules, AfterSchemas}
  BY <1>3 DEF Halves
<1>6. /\ step = "modules" => x.left = LoadSteps /\ reload'[r] = [x EXCEPT !.left = AfterModules]
      /\ step = "schemas" => x.left = AfterModules /\ reload'[r] = [x EXCEPT !.left = AfterSchemas]
      /\ step = "definitions" => x.left = AfterSchemas /\ reload'[r] = NoReload
      /\ step \in {"modules", "schemas", "definitions"}
  <2>1. CASE x.left = LoadSteps
    <3>1. step = "modules" /\ reload'[r] = [x EXCEPT !.left = AfterModules]
      BY <1>2, <1>4, <2>1, StepsAre
    <3>2. QED
      BY <2>1, <3>1
  <2>2. CASE x.left = AfterModules
    <3>1. step = "schemas" /\ reload'[r] = [x EXCEPT !.left = AfterSchemas]
      BY <1>2, <1>4, <2>2, StepsAre
    <3>2. QED
      BY <2>2, <3>1
  <2>3. CASE x.left = AfterSchemas
    <3>1. step = "definitions" /\ reload'[r] = NoReload
      BY <1>2, <1>4, <2>3, StepsAre
    <3>2. QED
      BY <2>3, <3>1
  <2>4. QED
    BY <1>5, <2>1, <2>2, <2>3
<1>7. Brought(NoReload)
  BY StepsAre DEF Brought, NoReload, ReloadType
<1>8. Brought([x EXCEPT !.left = AfterModules]) /\ Brought([x EXCEPT !.left = AfterSchemas])
  <2>1. x = [left |-> x.left, defs |-> x.defs, ok |-> x.ok] /\ x.defs \in Configs
        /\ x.ok \subseteq PathsOf(x.defs) /\ x.ok \subseteq Paths
    BY <1>2, <1>3, BringsIs
  <2>2. ASSUME NEW left \in Halves
        PROVE  Brought([x EXCEPT !.left = left])
    <3> DEFINE y == [left |-> left, defs |-> x.defs, ok |-> x.ok]
    <3>1. [x EXCEPT !.left = left] = y
      BY <2>1
    <3>2. left \in Seq({"modules", "schemas", "definitions"})
      BY StepsAre DEF Halves
    <3>3. y \in ReloadType
      BY <2>1, <3>2 DEF ReloadType
    <3>4. QED
      BY <2>1, <3>1, <3>3 DEF Brought
  <2>3. QED
    BY <2>2, StepsAre
<1>9. Brought(reload'[r])
  BY <1>6, <1>7, <1>8
<1>10. QED
  BY <1>1, <1>3, <1>4, <1>6, <1>9

LEMMA UpdateEvaluatorsStep ==
  ASSUME Inv, NEW r \in Reloads, NEW defs \in Configs, NEW ok \in SUBSET Paths,
         UpdateEvaluators(r, defs, ok)
  PROVE  Inv'
<1> DEFINE x == [left |-> LoadSteps, defs |-> defs, ok |-> ok]
<1>1. /\ UNCHANGED <<evaluators, compiled, schemas, bindings, ev, metrics, view, broken>>
      /\ reload' = [reload EXCEPT ![r] = x] /\ ok \subseteq PathsOf(defs)
      /\ serial' = (serial /\ \A q \in Reloads : reload[q].left = <<>>)
  BY DEF UpdateEvaluators, state
<1>2. Loaded /\ Gauged /\ Viewed
  BY DEF Inv
<1>3. Brought(x)
  BY <1>1, StepsAre DEF Brought, ReloadType
<1>4. x.left = LoadSteps
  OBVIOUS
<1> HIDE DEF x
<1>5. /\ DOMAIN reload' = Reloads /\ reload'[r] = x
      /\ \A q \in Reloads : q # r => reload'[q] = reload[q]
  BY <1>1, <1>2 DEF Loaded
<1>6. \A q \in Reloads : Brought(reload'[q])
  BY <1>2, <1>3, <1>5 DEF Loaded
<1>7. ASSUME serial'
      PROVE  Alone'
  <2>1. serial /\ \A q \in Reloads : reload[q].left = <<>>
    BY <1>1, <1>7
  <2>2. Agreed
    BY <1>2, <2>1, StepsAre DEF Loaded, Alone
  <2>3. \A q \in Reloads : reload'[q].left \notin Halves /\ (q # r => reload'[q].left = <<>>)
    BY <1>4, <1>5, <2>1, StepsAre
  <2>4. \A q \in Reloads : reload'[q].left # AfterSchemas
    BY <2>3, StepsAre
  <2>5. Agreed'
    BY <1>1, <2>2 DEF Agreed
  <2>6. QED
    BY <2>3, <2>4, <2>5 DEF Alone, Replaced
<1>8. serial' \in BOOLEAN
  <2>1. serial' = TRUE \/ serial' = FALSE
    BY <1>1
  <2>2. QED
    BY <2>1
<1>9. Loaded'
  BY <1>1, <1>2, <1>5, <1>6, <1>7, <1>8 DEF Loaded, Brought, PathsOf
<1>10. Gauged'
  BY <1>1, <1>2 DEF Gauged, Bindings
<1>11. Viewed'
  BY <1>1, <1>2 DEF Viewed
<1>12. \A e \in Evaluations : (Good(ev[e]) /\ Undisturbed(ev[e]))'
  <2>1. \A e \in Evaluations : ev'[e] = ev[e] /\ Good(ev[e]) /\ Undisturbed(ev[e])
    BY <1>1, EvIs
  <2>2. QED
    BY <1>1, <2>1 DEF Good, IsEv, Typed, Undisturbed
<1>13. QED
  BY <1>1, <1>9, <1>10, <1>11, <1>12 DEF Inv

LEMMA LoadInv ==
  ASSUME Inv, NEW r \in Reloads, NEW step, LoadStep(r, step), ev' = Disturb,
         evaluators' \in Configs, compiled' \subseteq Paths, broken' \subseteq Paths,
         schemas' \in [Names -> (Schemas \ {"broken"}) \cup {None}],
         serial => Alone', Gauged'
  PROVE  Inv'
<1>1. UNCHANGED <<bindings, view, serial>>
  BY DEF LoadStep
<1>2. DOMAIN reload' = Reloads /\ \A q \in Reloads : Brought(reload'[q])
  BY LoadStepIs
<1>3. Loaded'
  BY <1>1, <1>2 DEF Inv, Loaded, Brought, PathsOf
<1>4. Viewed'
  BY <1>1 DEF Inv, Viewed
<1>5. QED
  BY <1>3, <1>4, DisturbIs DEF Inv

(* While a reload is the only one, no other has anything left.             *)
LEMMA OthersIdle ==
  ASSUME Inv, serial, NEW r \in Reloads, reload[r].left # <<>>
  PROVE  Replaced(reload[r]) /\ \A q \in Reloads : q # r => reload[q].left = <<>>
  BY DEF Inv, Loaded, Alone

LEMMA InstallModulesStep ==
  ASSUME Inv, NEW r \in Reloads, InstallModules(r)
  PROVE  Inv'
<1> DEFINE x == reload[r]
           n == Cardinality(x.ok)
<1>1. /\ LoadStep(r, "modules") /\ compiled' = x.ok /\ broken' = PathsOf(x.defs) \ x.ok
      /\ metrics' = SetCompiled(metrics, n) /\ ev' = Disturb
      /\ UNCHANGED <<evaluators, schemas, bindings>>
  BY DEF InstallModules, LoadStep
<1>2. Brought(x) /\ x.left = LoadSteps /\ reload'[r] = [x EXCEPT !.left = AfterModules]
      /\ \A q \in Reloads : q # r => reload'[q] = reload[q]
  BY <1>1, LoadStepIs
<1>3. /\ x.defs \in Configs /\ x.ok \subseteq PathsOf(x.defs) /\ x.ok \subseteq Paths
      /\ n \in Nat /\ PathsOf(x.defs) \subseteq Paths
      /\ x = [left |-> x.left, defs |-> x.defs, ok |-> x.ok]
  BY <1>2, BringsIs, StepsAre
<1>4. reload'[r].left = AfterModules /\ reload'[r].defs = x.defs
  BY <1>2, <1>3
<1>5. Gauged'
  <2>1. metrics \in MetricsType /\ metrics.gauges.loaded = Len(evaluators)
        /\ metrics.gauges.bindings = Bindings(bindings)
    BY DEF Inv, Gauged
  <2> HIDE DEF n
  <2>2. /\ metrics' \in MetricsType /\ metrics'.gauges = [metrics.gauges EXCEPT !.compiled = n]
        /\ metrics.gauges \in Gauges
    BY <1>1, <1>3, <2>1, GaugeSet
  <2>3. /\ metrics'.gauges.compiled = n /\ metrics'.gauges.loaded = metrics.gauges.loaded
        /\ metrics'.gauges.bindings = metrics.gauges.bindings
    BY <2>2 DEF Gauges
  <2>4. n = Cardinality(compiled')
    BY <1>1 DEF n
  <2>5. QED
    BY <1>1, <2>1, <2>2, <2>3, <2>4 DEF Gauged, Bindings
<1>6. ASSUME serial
      PROVE  Alone'
  <2>1. \A q \in Reloads : q # r => reload'[q].left = <<>>
    BY <1>2, <1>6, OthersIdle, StepsAre
  <2>2. compiled' = PathsOf(x.defs) \ broken'
    BY <1>1, <1>3
  <2>3. AfterModules \in Halves /\ AfterModules # AfterSchemas /\ <<>> \notin Halves /\ <<>> # AfterSchemas
    BY StepsAre
  <2>4. \A q \in Reloads : Replaced(reload[q])'
    BY <1>4, <2>1, <2>2, <2>3 DEF Replaced, PathsOf
  <2>5. QED
    BY <1>4, <2>1, <2>3, <2>4 DEF Alone
<1>7. /\ evaluators' \in Configs /\ compiled' \subseteq Paths /\ broken' \subseteq Paths
      /\ schemas' \in [Names -> (Schemas \ {"broken"}) \cup {None}]
  BY <1>1, <1>3 DEF Inv, Loaded
<1>8. QED
  BY <1>1, <1>5, <1>6, <1>7, LoadInv

LEMMA InstallSchemasStep ==
  ASSUME Inv, NEW r \in Reloads, InstallSchemas(r)
  PROVE  Inv'
<1> DEFINE x == reload[r]
<1>1. /\ LoadStep(r, "schemas") /\ schemas' = SchemasOf(x.defs) /\ ev' = Disturb
      /\ UNCHANGED <<evaluators, compiled, metrics, broken, bindings>>
  BY DEF InstallSchemas, LoadStep, NewSchemas
<1>2. Brought(x) /\ x.left = AfterModules /\ reload'[r] = [x EXCEPT !.left = AfterSchemas]
      /\ \A q \in Reloads : q # r => reload'[q] = reload[q]
  BY <1>1, LoadStepIs
<1>3. x.defs \in Configs /\ x = [left |-> x.left, defs |-> x.defs, ok |-> x.ok]
  BY <1>2, BringsIs, StepsAre
<1>4. reload'[r].left = AfterSchemas /\ reload'[r].defs = x.defs
  BY <1>2, <1>3
<1>5. Gauged'
  BY <1>1 DEF Inv, Gauged, Bindings
<1>6. ASSUME serial
      PROVE  Alone'
  <2>1. Replaced(x) /\ \A q \in Reloads : q # r => reload'[q].left = <<>>
    BY <1>2, <1>6, OthersIdle, StepsAre
  <2>2. compiled' = PathsOf(x.defs) \ broken'
    BY <1>1, <1>2, <2>1, StepsAre DEF Replaced
  <2>3. AfterSchemas \in Halves /\ <<>> \notin Halves /\ <<>> # AfterSchemas
    BY StepsAre
  <2>4. \A q \in Reloads : Replaced(reload[q])'
    <3>1. Replaced(reload[r])'
      BY <1>1, <1>4, <2>2, ReplacedNext
    <3>2. \A q \in Reloads : q # r => Replaced(reload[q])'
      BY <2>1, <2>3 DEF Replaced
    <3>3. QED
      BY <3>1, <3>2
  <2>5. QED
    BY <1>4, <2>1, <2>3, <2>4 DEF Alone
<1>7. /\ evaluators' \in Configs /\ compiled' \subseteq Paths /\ broken' \subseteq Paths
      /\ schemas' \in [Names -> (Schemas \ {"broken"}) \cup {None}]
  BY <1>1, <1>3, SchemasAre DEF Inv, Loaded
<1>8. QED
  BY <1>1, <1>5, <1>6, <1>7, LoadInv

LEMMA InstallDefinitionsStep ==
  ASSUME Inv, NEW r \in Reloads, InstallDefinitions(r)
  PROVE  Inv'
<1> DEFINE x == reload[r]
           n == Len(x.defs)
<1>1. /\ LoadStep(r, "definitions") /\ evaluators' = x.defs /\ ev' = Disturb
      /\ metrics' = SetLoaded(metrics, n)
      /\ UNCHANGED <<compiled, schemas, broken, bindings>>
  BY DEF InstallDefinitions, LoadStep, CountOf
<1>2. Brought(x) /\ x.left = AfterSchemas /\ reload'[r] = NoReload
      /\ \A q \in Reloads : q # r => reload'[q] = reload[q]
  BY <1>1, LoadStepIs
<1>3. x.defs \in Configs /\ n \in Nat
  BY <1>2, BringsIs, StepsAre
<1>4. reload'[r].left = <<>>
  BY <1>2 DEF NoReload
<1>5. Gauged'
  <2>1. metrics \in MetricsType /\ metrics.gauges.compiled = Cardinality(compiled)
        /\ metrics.gauges.bindings = Bindings(bindings)
    BY DEF Inv, Gauged
  <2> HIDE DEF n
  <2>2. /\ metrics' \in MetricsType /\ metrics'.gauges = [metrics.gauges EXCEPT !.loaded = n]
        /\ metrics.gauges \in Gauges
    BY <1>1, <1>3, <2>1, GaugeSet
  <2>3. /\ metrics'.gauges.loaded = n /\ metrics'.gauges.compiled = metrics.gauges.compiled
        /\ metrics'.gauges.bindings = metrics.gauges.bindings
    BY <2>2 DEF Gauges
  <2>4. n = Len(evaluators')
    BY <1>1 DEF n
  <2>5. QED
    BY <1>1, <2>1, <2>2, <2>3, <2>4 DEF Gauged, Bindings
<1>6. ASSUME serial
      PROVE  Alone'
  <2>1. Replaced(x) /\ \A q \in Reloads : reload'[q].left = <<>>
    BY <1>2, <1>4, <1>6, OthersIdle, StepsAre
  <2>2. compiled' = PathsOf(evaluators') \ broken' /\ schemas' = SchemasOf(evaluators')
    BY <1>1, <1>2, <2>1, StepsAre DEF Replaced
  <2>3. Agreed'
    BY <2>2 DEF Agreed
  <2>4. <<>> \notin Halves /\ <<>> # AfterSchemas
    BY StepsAre
  <2>5. QED
    BY <2>1, <2>3, <2>4 DEF Alone, Replaced
<1>7. /\ evaluators' \in Configs /\ compiled' \subseteq Paths /\ broken' \subseteq Paths
      /\ schemas' \in [Names -> (Schemas \ {"broken"}) \cup {None}]
  BY <1>1, <1>3 DEF Inv, Loaded
<1>8. QED
  BY <1>1, <1>5, <1>6, <1>7, LoadInv

-----------------------------------------------------------------------------
(* Bindings and snapshots.                                                 *)

LEMMA BindingsIs ==
  ASSUME NEW b
  PROVE  Bindings(b) \in Nat
<1>1. IsFiniteSet({ns \in Namespaces : b[ns] # None})
  BY RequestAssumption, FS_Subset
<1>2. QED
  BY <1>1, FS_CardinalityType DEF Bindings

LEMMA EvSame ==
  ASSUME Inv, UNCHANGED <<evaluators, compiled, schemas, broken, ev>>
  PROVE  DOMAIN ev' = Evaluations /\ \A e \in Evaluations : (Good(ev[e]) /\ Undisturbed(ev[e]))'
<1>1. \A e \in Evaluations : ev'[e] = ev[e] /\ Good(ev[e]) /\ Undisturbed(ev[e])
  BY EvIs
<1>2. QED
  BY <1>1 DEF Inv, Good, IsEv, Typed, Undisturbed

LEMMA BindNamespaceStep ==
  ASSUME Inv, NEW ns \in Namespaces, NEW c \in Conversations \cup {None}, BindNamespace(ns, c)
  PROVE  Inv'
<1> DEFINE n == Bindings(bindings')
<1>1. /\ bindings' = [bindings EXCEPT ![ns] = c] /\ metrics' = SetBindings(metrics, n)
      /\ UNCHANGED <<evaluators, compiled, schemas, reload, ev, view, broken, serial>>
  BY DEF BindNamespace
<1>2. Loaded /\ Gauged /\ Viewed
  BY DEF Inv
<1>3. bindings' \in [Namespaces -> Conversations \cup {None}]
  BY <1>1, <1>2 DEF Loaded
<1>4. Loaded'
  <2>1. \A r \in Reloads : Brought(reload'[r])
    BY <1>1, <1>2 DEF Loaded
  <2>2. serial' => Alone'
    BY <1>1, <1>2, AloneSame DEF Loaded
  <2>3. QED
    BY <1>1, <1>2, <1>3, <2>1, <2>2 DEF Loaded, Brought, PathsOf
<1>5. Gauged'
  <2>1. metrics \in MetricsType /\ metrics.gauges.compiled = Cardinality(compiled)
        /\ metrics.gauges.loaded = Len(evaluators)
    BY <1>2 DEF Gauged
  <2>2. n \in Nat
    BY BindingsIs
  <2> HIDE DEF n
  <2>3. /\ metrics' \in MetricsType /\ metrics'.gauges = [metrics.gauges EXCEPT !.bindings = n]
        /\ metrics.gauges \in Gauges
    BY <1>1, <2>1, <2>2, GaugeSet
  <2>4. /\ metrics'.gauges.bindings = n /\ metrics'.gauges.compiled = metrics.gauges.compiled
        /\ metrics'.gauges.loaded = metrics.gauges.loaded
    BY <2>3 DEF Gauges
  <2>5. QED
    BY <1>1, <2>1, <2>3, <2>4 DEF Gauged, Bindings, n
<1>6. Viewed'
  BY <1>1, <1>2 DEF Viewed
<1>7. QED
  BY <1>1, <1>4, <1>5, <1>6, EvSame DEF Inv

(* Whatever is copied comes from the store.                                *)
LEMMA ViewInv ==
  ASSUME Inv, UNCHANGED <<state, bindings, ev, metrics>>, Viewed'
  PROVE  Inv'
<1>1. UNCHANGED <<evaluators, compiled, schemas, reload, broken, serial, bindings, ev, metrics>>
  BY DEF state
<1>2. Loaded'
  BY <1>1, LoadedSame DEF Inv
<1>3. Gauged'
  BY <1>1 DEF Inv, Gauged, Bindings
<1>4. QED
  BY <1>1, <1>2, <1>3, EvSame DEF Inv

LEMMA TakeSnapshotStep ==
  ASSUME Inv, TakeSnapshot
  PROVE  Inv'
<1>1. view' = [left |-> SnapshotSteps, todo |-> Names, copy |-> NoMetrics, taken |-> view.taken + 1]
  BY DEF TakeSnapshot
<1>2. Viewed'
  BY <1>1, NoMetricsType DEF Viewed
<1>3. QED
  BY <1>2, ViewInv DEF TakeSnapshot

LEMMA ReadEvaluatorStep ==
  ASSUME Inv, NEW n \in Names, ReadEvaluator(n)
  PROVE  Inv'
<1> DEFINE c == metrics.evaluators[n]
           copy == [view.copy EXCEPT !.evaluators[n] = c]
           todo == view.todo \ {n}
           left == IF view.todo = {n} THEN Tail(view.left) ELSE view.left
<1>1. Viewed /\ metrics \in MetricsType
  BY DEF Inv, Gauged
<1>2. copy \in MetricsType
  BY <1>1, CountersOf, EvaluatorCounted DEF Viewed, Counts
<1>3. view' = [left |-> left, todo |-> todo, copy |-> copy, taken |-> view.taken]
  BY <1>1 DEF ReadEvaluator, Viewed
<1> HIDE DEF left, todo, copy
<1>4. Viewed'
  BY <1>2, <1>3 DEF Viewed
<1>5. QED
  BY <1>4, ViewInv DEF ReadEvaluator

LEMMA ReadRestStep ==
  ASSUME Inv, ReadRest
  PROVE  Inv'
<1> DEFINE first == [view.copy EXCEPT !.filters = metrics.filters]
           between == [view.copy EXCEPT !.pipeline = metrics.pipeline]
           last == [between EXCEPT !.gauges = metrics.gauges]
<1>1. Viewed /\ metrics \in MetricsType /\ view.copy \in MetricsType
  BY DEF Inv, Gauged, Viewed
<1>2. first \in MetricsType /\ between \in MetricsType
  BY <1>1 DEF MetricsType
<1>3. last \in MetricsType
  <2> HIDE DEF between
  <2>1. QED
    BY <1>1, <1>2 DEF MetricsType
<1>4. \E copy \in {first, last} :
        view' = [left |-> Tail(view.left), todo |-> view.todo, copy |-> copy, taken |-> view.taken]
  BY <1>1 DEF ReadRest, Viewed
<1> HIDE DEF first, last
<1>5. Viewed'
  BY <1>2, <1>3, <1>4 DEF Viewed
<1>6. QED
  BY <1>5, ViewInv DEF ReadRest
-----------------------------------------------------------------------------
(* The invariant holds.                                                    *)

LEMMA InitInv ==
  ASSUME Init
  PROVE  Inv
<1>1. /\ evaluators \in Configs /\ compiled = PathsOf(evaluators) /\ schemas = SchemasOf(evaluators)
      /\ bindings = [ns \in Namespaces |-> None] /\ reload = [r \in Reloads |-> NoReload]
      /\ ev = [e \in Evaluations |-> NoEvaluation] /\ view = NoView /\ broken = {} /\ serial = TRUE
  BY DEF Init
<1>2. /\ compiled \subseteq Paths /\ IsFiniteSet(compiled) /\ Len(evaluators) \in Nat
      /\ schemas \in [Names -> (Schemas \ {"broken"}) \cup {None}]
  BY <1>1, PathsAre, SchemasAre
<1>3. NoReload.left = <<>> /\ Brought(NoReload)
  BY StepsAre DEF Brought, NoReload, ReloadType
<1>4. Loaded
  <2>1. Alone
    BY <1>1, <1>3, StepsAre DEF Alone, Replaced, Agreed
  <2>2. QED
    BY <1>1, <1>2, <1>3, <2>1 DEF Loaded
<1>5. Gauged
  <2> DEFINE n == Cardinality(compiled)
             between == SetCompiled(NoMetrics, n)
  <2>1. n \in Nat
    BY <1>2, FS_CardinalityType
  <2>2. metrics = SetLoaded(between, Len(evaluators))
    BY DEF Init
  <2>3. NoMetrics.gauges.bindings = 0
    BY DEF NoMetrics
  <2> HIDE DEF n
  <2>4. between \in MetricsType /\ between.gauges = [NoMetrics.gauges EXCEPT !.compiled = n]
        /\ NoMetrics.gauges \in Gauges
    BY <2>1, NoMetricsType, GaugeSet
  <2>5. between.gauges.compiled = n /\ between.gauges.bindings = 0
    BY <2>3, <2>4 DEF Gauges
  <2> HIDE DEF between
  <2>6. metrics \in MetricsType /\ metrics.gauges = [between.gauges EXCEPT !.loaded = Len(evaluators)]
        /\ between.gauges \in Gauges
    BY <1>2, <2>2, <2>4, GaugeSet
  <2>7. metrics.gauges.loaded = Len(evaluators) /\ metrics.gauges.compiled = n
        /\ metrics.gauges.bindings = 0
    BY <2>5, <2>6 DEF Gauges
  <2>8. Bindings(bindings) = 0
    <3>1. {ns \in Namespaces : bindings[ns] # None} = {}
      BY <1>1
    <3>2. QED
      BY <3>1, FS_EmptySet DEF Bindings
  <2>9. QED
    BY <2>6, <2>7, <2>8 DEF Gauged, n
<1>6. Viewed
  BY <1>1, NoMetricsType DEF Viewed, NoView
<1>7. QED
  BY <1>1, <1>4, <1>5, <1>6, NoEvaluationIs DEF Inv, Good

LEMMA NextInv ==
  ASSUME Inv, [Next]_vars
  PROVE  Inv'
<1>1. ASSUME NEW e \in Evaluations, NEW m \in Methods \cup {None}, NEW ns \in Namespaces,
             Match(e, m, ns)
      PROVE  Inv'
  BY <1>1, MatchStep
<1>2. ASSUME NEW e \in Evaluations, Evaluating(e)
      PROVE  Inv'
  <2>1. CASE \E c \in Conversations \cup {None} : GatherContext(e, c)
    BY <2>1, GatherContextStep
  <2>2. CASE \E r \in Results \cup {"none"} : LlmAnswers(e, r)
    BY <2>2, LlmAnswersStep
  <2>3. CASE \E r \in Results \cup {"none"} : RetryAnswers(e, r)
    BY <2>3, RetryAnswersStep
  <2>4. CASE Validate(e)
    BY <2>4, ValidateStep
  <2>5. CASE MissingModule(e)
    BY <2>5, MissingModuleStep
  <2>6. CASE \E d \in Decisions, trapped \in BOOLEAN : Evaluate(e, d, trapped)
    BY <2>6, EvaluateStep
  <2>7. CASE Respond(e)
    BY <2>7, RespondStep
  <2>8. QED
    BY <1>2, <2>1, <2>2, <2>3, <2>4, <2>5, <2>6, <2>7 DEF Evaluating
<1>3. ASSUME NEW r \in Reloads, NEW defs \in Configs, NEW ok \in SUBSET Paths,
             UpdateEvaluators(r, defs, ok)
      PROVE  Inv'
  BY <1>3, UpdateEvaluatorsStep
<1>4. ASSUME NEW r \in Reloads, Loading(r)
      PROVE  Inv'
  BY <1>4, InstallModulesStep, InstallSchemasStep, InstallDefinitionsStep DEF Loading
<1>5. ASSUME NEW ns \in Namespaces, NEW c \in Conversations \cup {None}, BindNamespace(ns, c)
      PROVE  Inv'
  BY <1>5, BindNamespaceStep
<1>6. CASE TakeSnapshot
  BY <1>6, TakeSnapshotStep
<1>7. CASE ReadRest
  BY <1>7, ReadRestStep
<1>8. ASSUME NEW n \in Names, ReadEvaluator(n)
      PROVE  Inv'
  BY <1>8, ReadEvaluatorStep
<1>9. CASE UNCHANGED vars
  <2>1. UNCHANGED <<state, bindings, ev, metrics>> /\ view' = view
    BY <1>9 DEF vars, state
  <2>2. Viewed'
    BY <2>1 DEF Inv, Viewed
  <2>3. QED
    BY <2>1, <2>2, ViewInv
<1>10. QED
  BY <1>1, <1>2, <1>3, <1>4, <1>5, <1>6, <1>7, <1>8, <1>9 DEF Next

LEMMA InvAlways == Spec => []Inv
<1>1. Init => Inv
  BY InitInv
<1>2. Inv /\ [Next]_vars => Inv'
  BY NextInv
<1>3. QED
  BY <1>1, <1>2, PTL DEF Spec

(* ev and reload are functions all along.                                  *)
Shaped == /\ ev = [e \in Evaluations |-> ev[e]]
          /\ reload = [r \in Reloads |-> reload[r]]

LEMMA ShapedAlways == Spec => []Shaped
<1>1. Init => Shaped
  BY DEF Init, Shaped
<1>2. ASSUME Shaped, [Next]_vars
      PROVE  Shaped'
  <2>1. CASE UNCHANGED vars
    BY <1>2, <2>1 DEF Shaped, vars
  <2>2. ASSUME NEW e, NEW x, Become(e, x)
        PROVE  Shaped'
    BY <1>2, <2>2 DEF Shaped, Become
  <2>3. ASSUME NEW e \in Evaluations, NEW m \in Methods \cup {None}, NEW ns \in Namespaces,
               Match(e, m, ns)
        PROVE  Shaped'
    <3>1. \E x : Become(e, x)
      BY <2>3, Zenon DEF Match
    <3>2. QED
      BY <2>2, <3>1
  <2>4. ASSUME NEW e \in Evaluations, Evaluating(e)
        PROVE  Shaped'
    <3>1. \E x : Become(e, x)
      <4>1. CASE Validate(e)
        BY <4>1, Zenon DEF Validate
      <4>2. CASE \E r \in Results \cup {"none"} : RetryAnswers(e, r)
        BY <4>2, Zenon DEF RetryAnswers
      <4>3. CASE \E r \in Results \cup {"none"} : LlmAnswers(e, r)
        BY <4>3, Zenon DEF LlmAnswers
      <4>4. QED
        BY <2>4, <4>1, <4>2, <4>3, Zenon
           DEF Evaluating, GatherContext, MissingModule, Evaluate, Respond
    <3>2. QED
      BY <2>2, <3>1
  <2>5. ASSUME NEW r \in Reloads, NEW defs \in Configs, NEW ok \in SUBSET Paths,
               UpdateEvaluators(r, defs, ok)
        PROVE  Shaped'
    BY <1>2, <2>5 DEF UpdateEvaluators, Shaped
  <2>6. ASSUME NEW r \in Reloads, Loading(r)
        PROVE  Shaped'
    <3>1. \E x : reload' = [reload EXCEPT ![r] = x]
      BY <2>6, Zenon DEF Loading, InstallModules, InstallSchemas, InstallDefinitions, LoadStep
    <3>2. ev' = Disturb
      BY <2>6 DEF Loading, InstallModules, InstallSchemas, InstallDefinitions
    <3>3. QED
      BY <1>2, <3>1, <3>2 DEF Shaped, Disturb
  <2>7. ASSUME NEW ns \in Namespaces, NEW c \in Conversations \cup {None}, BindNamespace(ns, c)
        PROVE  Shaped'
    BY <1>2, <2>7 DEF BindNamespace, Shaped
  <2>8. CASE TakeSnapshot \/ ReadRest \/ \E n \in Names : ReadEvaluator(n)
    <3>1. UNCHANGED <<ev, reload>>
      BY <2>8 DEF TakeSnapshot, ReadRest, ReadEvaluator, state
    <3>2. QED
      BY <1>2, <3>1 DEF Shaped
  <2>9. QED
    BY <1>2, <2>1, <2>3, <2>4, <2>5, <2>6, <2>7, <2>8 DEF Next
<1>3. QED
  BY <1>1, <1>2, PTL DEF Spec
-----------------------------------------------------------------------------
(* The definitions are a configuration, the modules are paths, the schemas *)
(* are ones that compiled, every counter is a number, and a snapshot is of *)
(* the shape of the store (EvaluatorState of state.rs, MetricsStore).      *)
THEOREM TypeCorrect == Spec => []TypeOK
<1>1. Inv /\ Shaped => TypeOK
  <2> SUFFICES ASSUME Inv, Shaped
               PROVE  TypeOK
    OBVIOUS
  <2>1. ASSUME NEW e \in Evaluations
        PROVE  ev[e] \in Evaluation
    <3> DEFINE x == ev[e]
    <3>1. Typed(x) /\ IsEv(x)
      BY EvIs
    <3> HIDE DEF x
    <3>2. x = [pc |-> x.pc, method |-> x.method, ns |-> x.ns, def |-> x.def, conv |-> x.conv,
               raw |-> x.raw, schema |-> x.schema, result |-> x.result, asked |-> x.asked,
               trapped |-> x.trapped, found |-> x.found, answer |-> x.answer, calm |-> x.calm]
      BY <3>1 DEF IsEv, Fields
    <3>3. x \in Evaluation
      BY <3>1, <3>2 DEF Typed, Working, Evaluation
    <3>4. QED
      BY <3>3 DEF x
  <2>2. ev = [e \in Evaluations |-> ev[e]]
    BY DEF Shaped
  <2>3. ev \in [Evaluations -> Evaluation]
    BY <2>1, <2>2
  <2>4. reload \in [Reloads -> ReloadType]
    <3>1. \A r \in Reloads : reload[r] \in ReloadType
      BY DEF Inv, Loaded, Brought
    <3>2. QED
      BY <3>1 DEF Shaped
  <2>5. QED
    BY <2>3, <2>4 DEF Inv, Loaded, Gauged, Viewed, TypeOK
<1>2. QED
  BY <1>1, InvAlways, ShapedAlways, PTL

(* Reloads that do not overlap leave the definitions, the modules, the     *)
(* schemas and the gauges of one configuration (load_evaluators).          *)
THEOREM SerialAgree == Spec => []SerialReloadsAgree
<1>1. Inv => SerialReloadsAgree
  BY StepsAre DEF Inv, Loaded, Gauged, Alone, Agreed, SerialReloadsAgree
<1>2. QED
  BY <1>1, InvAlways, PTL

(* A module is missed only when it did not compile, or when a reload       *)
(* replaced something meanwhile: the modules are stored before the         *)
(* definitions that name them.                                             *)
THEOREM FoundLoaded == Spec => []FoundIsLoaded
<1>1. Inv => FoundIsLoaded
  BY DEF Inv, Undisturbed, FoundIsLoaded
<1>2. QED
  BY <1>1, InvAlways, PTL

(* For any configurations, also with names that repeat: what a processor   *)
(* gets for a definition with a schema satisfies the last schema of that   *)
(* name, or was asked for twice, or a reload intervened (compile_schemas,  *)
(* validate_and_retry_if_needed).                                          *)
THEOREM ResultFits == Spec => []ResultFitsSchema
<1>1. Inv => ResultFitsSchema
  <2> SUFFICES ASSUME Inv, NEW e \in Evaluations, NEW i \in DOMAIN evaluators,
                      ev[e].pc \in {"decided", "answering"}, ev[e].calm,
                      ev[e].def.schema # None, i \in WithSchema(evaluators, ev[e].def.name),
                      \A j \in WithSchema(evaluators, ev[e].def.name) : j <= i
               PROVE  \/ Valid(evaluators[i].schema, ev[e].result)
                      \/ ev[e].asked = 2 /\ ev[e].result = ev[e].raw
    BY DEF ResultFitsSchema
  <2> DEFINE n == ev[e].def.name
  <2>1. evaluators \in Configs /\ schemas = SchemasOf(evaluators)
    BY EvIs DEF Inv, Loaded, Undisturbed, Working
  <2>2. evaluators[i].name = n /\ Compiled(evaluators[i].schema) # None
    BY DEF WithSchema
  <2>3. n \in Names
    BY <2>1, <2>2, PathsAre DEF Def
  <2>4. schemas[n] = evaluators[i].schema
    BY <2>1, <2>3, SchemasAre
  <2>5. schemas[n] # None
    BY <2>2, <2>4 DEF Compiled
  <2>6. QED
    BY <2>4, <2>5, EvIs DEF Undisturbed
<1>2. QED
  BY <1>1, InvAlways, PTL
-----------------------------------------------------------------------------
(* What the counters of an evaluator add up to.                            *)

Calls(c)   == c.llm_success + c.llm_failure
Retries(c) == c.retries_success + c.retries_failure

Tally(c) == [decided |-> Decided(c), missed |-> c.not_found, calls |-> Calls(c),
             executions |-> c.executions, timed |-> c.pipeline_timed,
             retries |-> Retries(c), invalid |-> c.invalid]
Tallies  == [decided : Nat, missed : Nat, calls : Nat, executions : Nat, timed : Nat,
             retries : Nat, invalid : Nat]

(* m2 differs from m in the counters of n only, which add up to t.         *)
Turns(m, n, m2, t) ==
  /\ m2 \in MetricsType /\ m2.filters = m.filters /\ m2.pipeline = m.pipeline
  /\ \A k \in Names \ {n} : m2.evaluators[k] = m.evaluators[k]
  /\ Tally(m2.evaluators[n]) = t

LEMMA DecisionsFinite == IsFiniteSet(Decisions) /\ IsFiniteSet(FilterResults)
<1>1. \A S, x : IsFiniteSet(S) => IsFiniteSet(S \cup {x})
  BY FS_AddElement
<1>2. IsFiniteSet({"pass"}) /\ IsFiniteSet({"continue"})
  BY FS_Singleton
<1>3. IsFiniteSet((({"continue"} \cup {"reject"}) \cup {"other"}) \cup {"error"})
  BY <1>1, <1>2
<1>4. IsFiniteSet((((({"pass"} \cup {"block"}) \cup {"reject_malformed"}) \cup {"warn"})
                   \cup {"filter_tools"}) \cup {"set_metadata"})
  BY <1>1, <1>2
<1>5. FilterResults = (({"continue"} \cup {"reject"}) \cup {"other"}) \cup {"error"}
  BY DEF FilterResults
<1>6. Decisions = (((({"pass"} \cup {"block"}) \cup {"reject_malformed"}) \cup {"warn"})
                   \cup {"filter_tools"}) \cup {"set_metadata"}
  BY DEF Decisions
<1>7. QED
  BY <1>3, <1>4, <1>5, <1>6

LEMMA TallyIs ==
  ASSUME NEW c \in EvaluatorCounters
  PROVE  Tally(c) \in Tallies /\ Decided(c) \in Nat
<1>1. c.decisions \in [Decisions -> Nat]
  BY DEF EvaluatorCounters
<1>2. Decided(c) \in Nat
  BY <1>1, DecisionsFinite, SumType DEF Decided
<1>3. Calls(c) \in Nat /\ Retries(c) \in Nat
  BY DEF EvaluatorCounters, Calls, Retries
<1>4. QED
  BY <1>2, <1>3 DEF EvaluatorCounters, Tally, Tallies

LEMMA RowSet ==
  ASSUME NEW m \in MetricsType, NEW n \in Names, NEW c \in EvaluatorCounters
  PROVE  Turns(m, n, [m EXCEPT !.evaluators[n] = c], Tally(c))
<1> DEFINE m2 == [m EXCEPT !.evaluators[n] = c]
<1>1. m2 \in MetricsType /\ m2.evaluators[n] = c
  BY EvaluatorCounted DEF Counts
<1>2. m2.filters = m.filters /\ m2.pipeline = m.pipeline
  BY DEF MetricsType
<1>3. m2.evaluators = [m.evaluators EXCEPT ![n] = c] /\ DOMAIN m.evaluators = Names
  BY DEF MetricsType
<1> HIDE DEF m2
<1>4. \A k \in Names \ {n} : m2.evaluators[k] = m.evaluators[k]
  BY <1>3
<1>5. QED
  BY <1>1, <1>2, <1>4 DEF Turns, m2

LEMMA TurnsOn ==
  ASSUME NEW m, NEW n \in Names, NEW m1, NEW t1, NEW m2, NEW t2,
         Turns(m, n, m1, t1), Turns(m1, n, m2, t2)
  PROVE  Turns(m, n, m2, t2)
  BY DEF Turns

LEMMA DecisionTurns ==
  ASSUME NEW m \in MetricsType, NEW n \in Names, NEW d \in Decisions
  PROVE  Turns(m, n, RecordDecision(m, n, d),
               [Tally(m.evaluators[n]) EXCEPT !.decided = @ + 1])
<1> DEFINE row == m.evaluators[n]
           decided == [row.decisions EXCEPT ![d] = @ + 1]
           c == [row EXCEPT !.decisions = decided]
<1>1. row \in EvaluatorCounters
  BY CountersOf
<1>2. decided \in [Decisions -> Nat] /\ row.decisions \in [Decisions -> Nat]
  BY <1>1 DEF EvaluatorCounters
<1>3. SumFunction(decided) = SumFunction(row.decisions) + 1
  <2> DEFINE before == row.decisions
             k == before[d]
  <2>1. decided[d] = k + 1 /\ (\A o \in Decisions \ {d} : decided[o] = before[o]) /\ k \in Nat
    BY <1>2
  <2>2. SumFunction(decided) \in Nat /\ SumFunction(before) \in Nat
    BY <1>2, DecisionsFinite, SumType
  <2>3. SumFunction(decided) - SumFunction(before) = decided[d] - k
    <3> HIDE DEF decided, before
    <3>1. before \in [Decisions -> Nat] /\ decided \in [Decisions -> Nat]
      BY <1>2 DEF before
    <3>2. QED
      BY <2>1, <3>1, DecisionsFinite, SumGrows DEF k
  <2> HIDE DEF before, decided, k
  <2>4. SumFunction(decided) = SumFunction(before) + 1
    BY <2>1, <2>2, <2>3
  <2>5. QED
    BY <2>4 DEF before
<1> HIDE DEF decided
<1>4. c \in EvaluatorCounters
  BY <1>1, <1>2 DEF EvaluatorCounters
<1>5. c.decisions = decided
  BY <1>1 DEF EvaluatorCounters
<1>6. /\ c.not_found = row.not_found /\ Calls(c) = Calls(row) /\ c.executions = row.executions
      /\ c.pipeline_timed = row.pipeline_timed /\ Retries(c) = Retries(row) /\ c.invalid = row.invalid
  BY <1>1 DEF EvaluatorCounters, Calls, Retries
<1>7. Decided(c) = Decided(row) + 1
  BY <1>3, <1>5 DEF Decided
<1>8. Tally(c) = [Tally(row) EXCEPT !.decided = @ + 1]
  <2> HIDE DEF c, row
  <2>1. QED
    BY <1>6, <1>7 DEF Tally
<1>9. RecordDecision(m, n, d) = [m EXCEPT !.evaluators[n] = c]
  BY DEF RecordDecision, decided
<1>10. Turns(m, n, [m EXCEPT !.evaluators[n] = c], Tally(c))
  <2> HIDE DEF c
  <2>1. QED
    BY <1>4, RowSet
<1>11. QED
  <2> HIDE DEF c, row
  <2>1. QED
    BY <1>8, <1>9, <1>10 DEF row

(* Counters that no sum looks at.                                          *)
LEMMA QuietTurns ==
  ASSUME NEW m \in MetricsType, NEW n \in Names
  PROVE  /\ Turns(m, n, [m EXCEPT !.evaluators[n].llm_timed = @ + 1],
                  Tally(m.evaluators[n]))
         /\ Turns(m, n, [m EXCEPT !.evaluators[n].wasm_timed = @ + 1],
                  Tally(m.evaluators[n]))
         /\ Turns(m, n, [m EXCEPT !.evaluators[n].llm_empty = @ + 1],
                  Tally(m.evaluators[n]))
         /\ Turns(m, n, [m EXCEPT !.evaluators[n].valid = @ + 1],
                  Tally(m.evaluators[n]))
<1> DEFINE row == m.evaluators[n]
           c1 == [row EXCEPT !.llm_timed = @ + 1]
           c2 == [row EXCEPT !.wasm_timed = @ + 1]
           c3 == [row EXCEPT !.llm_empty = @ + 1]
           c4 == [row EXCEPT !.valid = @ + 1]
           t == Tally(row)
<1>1. row \in EvaluatorCounters
  BY CountersOf
<1>2. c1 \in EvaluatorCounters /\ Tally(c1) = t
  <2>1. c1 \in EvaluatorCounters
    BY <1>1 DEF EvaluatorCounters
  <2>2. c1.decisions = row.decisions
    BY <1>1 DEF EvaluatorCounters
  <2>3. /\ c1.not_found = row.not_found /\ c1.executions = row.executions
        /\ c1.pipeline_timed = row.pipeline_timed /\ c1.invalid = row.invalid
        /\ Calls(c1) = Calls(row) /\ Retries(c1) = Retries(row)
    BY <1>1 DEF EvaluatorCounters, Calls, Retries
  <2> HIDE DEF c1, row
  <2>4. QED
    BY <2>1, <2>2, <2>3 DEF Tally, Decided
<1>3. c2 \in EvaluatorCounters /\ Tally(c2) = t
  <2>1. c2 \in EvaluatorCounters
    BY <1>1 DEF EvaluatorCounters
  <2>2. c2.decisions = row.decisions
    BY <1>1 DEF EvaluatorCounters
  <2>3. /\ c2.not_found = row.not_found /\ c2.executions = row.executions
        /\ c2.pipeline_timed = row.pipeline_timed /\ c2.invalid = row.invalid
        /\ Calls(c2) = Calls(row) /\ Retries(c2) = Retries(row)
    BY <1>1 DEF EvaluatorCounters, Calls, Retries
  <2> HIDE DEF c2, row
  <2>4. QED
    BY <2>1, <2>2, <2>3 DEF Tally, Decided
<1>4. c3 \in EvaluatorCounters /\ Tally(c3) = t
  <2>1. c3 \in EvaluatorCounters
    BY <1>1 DEF EvaluatorCounters
  <2>2. c3.decisions = row.decisions
    BY <1>1 DEF EvaluatorCounters
  <2>3. /\ c3.not_found = row.not_found /\ c3.executions = row.executions
        /\ c3.pipeline_timed = row.pipeline_timed /\ c3.invalid = row.invalid
        /\ Calls(c3) = Calls(row) /\ Retries(c3) = Retries(row)
    BY <1>1 DEF EvaluatorCounters, Calls, Retries
  <2> HIDE DEF c3, row
  <2>4. QED
    BY <2>1, <2>2, <2>3 DEF Tally, Decided
<1>5. c4 \in EvaluatorCounters /\ Tally(c4) = t
  <2>1. c4 \in EvaluatorCounters
    BY <1>1 DEF EvaluatorCounters
  <2>2. c4.decisions = row.decisions
    BY <1>1 DEF EvaluatorCounters
  <2>3. /\ c4.not_found = row.not_found /\ c4.executions = row.executions
        /\ c4.pipeline_timed = row.pipeline_timed /\ c4.invalid = row.invalid
        /\ Calls(c4) = Calls(row) /\ Retries(c4) = Retries(row)
    BY <1>1 DEF EvaluatorCounters, Calls, Retries
  <2> HIDE DEF c4, row
  <2>4. QED
    BY <2>1, <2>2, <2>3 DEF Tally, Decided
<1>6. /\ [m EXCEPT !.evaluators[n].llm_timed = @ + 1] = [m EXCEPT !.evaluators[n] = c1]
      /\ [m EXCEPT !.evaluators[n].wasm_timed = @ + 1] = [m EXCEPT !.evaluators[n] = c2]
      /\ [m EXCEPT !.evaluators[n].llm_empty = @ + 1] = [m EXCEPT !.evaluators[n] = c3]
      /\ [m EXCEPT !.evaluators[n].valid = @ + 1] = [m EXCEPT !.evaluators[n] = c4]
  OBVIOUS
<1> HIDE DEF c1, c2, c3, c4, t
<1>7. /\ Turns(m, n, [m EXCEPT !.evaluators[n] = c1], t)
      /\ Turns(m, n, [m EXCEPT !.evaluators[n] = c2], t)
      /\ Turns(m, n, [m EXCEPT !.evaluators[n] = c3], t)
      /\ Turns(m, n, [m EXCEPT !.evaluators[n] = c4], t)
  BY <1>2, <1>3, <1>4, <1>5, RowSet
<1>8. QED
  BY <1>6, <1>7 DEF t

LEMMA CallsTurn ==
  ASSUME NEW m \in MetricsType, NEW n \in Names
  PROVE  /\ Turns(m, n, [m EXCEPT !.evaluators[n].llm_success = @ + 1],
                  [Tally(m.evaluators[n]) EXCEPT !.calls = @ + 1])
         /\ Turns(m, n, [m EXCEPT !.evaluators[n].llm_failure = @ + 1],
                  [Tally(m.evaluators[n]) EXCEPT !.calls = @ + 1])
<1> DEFINE row == m.evaluators[n]
           c1 == [row EXCEPT !.llm_success = @ + 1]
           c2 == [row EXCEPT !.llm_failure = @ + 1]
           t == [Tally(row) EXCEPT !.calls = @ + 1]
<1>1. row \in EvaluatorCounters
  BY CountersOf
<1>2. c1 \in EvaluatorCounters /\ Tally(c1) = t
  <2>1. c1 \in EvaluatorCounters
    BY <1>1 DEF EvaluatorCounters
  <2>2. c1.decisions = row.decisions
    BY <1>1 DEF EvaluatorCounters
  <2>3. /\ c1.not_found = row.not_found /\ c1.executions = row.executions
        /\ c1.pipeline_timed = row.pipeline_timed /\ c1.invalid = row.invalid
        /\ Calls(c1) = Calls(row) + 1 /\ Retries(c1) = Retries(row)
    BY <1>1 DEF EvaluatorCounters, Calls, Retries
  <2> HIDE DEF c1, row
  <2>4. QED
    BY <2>1, <2>2, <2>3 DEF Tally, Decided
<1>3. c2 \in EvaluatorCounters /\ Tally(c2) = t
  <2>1. c2 \in EvaluatorCounters
    BY <1>1 DEF EvaluatorCounters
  <2>2. c2.decisions = row.decisions
    BY <1>1 DEF EvaluatorCounters
  <2>3. /\ c2.not_found = row.not_found /\ c2.executions = row.executions
        /\ c2.pipeline_timed = row.pipeline_timed /\ c2.invalid = row.invalid
        /\ Calls(c2) = Calls(row) + 1 /\ Retries(c2) = Retries(row)
    BY <1>1 DEF EvaluatorCounters, Calls, Retries
  <2> HIDE DEF c2, row
  <2>4. QED
    BY <2>1, <2>2, <2>3 DEF Tally, Decided
<1>4. /\ [m EXCEPT !.evaluators[n].llm_success = @ + 1] = [m EXCEPT !.evaluators[n] = c1]
      /\ [m EXCEPT !.evaluators[n].llm_failure = @ + 1] = [m EXCEPT !.evaluators[n] = c2]
  OBVIOUS
<1> HIDE DEF c1, c2, t
<1>5. /\ Turns(m, n, [m EXCEPT !.evaluators[n] = c1], t)
      /\ Turns(m, n, [m EXCEPT !.evaluators[n] = c2], t)
  BY <1>2, <1>3, RowSet
<1>6. QED
  BY <1>4, <1>5 DEF t

LEMMA RetriesTurn ==
  ASSUME NEW m \in MetricsType, NEW n \in Names
  PROVE  /\ Turns(m, n, [m EXCEPT !.evaluators[n].retries_success = @ + 1],
                  [Tally(m.evaluators[n]) EXCEPT !.retries = @ + 1])
         /\ Turns(m, n, [m EXCEPT !.evaluators[n].retries_failure = @ + 1],
                  [Tally(m.evaluators[n]) EXCEPT !.retries = @ + 1])
<1> DEFINE row == m.evaluators[n]
           c1 == [row EXCEPT !.retries_success = @ + 1]
           c2 == [row EXCEPT !.retries_failure = @ + 1]
           t == [Tally(row) EXCEPT !.retries = @ + 1]
<1>1. row \in EvaluatorCounters
  BY CountersOf
<1>2. c1 \in EvaluatorCounters /\ Tally(c1) = t
  <2>1. c1 \in EvaluatorCounters
    BY <1>1 DEF EvaluatorCounters
  <2>2. c1.decisions = row.decisions
    BY <1>1 DEF EvaluatorCounters
  <2>3. /\ c1.not_found = row.not_found /\ c1.executions = row.executions
        /\ c1.pipeline_timed = row.pipeline_timed /\ c1.invalid = row.invalid
        /\ Calls(c1) = Calls(row) /\ Retries(c1) = Retries(row) + 1
    BY <1>1 DEF EvaluatorCounters, Calls, Retries
  <2> HIDE DEF c1, row
  <2>4. QED
    BY <2>1, <2>2, <2>3 DEF Tally, Decided
<1>3. c2 \in EvaluatorCounters /\ Tally(c2) = t
  <2>1. c2 \in EvaluatorCounters
    BY <1>1 DEF EvaluatorCounters
  <2>2. c2.decisions = row.decisions
    BY <1>1 DEF EvaluatorCounters
  <2>3. /\ c2.not_found = row.not_found /\ c2.executions = row.executions
        /\ c2.pipeline_timed = row.pipeline_timed /\ c2.invalid = row.invalid
        /\ Calls(c2) = Calls(row) /\ Retries(c2) = Retries(row) + 1
    BY <1>1 DEF EvaluatorCounters, Calls, Retries
  <2> HIDE DEF c2, row
  <2>4. QED
    BY <2>1, <2>2, <2>3 DEF Tally, Decided
<1>4. /\ [m EXCEPT !.evaluators[n].retries_success = @ + 1] = [m EXCEPT !.evaluators[n] = c1]
      /\ [m EXCEPT !.evaluators[n].retries_failure = @ + 1] = [m EXCEPT !.evaluators[n] = c2]
  OBVIOUS
<1> HIDE DEF c1, c2, t
<1>5. /\ Turns(m, n, [m EXCEPT !.evaluators[n] = c1], t)
      /\ Turns(m, n, [m EXCEPT !.evaluators[n] = c2], t)
  BY <1>2, <1>3, RowSet
<1>6. QED
  BY <1>4, <1>5 DEF t

LEMMA InvalidTurns ==
  ASSUME NEW m \in MetricsType, NEW n \in Names
  PROVE  Turns(m, n, [m EXCEPT !.evaluators[n].invalid = @ + 1],
                  [Tally(m.evaluators[n]) EXCEPT !.invalid = @ + 1])
<1> DEFINE row == m.evaluators[n]
           c1 == [row EXCEPT !.invalid = @ + 1]
           t == [Tally(row) EXCEPT !.invalid = @ + 1]
<1>1. row \in EvaluatorCounters
  BY CountersOf
<1>2. c1 \in EvaluatorCounters /\ Tally(c1) = t
  <2>1. c1 \in EvaluatorCounters
    BY <1>1 DEF EvaluatorCounters
  <2>2. c1.decisions = row.decisions
    BY <1>1 DEF EvaluatorCounters
  <2>3. /\ c1.not_found = row.not_found /\ c1.executions = row.executions
        /\ c1.pipeline_timed = row.pipeline_timed /\ c1.invalid = row.invalid + 1
        /\ Calls(c1) = Calls(row) /\ Retries(c1) = Retries(row)
    BY <1>1 DEF EvaluatorCounters, Calls, Retries
  <2> HIDE DEF c1, row
  <2>4. QED
    BY <2>1, <2>2, <2>3 DEF Tally, Decided
<1>3. /\ [m EXCEPT !.evaluators[n].invalid = @ + 1] = [m EXCEPT !.evaluators[n] = c1]
  OBVIOUS
<1> HIDE DEF c1, t
<1>4. /\ Turns(m, n, [m EXCEPT !.evaluators[n] = c1], t)
  BY <1>2, RowSet
<1>5. QED
  BY <1>3, <1>4 DEF t

LEMMA MissedTurns ==
  ASSUME NEW m \in MetricsType, NEW n \in Names
  PROVE  /\ Turns(m, n, [m EXCEPT !.evaluators[n].not_found = @ + 1],
                  [Tally(m.evaluators[n]) EXCEPT !.missed = @ + 1])
<1> DEFINE row == m.evaluators[n]
           c1 == [row EXCEPT !.not_found = @ + 1]
           t == [Tally(row) EXCEPT !.missed = @ + 1]
<1>1. row \in EvaluatorCounters
  BY CountersOf
<1>2. c1 \in EvaluatorCounters /\ Tally(c1) = t
  <2>1. c1 \in EvaluatorCounters
    BY <1>1 DEF EvaluatorCounters
  <2>2. c1.decisions = row.decisions
    BY <1>1 DEF EvaluatorCounters
  <2>3. /\ c1.not_found = row.not_found + 1 /\ c1.executions = row.executions
        /\ c1.pipeline_timed = row.pipeline_timed /\ c1.invalid = row.invalid
        /\ Calls(c1) = Calls(row) /\ Retries(c1) = Retries(row)
    BY <1>1 DEF EvaluatorCounters, Calls, Retries
  <2> HIDE DEF c1, row
  <2>4. QED
    BY <2>1, <2>2, <2>3 DEF Tally, Decided
<1>3. /\ [m EXCEPT !.evaluators[n].not_found = @ + 1] = [m EXCEPT !.evaluators[n] = c1]
  OBVIOUS
<1> HIDE DEF c1, t
<1>4. /\ Turns(m, n, [m EXCEPT !.evaluators[n] = c1], t)
  BY <1>2, RowSet
<1>5. QED
  BY <1>3, <1>4 DEF t

LEMMA ExecutionsTurn ==
  ASSUME NEW m \in MetricsType, NEW n \in Names
  PROVE  /\ Turns(m, n, [m EXCEPT !.evaluators[n].executions = @ + 1],
                  [Tally(m.evaluators[n]) EXCEPT !.executions = @ + 1])
<1> DEFINE row == m.evaluators[n]
           c1 == [row EXCEPT !.executions = @ + 1]
           t == [Tally(row) EXCEPT !.executions = @ + 1]
<1>1. row \in EvaluatorCounters
  BY CountersOf
<1>2. c1 \in EvaluatorCounters /\ Tally(c1) = t
  <2>1. c1 \in EvaluatorCounters
    BY <1>1 DEF EvaluatorCounters
  <2>2. c1.decisions = row.decisions
    BY <1>1 DEF EvaluatorCounters
  <2>3. /\ c1.not_found = row.not_found /\ c1.executions = row.executions + 1
        /\ c1.pipeline_timed = row.pipeline_timed /\ c1.invalid = row.invalid
        /\ Calls(c1) = Calls(row) /\ Retries(c1) = Retries(row)
    BY <1>1 DEF EvaluatorCounters, Calls, Retries
  <2> HIDE DEF c1, row
  <2>4. QED
    BY <2>1, <2>2, <2>3 DEF Tally, Decided
<1>3. /\ [m EXCEPT !.evaluators[n].executions = @ + 1] = [m EXCEPT !.evaluators[n] = c1]
  OBVIOUS
<1> HIDE DEF c1, t
<1>4. /\ Turns(m, n, [m EXCEPT !.evaluators[n] = c1], t)
  BY <1>2, RowSet
<1>5. QED
  BY <1>3, <1>4 DEF t

LEMMA TimedTurns ==
  ASSUME NEW m \in MetricsType, NEW n \in Names
  PROVE  /\ Turns(m, n, [m EXCEPT !.evaluators[n].pipeline_timed = @ + 1],
                  [Tally(m.evaluators[n]) EXCEPT !.timed = @ + 1])
<1> DEFINE row == m.evaluators[n]
           c1 == [row EXCEPT !.pipeline_timed = @ + 1]
           t == [Tally(row) EXCEPT !.timed = @ + 1]
<1>1. row \in EvaluatorCounters
  BY CountersOf
<1>2. c1 \in EvaluatorCounters /\ Tally(c1) = t
  <2>1. c1 \in EvaluatorCounters
    BY <1>1 DEF EvaluatorCounters
  <2>2. c1.decisions = row.decisions
    BY <1>1 DEF EvaluatorCounters
  <2>3. /\ c1.not_found = row.not_found /\ c1.executions = row.executions
        /\ c1.pipeline_timed = row.pipeline_timed + 1 /\ c1.invalid = row.invalid
        /\ Calls(c1) = Calls(row) /\ Retries(c1) = Retries(row)
    BY <1>1 DEF EvaluatorCounters, Calls, Retries
  <2> HIDE DEF c1, row
  <2>4. QED
    BY <2>1, <2>2, <2>3 DEF Tally, Decided
<1>3. /\ [m EXCEPT !.evaluators[n].pipeline_timed = @ + 1] = [m EXCEPT !.evaluators[n] = c1]
  OBVIOUS
<1> HIDE DEF c1, t
<1>4. /\ Turns(m, n, [m EXCEPT !.evaluators[n] = c1], t)
  BY <1>2, RowSet
<1>5. QED
  BY <1>3, <1>4 DEF t

(* What each call on the counters of an evaluator adds.                    *)
LEMMA RecordTurns ==
  ASSUME NEW m \in MetricsType, NEW n \in Names, NEW ok \in BOOLEAN, NEW t,
         t = Tally(m.evaluators[n])
  PROVE  /\ Turns(m, n, RecordLlmCall(m, n, ok), [t EXCEPT !.calls = @ + 1])
         /\ Turns(m, n, RecordLlmEmpty(m, n), t)
         /\ Turns(m, n, RecordValidation(m, n, ok), IF ok THEN t ELSE [t EXCEPT !.invalid = @ + 1])
         /\ Turns(m, n, RecordRetry(m, n, ok), [t EXCEPT !.retries = @ + 1])
         /\ Turns(m, n, RecordExecution(m, n), [t EXCEPT !.executions = @ + 1])
         /\ Turns(m, n, RecordNotFound(m, n), [t EXCEPT !.missed = @ + 1])
         /\ Turns(m, n, RecordPipeline(m, n), [t EXCEPT !.timed = @ + 1])
<1> DEFINE timed == [m EXCEPT !.evaluators[n].llm_timed = @ + 1]
           executed == [m EXCEPT !.evaluators[n].executions = @ + 1]
<1>1. Turns(m, n, RecordLlmCall(m, n, ok), [t EXCEPT !.calls = @ + 1])
  <2>1. Turns(m, n, timed, t)
    BY QuietTurns
  <2>2. RecordLlmCall(m, n, ok) =
          IF ok THEN [timed EXCEPT !.evaluators[n].llm_success = @ + 1]
                ELSE [timed EXCEPT !.evaluators[n].llm_failure = @ + 1]
    BY DEF RecordLlmCall
  <2> HIDE DEF timed
  <2>3. timed \in MetricsType /\ Tally(timed.evaluators[n]) = t
    BY <2>1 DEF Turns
  <2>4. Turns(timed, n, RecordLlmCall(m, n, ok), [t EXCEPT !.calls = @ + 1])
    BY <2>2, <2>3, CallsTurn
  <2>5. QED
    BY <2>1, <2>4, TurnsOn
<1>2. Turns(m, n, RecordLlmEmpty(m, n), t)
  BY QuietTurns DEF RecordLlmEmpty
<1>3. Turns(m, n, RecordValidation(m, n, ok), IF ok THEN t ELSE [t EXCEPT !.invalid = @ + 1])
  BY QuietTurns, InvalidTurns DEF RecordValidation
<1>4. Turns(m, n, RecordRetry(m, n, ok), [t EXCEPT !.retries = @ + 1])
  BY RetriesTurn DEF RecordRetry
<1>5. Turns(m, n, RecordExecution(m, n), [t EXCEPT !.executions = @ + 1])
  <2>1. Turns(m, n, executed, [t EXCEPT !.executions = @ + 1])
    BY ExecutionsTurn
  <2>2. RecordExecution(m, n) = [executed EXCEPT !.evaluators[n].wasm_timed = @ + 1]
    BY DEF RecordExecution
  <2> HIDE DEF executed
  <2>3. executed \in MetricsType /\ Tally(executed.evaluators[n]) = [t EXCEPT !.executions = @ + 1]
    BY <2>1 DEF Turns
  <2>4. Turns(executed, n, RecordExecution(m, n), [t EXCEPT !.executions = @ + 1])
    <3>1. Turns(executed, n, [executed EXCEPT !.evaluators[n].wasm_timed = @ + 1],
                Tally(executed.evaluators[n]))
      BY <2>3, QuietTurns
    <3>2. QED
      BY <2>2, <2>3, <3>1
  <2>5. QED
    BY <2>1, <2>4, TurnsOn
<1>6. Turns(m, n, RecordNotFound(m, n), [t EXCEPT !.missed = @ + 1])
  BY MissedTurns DEF RecordNotFound
<1>7. Turns(m, n, RecordPipeline(m, n), [t EXCEPT !.timed = @ + 1])
  BY TimedTurns DEF RecordPipeline
<1>8. QED
  BY <1>1, <1>2, <1>3, <1>4, <1>5, <1>6, <1>7

(* Every request decided, or given up for want of a module.                *)
Spent(c) == Decided(c) + c.not_found

LEMMA SpentIs ==
  ASSUME NEW m \in MetricsType
  PROVE  /\ [n \in Names |-> Spent(m.evaluators[n])] \in [Names -> Nat]
         /\ \A n \in Names : /\ Spent(m.evaluators[n]) \in Nat
                             /\ Tally(m.evaluators[n]) \in Tallies
                             /\ Spent(m.evaluators[n]) = Tally(m.evaluators[n]).decided
                                                         + Tally(m.evaluators[n]).missed
         /\ Accounted(m) = SumFunction([n \in Names |-> Spent(m.evaluators[n])])
         /\ Accounted(m) \in Nat
<1>1. ASSUME NEW n \in Names
      PROVE  /\ Spent(m.evaluators[n]) \in Nat
             /\ Tally(m.evaluators[n]) \in Tallies
             /\ Spent(m.evaluators[n]) = Tally(m.evaluators[n]).decided
                                         + Tally(m.evaluators[n]).missed
  <2> DEFINE c == m.evaluators[n]
  <2>1. c \in EvaluatorCounters
    BY CountersOf
  <2> HIDE DEF c
  <2>2. Tally(c) \in Tallies /\ Decided(c) \in Nat /\ c.not_found \in Nat
    BY <2>1, TallyIs DEF EvaluatorCounters
  <2>3. Spent(c) \in Nat /\ Spent(c) = Tally(c).decided + Tally(c).missed
    BY <2>2 DEF Spent, Tally
  <2>4. QED
    BY <2>2, <2>3 DEF c
<1>2. [n \in Names |-> Spent(m.evaluators[n])] \in [Names -> Nat]
  BY <1>1
<1>3. Accounted(m) = SumFunction([n \in Names |-> Spent(m.evaluators[n])])
  BY DEF Accounted, Spent
<1>4. Accounted(m) \in Nat
  BY <1>2, <1>3, NamesAssumption, SumType
<1>5. QED
  BY <1>1, <1>2, <1>3, <1>4

LEMMA AccountedTurns ==
  ASSUME NEW m \in MetricsType, NEW n \in Names, NEW m2, NEW t, Turns(m, n, m2, t)
  PROVE  Accounted(m2) - Accounted(m) = Spent(m2.evaluators[n]) - Spent(m.evaluators[n])
<1> DEFINE f == [k \in Names |-> Spent(m.evaluators[k])]
           g == [k \in Names |-> Spent(m2.evaluators[k])]
<1>1. /\ f \in [Names -> Nat] /\ Accounted(m) = SumFunction(f)
      /\ g \in [Names -> Nat] /\ Accounted(m2) = SumFunction(g)
  BY SpentIs DEF Turns
<1>2. \A k \in Names \ {n} : g[k] = f[k]
  BY DEF Turns
<1>3. g[n] = Spent(m2.evaluators[n]) /\ f[n] = Spent(m.evaluators[n])
  OBVIOUS
<1> HIDE DEF f, g
<1>4. SumFunction(g) - SumFunction(f) = g[n] - f[n]
  BY <1>1, <1>2, NamesAssumption, SumGrows
<1>5. QED
  BY <1>1, <1>3, <1>4
-----------------------------------------------------------------------------
(* What is counted, while requests are evaluated and snapshots taken.      *)

(* The evaluations that go on, those the LLM has answered, and those that  *)
(* ask it again.                                                           *)
Asked     == {"answered", "retrying", "decided"}
Open      == {e \in Evaluations : ev[e].pc \in Working}
Called(n) == {e \in Evaluations : ev[e].pc \in Asked /\ ev[e].def.name = n}
Again(n)  == {e \in Evaluations : ev[e].pc = "retrying" /\ ev[e].def.name = n}

Balanced(t, called, again) ==
  /\ t.calls = t.decided + t.missed + called
  /\ t.executions = t.decided /\ t.timed = t.decided
  /\ t.retries + again = t.invalid

Counted ==
  /\ IsFiniteSet(Open) /\ Accounted(metrics) + Cardinality(Open) = metrics.pipeline.matches
  /\ \A n \in Names :
       Balanced(Tally(metrics.evaluators[n]), Cardinality(Called(n)), Cardinality(Again(n)))
  /\ \A f \in FilterNames : Filtered(metrics.filters[f]) = metrics.filters[f].timed

(* What a snapshot has copied is no more than what the store has now.      *)
Behind(copy, m) == \A n \in Names : Spent(copy.evaluators[n]) <= Spent(m.evaluators[n])

Copied ==
  /\ view.taken \in Nat
  /\ view.left \in {<<>>, SnapshotSteps, <<"evaluators", "pipeline_and_gauges">>,
                    <<"pipeline_and_gauges">>}
  /\ view.left # <<>> => Behind(view.copy, metrics)
  /\ SnapshotAddsUp

Tallied == Counted /\ Copied

(* An evaluation that goes on to x.                                        *)
LEMMA SetsMove ==
  ASSUME Inv, Counted, NEW e \in Evaluations, NEW x, ev' = [ev EXCEPT ![e] = x], NEW n
  PROVE  /\ e \in Open <=> ev[e].pc \in Working
         /\ e \in Open' <=> x.pc \in Working
         /\ e \in Called(n) <=> ev[e].pc \in Asked /\ ev[e].def.name = n
         /\ e \in Called(n)' <=> x.pc \in Asked /\ x.def.name = n
         /\ e \in Again(n) <=> ev[e].pc = "retrying" /\ ev[e].def.name = n
         /\ e \in Again(n)' <=> x.pc = "retrying" /\ x.def.name = n
         /\ Open' \ {e} = Open \ {e} /\ Called(n)' \ {e} = Called(n) \ {e}
         /\ Again(n)' \ {e} = Again(n) \ {e}
         /\ IsFiniteSet(Open) /\ IsFiniteSet(Called(n)) /\ IsFiniteSet(Again(n))
<1>1. DOMAIN ev = Evaluations
  BY DEF Inv
<1>2. ev'[e] = x /\ \A o \in Evaluations \ {e} : ev'[o] = ev[o]
  BY <1>1
<1>3. Open' \ {e} = Open \ {e} /\ (e \in Open <=> ev[e].pc \in Working)
      /\ (e \in Open' <=> x.pc \in Working)
  BY <1>2 DEF Open
<1>4. Called(n)' \ {e} = Called(n) \ {e}
      /\ (e \in Called(n) <=> ev[e].pc \in Asked /\ ev[e].def.name = n)
      /\ (e \in Called(n)' <=> x.pc \in Asked /\ x.def.name = n)
  BY <1>2 DEF Called
<1>5. Again(n)' \ {e} = Again(n) \ {e}
      /\ (e \in Again(n) <=> ev[e].pc = "retrying" /\ ev[e].def.name = n)
      /\ (e \in Again(n)' <=> x.pc = "retrying" /\ x.def.name = n)
  BY <1>2 DEF Again
<1>6. Called(n) \subseteq Open /\ Again(n) \subseteq Open
  BY DEF Called, Again, Open, Asked, Working
<1>7. IsFiniteSet(Open) /\ IsFiniteSet(Called(n)) /\ IsFiniteSet(Again(n))
  BY <1>6, FS_Subset DEF Counted
<1>8. QED
  BY <1>3, <1>4, <1>5, <1>7

In(x, S) == IF x \in S THEN 1 ELSE 0

(* So many go on, then.                                                    *)
LEMMA SetMoves ==
  ASSUME NEW A, NEW B, NEW e, IsFiniteSet(A), B \ {e} = A \ {e}
  PROVE  /\ IsFiniteSet(B) /\ Cardinality(A) \in Nat /\ Cardinality(B) \in Nat
         /\ Cardinality(B) + In(e, A) = Cardinality(A) + In(e, B)
<1>1. /\ IsFiniteSet(B) /\ Cardinality(A) \in Nat /\ Cardinality(B) \in Nat
      /\ (e \in A <=> e \in B) => Cardinality(B) = Cardinality(A)
      /\ e \notin A /\ e \in B => Cardinality(B) = Cardinality(A) + 1
      /\ e \in A /\ e \notin B => Cardinality(B) = Cardinality(A) - 1
  BY OneMoves
<1> DEFINE a == Cardinality(A)
           b == Cardinality(B)
<1>2. /\ In(e, A) \in {0, 1} /\ (e \in A <=> In(e, A) = 1)
      /\ In(e, B) \in {0, 1} /\ (e \in B <=> In(e, B) = 1)
  BY DEF In
<1> DEFINE i == In(e, A)
           j == In(e, B)
<1>3. /\ a \in Nat /\ b \in Nat /\ i \in {0, 1} /\ j \in {0, 1} /\ (i = j => b = a)
      /\ (i = 0 /\ j = 1 => b = a + 1) /\ (i = 1 /\ j = 0 => b = a - 1)
  BY <1>1, <1>2
<1> HIDE DEF a, b, i, j
<1>4. b + i = a + j
  BY <1>3
<1>5. QED
  BY <1>1, <1>4 DEF a, b, i, j

LEMMA OpenMoves ==
  ASSUME Inv, Counted, NEW e \in Evaluations, NEW x, ev' = [ev EXCEPT ![e] = x]
  PROVE  /\ IsFiniteSet(Open') /\ Cardinality(Open) \in Nat /\ Cardinality(Open') \in Nat
         /\ Cardinality(Open') + In(ev[e].pc, Working)
              = Cardinality(Open) + In(x.pc, Working)
<1>1. IsFiniteSet(Open) /\ Open' \ {e} = Open \ {e}
  BY SetsMove
<1>2. /\ In(e, Open) = In(ev[e].pc, Working)
      /\ In(e, Open') = In(x.pc, Working)
  BY SetsMove DEF In
<1>3. QED
  BY <1>1, <1>2, SetMoves

LEMMA CallsMove ==
  ASSUME Inv, Counted, NEW e \in Evaluations, NEW x, ev' = [ev EXCEPT ![e] = x],
         x.def.name = ev[e].def.name, NEW n
  PROVE  /\ Cardinality(Called(n)) \in Nat /\ Cardinality(Called(n)') \in Nat
         /\ Cardinality(Again(n)) \in Nat /\ Cardinality(Again(n)') \in Nat
         /\ n # ev[e].def.name => /\ Cardinality(Called(n)') = Cardinality(Called(n))
                                  /\ Cardinality(Again(n)') = Cardinality(Again(n))
         /\ n = ev[e].def.name =>
              /\ Cardinality(Called(n)') + In(ev[e].pc, Asked)
                   = Cardinality(Called(n)) + In(x.pc, Asked)
              /\ Cardinality(Again(n)') + In(ev[e].pc, {"retrying"})
                   = Cardinality(Again(n)) + In(x.pc, {"retrying"})
<1>1. /\ IsFiniteSet(Called(n)) /\ Called(n)' \ {e} = Called(n) \ {e}
      /\ IsFiniteSet(Again(n)) /\ Again(n)' \ {e} = Again(n) \ {e}
  BY SetsMove
<1>2. /\ Cardinality(Called(n)) \in Nat /\ Cardinality(Called(n)') \in Nat
      /\ Cardinality(Called(n)') + In(e, Called(n)) = Cardinality(Called(n)) + In(e, Called(n)')
      /\ Cardinality(Again(n)) \in Nat /\ Cardinality(Again(n)') \in Nat
      /\ Cardinality(Again(n)') + In(e, Again(n)) = Cardinality(Again(n)) + In(e, Again(n)')
  BY <1>1, SetMoves
<1>3. /\ (e \in Called(n)) <=> (ev[e].pc \in Asked /\ ev[e].def.name = n)
      /\ (e \in Called(n)') <=> (x.pc \in Asked /\ x.def.name = n)
      /\ (e \in Again(n)) <=> (ev[e].pc = "retrying" /\ ev[e].def.name = n)
      /\ (e \in Again(n)') <=> (x.pc = "retrying" /\ x.def.name = n)
  BY SetsMove
<1>4. CASE n # ev[e].def.name
  <2>1. e \notin Called(n) /\ e \notin Called(n)' /\ e \notin Again(n) /\ e \notin Again(n)'
    BY <1>3, <1>4
  <2>2. In(e, Called(n)) = 0 /\ In(e, Called(n)') = 0 /\ In(e, Again(n)) = 0 /\ In(e, Again(n)') = 0
    BY <2>1 DEF In
  <2>3. QED
    BY <1>2, <1>4, <2>2
<1>5. CASE n = ev[e].def.name
  <2>1. /\ (e \in Called(n)) <=> (ev[e].pc \in Asked)
        /\ (e \in Called(n)') <=> (x.pc \in Asked)
        /\ (e \in Again(n)) <=> (ev[e].pc = "retrying")
        /\ (e \in Again(n)') <=> (x.pc = "retrying")
    BY <1>3, <1>5
  <2>2. In(e, Called(n)) = In(ev[e].pc, Asked) /\ In(e, Called(n)') = In(x.pc, Asked)
    BY <2>1 DEF In
  <2>3. /\ In(e, Again(n)) = In(ev[e].pc, {"retrying"})
        /\ In(e, Again(n)') = In(x.pc, {"retrying"})
    BY <2>1 DEF In
  <2>4. QED
    BY <1>2, <1>5, <2>2, <2>3
<1>6. QED
  BY <1>4, <1>5

(* A step of an evaluation, from the counters t0 of its evaluator to t.    *)
LEMMA TurnInv ==
  ASSUME Inv, Tallied, NEW e \in Evaluations, ev[e].pc \in Working,
         NEW x, x.def = ev[e].def, Become(e, x),
         NEW t0, t0 = Tally(metrics.evaluators[Name(e)]), NEW t, Turns(metrics, Name(e), metrics', t),
         t.decided + t.missed + In(x.pc, Working) = t0.decided + t0.missed + 1,
         t.calls + t0.decided + t0.missed + In(ev[e].pc, Asked)
           = t0.calls + t.decided + t.missed + In(x.pc, Asked),
         t.executions - t0.executions = t.decided - t0.decided,
         t.timed - t0.timed = t.decided - t0.decided,
         t.retries + t0.invalid + In(x.pc, {"retrying"})
           = t0.retries + t.invalid + In(ev[e].pc, {"retrying"})
  PROVE  Tallied'
<1> DEFINE n == Name(e)
<1>1. n \in Names /\ metrics \in MetricsType /\ metrics' \in MetricsType /\ view' = view
      /\ ev' = [ev EXCEPT ![e] = x] /\ n = ev[e].def.name /\ x.def.name = n
  BY NameIs DEF Turns, Become, Name
<1>2. /\ metrics'.filters = metrics.filters /\ metrics'.pipeline = metrics.pipeline
      /\ \A k \in Names \ {n} : metrics'.evaluators[k] = metrics.evaluators[k]
      /\ Tally(metrics'.evaluators[n]) = t
  BY DEF Turns
<1> HIDE DEF n
<1>3. /\ t0 \in Tallies /\ Spent(metrics.evaluators[n]) = t0.decided + t0.missed
      /\ t \in Tallies /\ Spent(metrics'.evaluators[n]) = t.decided + t.missed
  BY <1>1, <1>2, SpentIs DEF n
<1>4. /\ t0.decided \in Nat /\ t0.missed \in Nat /\ t0.calls \in Nat /\ t0.executions \in Nat
      /\ t0.timed \in Nat /\ t0.retries \in Nat /\ t0.invalid \in Nat
      /\ t.decided \in Nat /\ t.missed \in Nat /\ t.calls \in Nat /\ t.executions \in Nat
      /\ t.timed \in Nat /\ t.retries \in Nat /\ t.invalid \in Nat
  BY <1>3 DEF Tallies
<1>5. IsFiniteSet(Open)' /\ Accounted(metrics') + Cardinality(Open') = metrics'.pipeline.matches
  <2>1. Accounted(metrics') - Accounted(metrics) = (t.decided + t.missed) - (t0.decided + t0.missed)
    <3>1. Accounted(metrics') - Accounted(metrics)
            = Spent(metrics'.evaluators[n]) - Spent(metrics.evaluators[n])
      BY <1>1, AccountedTurns DEF n
    <3>2. QED
      BY <1>3, <3>1
  <2>2. Accounted(metrics') \in Nat /\ Accounted(metrics) \in Nat
    BY <1>1, SpentIs
  <2>3. /\ IsFiniteSet(Open') /\ Cardinality(Open) \in Nat /\ Cardinality(Open') \in Nat
        /\ Cardinality(Open') + 1 = Cardinality(Open) + In(x.pc, Working)
    BY <1>1, OpenMoves DEF In, Tallied
  <2>4. In(x.pc, Working) \in Nat
    BY DEF In
  <2>5. Accounted(metrics') + Cardinality(Open') = Accounted(metrics) + Cardinality(Open)
    BY <1>4, <2>1, <2>2, <2>3, <2>4
  <2>6. QED
    BY <1>2, <2>3, <2>5 DEF Tallied, Counted
<1>6. ASSUME NEW k \in Names
      PROVE  Balanced(Tally(metrics'.evaluators[k]), Cardinality(Called(k)'), Cardinality(Again(k)'))
  <2> DEFINE called == Cardinality(Called(k))
             again == Cardinality(Again(k))
             called2 == Cardinality(Called(k)')
             again2 == Cardinality(Again(k)')
  <2>1. Balanced(Tally(metrics.evaluators[k]), called, again)
    BY DEF Tallied, Counted
  <2>2. /\ called \in Nat /\ called2 \in Nat /\ again \in Nat /\ again2 \in Nat
        /\ k # n => called2 = called /\ again2 = again
        /\ k = n => /\ called2 + In(ev[e].pc, Asked) = called + In(x.pc, Asked)
                    /\ again2 + In(ev[e].pc, {"retrying"}) = again + In(x.pc, {"retrying"})
    <3>1. Counted
      BY DEF Tallied
    <3>2. ev' = [ev EXCEPT ![e] = x] /\ n = ev[e].def.name /\ x.def.name = ev[e].def.name
      BY <1>1
    <3>3. QED
      BY <3>1, <3>2, CallsMove
  <2> HIDE DEF called, again, called2, again2
  <2>3. CASE k # n
    <3>1. Tally(metrics'.evaluators[k]) = Tally(metrics.evaluators[k])
      BY <1>2, <2>3
    <3>2. QED
      BY <2>1, <2>2, <2>3, <3>1 DEF called2, again2
  <2>4. CASE k = n
    <3> DEFINE a == In(ev[e].pc, Asked)
               b == In(x.pc, Asked)
               c == In(ev[e].pc, {"retrying"})
               d == In(x.pc, {"retrying"})
               calls == t.calls
               calls0 == t0.calls
               spent == t.decided + t.missed
               spent0 == t0.decided + t0.missed
               retries == t.retries
               retries0 == t0.retries
               invalid == t.invalid
               invalid0 == t0.invalid
    <3>2. called2 + a = called + b /\ again2 + c = again + d
      BY <2>2, <2>4
    <3>3. a \in Nat /\ b \in Nat /\ c \in Nat /\ d \in Nat
      BY DEF In
    <3>4. /\ calls \in Nat /\ calls0 \in Nat /\ spent \in Nat /\ spent0 \in Nat
          /\ retries \in Nat /\ retries0 \in Nat /\ invalid \in Nat /\ invalid0 \in Nat
      BY <1>4
    <3>5. Balanced(t0, called, again)
      BY <2>1, <2>4 DEF n
    <3>6. /\ calls + spent0 + a = calls0 + spent + b /\ calls0 = spent0 + called
          /\ retries + invalid0 + d = retries0 + invalid + c /\ retries0 + again = invalid0
      <4>1. calls + spent0 + a = calls0 + spent + b
        BY <1>4, <3>3
      <4>2. QED
        BY <3>5, <4>1 DEF Balanced
    <3>7. t.executions = t.decided /\ t.timed = t.decided
      BY <1>4, <3>5 DEF Balanced
    <3>8. called \in Nat /\ called2 \in Nat /\ again \in Nat /\ again2 \in Nat
      BY <2>2
    <3> HIDE DEF a, b, c, d, calls, calls0, spent, spent0, retries, retries0, invalid, invalid0
    <3>9. calls = spent + called2
      <4>1. calls + a = called + spent + b
        BY <3>3, <3>4, <3>6, <3>8
      <4>2. QED
        BY <3>2, <3>3, <3>4, <3>8, <4>1
    <3>10. retries + again2 = invalid
      BY <3>2, <3>3, <3>4, <3>6, <3>8
    <3>11. Balanced(t, called2, again2)
      BY <3>7, <3>9, <3>10 DEF Balanced, calls, spent, retries, invalid
    <3>12. QED
      BY <1>2, <2>4, <3>11 DEF called2, again2
  <2>5. QED
    BY <2>3, <2>4
<1>7. Counted'
  BY <1>2, <1>5, <1>6 DEF Tallied, Counted
<1>8. Copied'
  <2>1. ASSUME NEW k \in Names, Spent(view.copy.evaluators[k]) <= Spent(metrics.evaluators[k])
        PROVE  Spent(view.copy.evaluators[k]) <= Spent(metrics'.evaluators[k])
    <3>1. Spent(metrics.evaluators[n]) <= Spent(metrics'.evaluators[n])
      <4> DEFINE before == t0.decided + t0.missed
                 after == t.decided + t.missed
                 o == In(x.pc, Working)
      <4>1. o \in {0, 1} /\ before \in Nat /\ after \in Nat
        BY <1>4 DEF In
      <4>2. after + o = before + 1
        BY <1>4
      <4> HIDE DEF before, after, o
      <4>3. before <= after
        BY <4>1, <4>2
      <4>4. QED
        BY <1>3, <4>3 DEF before, after
    <3>2. Spent(metrics.evaluators[k]) <= Spent(metrics'.evaluators[k])
      <4>1. CASE k = n
        BY <3>1, <4>1
      <4>2. CASE k # n
        <5>1. metrics'.evaluators[k] = metrics.evaluators[k]
          BY <1>2, <4>2
        <5>2. Spent(metrics.evaluators[k]) \in Nat
          BY <1>1, SpentIs
        <5>3. QED
          BY <5>1, <5>2
      <4>3. QED
        BY <4>1, <4>2
    <3>3. /\ Spent(view.copy.evaluators[k]) \in Nat /\ Spent(metrics.evaluators[k]) \in Nat
          /\ Spent(metrics'.evaluators[k]) \in Nat
      BY <1>1, SpentIs DEF Inv, Viewed
    <3>4. QED
      BY <2>1, <3>2, <3>3
  <2>2. Behind(view.copy, metrics) => Behind(view.copy, metrics')
    BY <2>1 DEF Behind
  <2>3. QED
    BY <1>1, <2>2 DEF Tallied, Copied, SnapshotAddsUp, Accounted
<1>9. QED
  BY <1>7, <1>8 DEF Tallied

(* A step of an evaluation that no evaluator counts.                       *)
LEMMA PassInv ==
  ASSUME Inv, Tallied, NEW e \in Evaluations, NEW x, Become(e, x),
         ev[e].pc \notin Asked, x.pc \notin Asked,
         metrics' \in MetricsType, metrics'.evaluators = metrics.evaluators,
         metrics'.pipeline.matches + In(ev[e].pc, Working)
           = metrics.pipeline.matches + In(x.pc, Working),
         \A f \in FilterNames : Filtered(metrics'.filters[f]) = metrics'.filters[f].timed
  PROVE  Tallied'
<1>1. ev' = [ev EXCEPT ![e] = x] /\ view' = view /\ Counted /\ Copied
  BY DEF Become, Tallied
<1>2. Accounted(metrics') = Accounted(metrics)
  BY DEF Accounted
<1>3. IsFiniteSet(Open)' /\ Accounted(metrics') + Cardinality(Open') = metrics'.pipeline.matches
  <2> DEFINE a == Accounted(metrics)
             k == Cardinality(Open)
             k2 == Cardinality(Open')
             p == metrics.pipeline.matches
             p2 == metrics'.pipeline.matches
             i == In(ev[e].pc, Working)
             j == In(x.pc, Working)
  <2>1. IsFiniteSet(Open') /\ k \in Nat /\ k2 \in Nat /\ k2 + i = k + j
    BY <1>1, OpenMoves
  <2>2. metrics \in MetricsType
    BY DEF Inv, Gauged
  <2>3. a \in Nat /\ p \in Nat /\ p2 \in Nat
    BY <2>2, SpentIs DEF MetricsType, PipelineCounters
  <2>4. i \in Nat /\ j \in Nat
    BY DEF In
  <2>5. p2 + i = p + j /\ a + k = p
    BY <1>1 DEF Counted
  <2> HIDE DEF a, k, k2, p, p2, i, j
  <2>6. a + k2 = p2
    BY <2>1, <2>3, <2>4, <2>5
  <2>7. QED
    BY <1>2, <2>1, <2>6 DEF a, k2, p2
<1>4. ASSUME NEW n \in Names
      PROVE  Balanced(Tally(metrics'.evaluators[n]), Cardinality(Called(n)'), Cardinality(Again(n)'))
  <2>1. e \notin Called(n) /\ e \notin Called(n)' /\ e \notin Again(n) /\ e \notin Again(n)'
    BY <1>1, SetsMove DEF Asked
  <2>2. Called(n)' \ {e} = Called(n) \ {e} /\ Again(n)' \ {e} = Again(n) \ {e}
    BY <1>1, SetsMove
  <2>3. Called(n)' = Called(n) /\ Again(n)' = Again(n)
    BY <2>1, <2>2
  <2>4. QED
    BY <1>1, <2>3 DEF Counted
<1>5. Counted'
  BY <1>3, <1>4 DEF Counted
<1>6. Copied'
  BY <1>1 DEF Copied, Behind, SnapshotAddsUp, Accounted
<1>7. QED
  BY <1>5, <1>6 DEF Tallied

(* A step that no evaluation takes.                                        *)
LEMMA SameInv ==
  ASSUME Tallied, view' = view,
         \A e \in Evaluations : ev'[e].pc = ev[e].pc /\ ev'[e].def = ev[e].def,
         metrics'.evaluators = metrics.evaluators, metrics'.filters = metrics.filters,
         metrics'.pipeline = metrics.pipeline
  PROVE  Tallied'
<1>1. Open' = Open
  BY DEF Open
<1>2. \A n : Called(n)' = Called(n) /\ Again(n)' = Again(n)
  BY DEF Called, Again
<1>3. Accounted(metrics') = Accounted(metrics)
  BY DEF Accounted
<1>4. Counted'
  BY <1>1, <1>2, <1>3 DEF Tallied, Counted
<1>5. Copied'
  BY DEF Tallied, Copied, Behind, SnapshotAddsUp, Accounted
<1>6. QED
  BY <1>4, <1>5 DEF Tallied

LEMMA FilterTurns ==
  ASSUME NEW m \in MetricsType, NEW f \in FilterNames, NEW r \in FilterResults, NEW m2,
         m2 = RecordFilterResult(m, f, r),
         \A g \in FilterNames : Filtered(m.filters[g]) = m.filters[g].timed
  PROVE  /\ m2 \in MetricsType /\ m2.evaluators = m.evaluators /\ m2.pipeline = m.pipeline
         /\ \A g \in FilterNames : Filtered(m2.filters[g]) = m2.filters[g].timed
<1> DEFINE row == m.filters[f]
           row2 == m2.filters[f]
<1>1. m2 \in MetricsType
  BY RestCounted DEF Counts
<1>2. row \in FilterCounters
  BY DEF MetricsType
<1>3. m2.evaluators = m.evaluators /\ m2.pipeline = m.pipeline
  BY DEF MetricsType, RecordFilterResult
<1>4. \A g \in FilterNames \ {f} : m2.filters[g] = m.filters[g]
  BY DEF MetricsType, RecordFilterResult
<1>5. row2.results = [row.results EXCEPT ![r] = @ + 1] /\ row2.timed = row.timed + 1
  BY <1>2 DEF MetricsType, RecordFilterResult, FilterCounters
<1>6. Filtered(row2) = row2.timed
  <2> DEFINE before == row.results
             after == row2.results
  <2>1. before \in [FilterResults -> Nat] /\ row.timed \in Nat
    BY <1>2 DEF FilterCounters
  <2> HIDE DEF row, row2
  <2>2. after \in [FilterResults -> Nat] /\ after[r] = before[r] + 1 /\ before[r] \in Nat
        /\ \A o \in FilterResults \ {r} : after[o] = before[o]
    BY <1>5, <2>1
  <2> HIDE DEF before, after
  <2>3. SumFunction(after) - SumFunction(before) = after[r] - before[r]
    BY <2>1, <2>2, DecisionsFinite, SumGrows
  <2>4. SumFunction(after) \in Nat /\ SumFunction(before) \in Nat
    BY <2>1, <2>2, DecisionsFinite, SumType
  <2>5. SumFunction(after) = SumFunction(before) + 1
    BY <2>2, <2>3, <2>4
  <2>6. SumFunction(before) = row.timed
    BY DEF row, before, Filtered
  <2>7. QED
    BY <1>5, <2>5, <2>6 DEF after, Filtered
<1> HIDE DEF row, row2
<1>7. QED
  BY <1>1, <1>3, <1>4, <1>6 DEF row, row2

(* The counters of the pipeline, and the gauges, are of no evaluator.      *)
LEMMA PipelineTurns ==
  ASSUME NEW m \in MetricsType
  PROVE  /\ \A s \in Skips :
              /\ RecordSkip(m, s) \in MetricsType
              /\ RecordSkip(m, s).evaluators = m.evaluators /\ RecordSkip(m, s).filters = m.filters
              /\ RecordSkip(m, s).pipeline.matches = m.pipeline.matches
         /\ RecordTrigger(m, TRUE) \in MetricsType
         /\ RecordTrigger(m, TRUE).evaluators = m.evaluators
         /\ RecordTrigger(m, TRUE).filters = m.filters
         /\ RecordTrigger(m, TRUE).pipeline.matches = m.pipeline.matches + 1
         /\ RecordTrigger(m, FALSE) \in MetricsType
         /\ RecordTrigger(m, FALSE).evaluators = m.evaluators
         /\ RecordTrigger(m, FALSE).filters = m.filters
         /\ RecordTrigger(m, FALSE).pipeline.matches = m.pipeline.matches
         /\ m.pipeline.matches \in Nat
<1>1. m.pipeline.matches \in Nat
  BY DEF MetricsType, PipelineCounters
<1>2. ASSUME NEW s \in Skips
      PROVE  /\ RecordSkip(m, s) \in MetricsType
             /\ RecordSkip(m, s).evaluators = m.evaluators /\ RecordSkip(m, s).filters = m.filters
             /\ RecordSkip(m, s).pipeline.matches = m.pipeline.matches
  <2>1. RecordSkip(m, s) \in MetricsType
    BY RestCounted DEF Counts
  <2>2. QED
    BY <2>1 DEF RecordSkip, MetricsType, PipelineCounters
<1>3. RecordTrigger(m, TRUE) \in MetricsType /\ RecordTrigger(m, FALSE) \in MetricsType
  BY RestCounted DEF Counts
<1>4. /\ RecordTrigger(m, TRUE).evaluators = m.evaluators
      /\ RecordTrigger(m, TRUE).filters = m.filters
      /\ RecordTrigger(m, TRUE).pipeline.matches = m.pipeline.matches + 1
  BY DEF RecordTrigger, MetricsType, PipelineCounters
<1>5. /\ RecordTrigger(m, FALSE).evaluators = m.evaluators
      /\ RecordTrigger(m, FALSE).filters = m.filters
      /\ RecordTrigger(m, FALSE).pipeline.matches = m.pipeline.matches
  BY DEF RecordTrigger, MetricsType, PipelineCounters
<1>6. QED
  BY <1>1, <1>2, <1>3, <1>4, <1>5

LEMMA GaugesApart ==
  ASSUME NEW m \in MetricsType, NEW n, NEW m2,
         m2 \in {SetLoaded(m, n), SetCompiled(m, n), SetBindings(m, n)}
  PROVE  m2.evaluators = m.evaluators /\ m2.filters = m.filters /\ m2.pipeline = m.pipeline
<1>1. PICK g : m2 = [m EXCEPT !.gauges = g]
  BY DEF SetLoaded, SetCompiled, SetBindings
<1>2. QED
  BY <1>1 DEF MetricsType

LEMMA MatchTallied ==
  ASSUME Inv, Tallied, NEW e \in Evaluations, NEW method \in Methods \cup {None},
         NEW ns \in Namespaces, Match(e, method, ns)
  PROVE  Tallied'
<1> DEFINE d == FindMatching(method, ns)
           x == [NoEvaluation EXCEPT !.method = method, !.ns = ns]
           on == [x EXCEPT !.pc = "answering", !.answer = "continue"]
           calm == serial /\ \A r \in Reloads : ~HalfLoaded(r)
           y == [x EXCEPT !.pc = "matched", !.def = d, !.calm = calm]
           skipped == RecordSkip(metrics, "no_match")
<1>1. ev[e].pc = "idle" /\ metrics \in MetricsType
  BY DEF Match, Inv, Gauged
<1>2. on.pc = "answering" /\ y.pc = "matched"
  BY DEF NoEvaluation
<1>3. \A f \in FilterNames : Filtered(metrics.filters[f]) = metrics.filters[f].timed
  BY DEF Tallied, Counted
<1>4. \/ Become(e, on) /\ metrics' = RecordSkip(metrics, "no_method")
      \/ Become(e, on) /\ metrics' = RecordTrigger(skipped, FALSE)
      \/ Become(e, y) /\ metrics' = RecordTrigger(metrics, TRUE)
  BY DEF Match
<1> HIDE DEF on, y
<1>5. CASE Become(e, on) /\ metrics' = RecordSkip(metrics, "no_method")
  <2>1. /\ metrics' \in MetricsType /\ metrics'.evaluators = metrics.evaluators
        /\ metrics'.filters = metrics.filters /\ metrics'.pipeline.matches = metrics.pipeline.matches
    BY <1>1, <1>5, PipelineTurns DEF Skips
  <2>2. QED
    BY <1>1, <1>2, <1>3, <1>5, <2>1, PassInv DEF In, Asked, Working
<1>6. CASE Become(e, on) /\ metrics' = RecordTrigger(skipped, FALSE)
  <2>1. /\ skipped \in MetricsType /\ skipped.evaluators = metrics.evaluators
        /\ skipped.filters = metrics.filters /\ skipped.pipeline.matches = metrics.pipeline.matches
    BY <1>1, PipelineTurns DEF Skips
  <2> HIDE DEF skipped
  <2>2. /\ metrics' \in MetricsType /\ metrics'.evaluators = metrics.evaluators
        /\ metrics'.filters = metrics.filters /\ metrics'.pipeline.matches = metrics.pipeline.matches
    BY <1>6, <2>1, PipelineTurns
  <2>3. QED
    BY <1>1, <1>2, <1>3, <1>6, <2>2, PassInv DEF In, Asked, Working
<1>7. CASE Become(e, y) /\ metrics' = RecordTrigger(metrics, TRUE)
  <2>1. /\ metrics' \in MetricsType /\ metrics'.evaluators = metrics.evaluators
        /\ metrics'.filters = metrics.filters
        /\ metrics'.pipeline.matches = metrics.pipeline.matches + 1 /\ metrics.pipeline.matches \in Nat
    BY <1>1, <1>7, PipelineTurns
  <2>2. In(ev[e].pc, Working) = 0 /\ In(y.pc, Working) = 1
    BY <1>1, <1>2 DEF In, Working
  <2>3. metrics'.pipeline.matches + In(ev[e].pc, Working)
          = metrics.pipeline.matches + In(y.pc, Working)
    BY <2>1, <2>2
  <2>4. \A f \in FilterNames : Filtered(metrics'.filters[f]) = metrics'.filters[f].timed
    BY <1>3, <2>1
  <2>5. ev[e].pc \notin Asked /\ y.pc \notin Asked
    BY <1>1, <1>2 DEF Asked
  <2>6. QED
    BY <1>7, <2>1, <2>3, <2>4, <2>5, PassInv
<1>8. QED
  BY <1>4, <1>5, <1>6, <1>7

LEMMA GatherContextTallied ==
  ASSUME Inv, Tallied, NEW e \in Evaluations, NEW c \in Conversations \cup {None},
         GatherContext(e, c)
  PROVE  Tallied'
<1> DEFINE y == [ev[e] EXCEPT !.pc = "asking", !.asked = 1,
                   !.conv = IF c # None THEN c ELSE bindings[ev[e].ns]]
<1>1. ev[e].pc = "matched" /\ Become(e, y) /\ metrics' = metrics /\ metrics \in MetricsType
  BY DEF GatherContext, Inv, Gauged
<1>2. y.pc = "asking"
  BY EvIs DEF IsEv, Fields
<1>3. \A f \in FilterNames : Filtered(metrics.filters[f]) = metrics.filters[f].timed
  BY DEF Tallied, Counted
<1> HIDE DEF y
<1>4. QED
  BY <1>1, <1>2, <1>3, PassInv DEF In, Asked, Working

LEMMA RespondTallied ==
  ASSUME Inv, Tallied, NEW e \in Evaluations, Respond(e)
  PROVE  Tallied'
<1> DEFINE y == [ev[e] EXCEPT !.pc = "done", !.conv = None, !.raw = "", !.result = "",
                              !.schema = None]
           result == FilterResult(ev[e].answer)
<1>1. ev[e].pc = "answering" /\ Become(e, y) /\ metrics \in MetricsType
  BY DEF Respond, Inv, Gauged
<1>2. y.pc = "done"
  BY EvIs DEF IsEv, Fields
<1>3. PICK f \in FilterNames : metrics' = RecordFilterResult(metrics, f, result)
  BY DEF Respond
<1>4. result \in FilterResults
  BY DEF FilterResult, FilterResults
<1>5. \A g \in FilterNames : Filtered(metrics.filters[g]) = metrics.filters[g].timed
  BY DEF Tallied, Counted
<1> HIDE DEF y, result
<1>6. /\ metrics' \in MetricsType /\ metrics'.evaluators = metrics.evaluators
      /\ metrics'.pipeline = metrics.pipeline
      /\ \A g \in FilterNames : Filtered(metrics'.filters[g]) = metrics'.filters[g].timed
  BY <1>1, <1>3, <1>4, <1>5, FilterTurns
<1>7. QED
  BY <1>1, <1>2, <1>6, PassInv DEF In, Asked, Working

LEMMA TallyOf ==
  ASSUME Inv, NEW e \in Evaluations, ev[e].pc \in Working, NEW t,
         t = Tally(metrics.evaluators[Name(e)])
  PROVE  /\ t \in Tallies /\ Name(e) \in Names /\ metrics \in MetricsType
         /\ t.decided \in Nat /\ t.missed \in Nat /\ t.calls \in Nat /\ t.executions \in Nat
         /\ t.timed \in Nat /\ t.retries \in Nat /\ t.invalid \in Nat
  BY NameIs, SpentIs DEF Tallies

LEMMA LlmAnswersTallied ==
  ASSUME Inv, Tallied, NEW e \in Evaluations, NEW r \in Results \cup {"none"}, LlmAnswers(e, r)
  PROVE  Tallied'
<1> DEFINE n == Name(e)
           y == [ev[e] EXCEPT !.pc = "answered", !.raw = IF r = "none" THEN "" ELSE r]
           called == RecordLlmCall(metrics, n, r # "none")
           t0 == Tally(metrics.evaluators[n])
           t == [t0 EXCEPT !.calls = @ + 1]
<1>1. ev[e].pc = "asking" /\ Become(e, y)
  BY DEF LlmAnswers
<1>2. y.pc = "answered" /\ y.def = ev[e].def
  BY EvIs DEF IsEv, Fields
<1>3. /\ n \in Names /\ metrics \in MetricsType /\ t0 \in Tallies
      /\ t0.decided \in Nat /\ t0.missed \in Nat /\ t0.calls \in Nat /\ t0.retries \in Nat
      /\ t0.executions \in Nat /\ t0.timed \in Nat /\ t0.invalid \in Nat
  BY <1>1, TallyOf DEF Working
<1>4. metrics' = called \/ metrics' = RecordLlmEmpty(called, n)
  BY DEF LlmAnswers
<1> HIDE DEF y, n, t0
<1>5. Turns(metrics, n, called, t)
  BY <1>3, RecordTurns DEF t0
<1> HIDE DEF called
<1>6. Turns(metrics, n, metrics', t)
  <2>1. called \in MetricsType /\ t = Tally(called.evaluators[n])
    BY <1>5 DEF Turns
  <2> HIDE DEF t
  <2>2. Turns(called, n, RecordLlmEmpty(called, n), t)
    BY <1>3, <2>1, RecordTurns
  <2>3. QED
    BY <1>3, <1>4, <1>5, <2>2, TurnsOn
<1>7. /\ t.decided = t0.decided /\ t.missed = t0.missed /\ t.calls = t0.calls + 1
      /\ t.executions = t0.executions /\ t.timed = t0.timed
      /\ t.retries = t0.retries /\ t.invalid = t0.invalid
  BY <1>3 DEF Tallies
<1>8. /\ In(ev[e].pc, Asked) = 0 /\ In(y.pc, Asked) = 1 /\ In(y.pc, Working) = 1
      /\ In(ev[e].pc, {"retrying"}) = 0 /\ In(y.pc, {"retrying"}) = 0 /\ ev[e].pc \in Working
  BY <1>1, <1>2 DEF In, Asked, Working
<1> HIDE DEF t
<1>9. /\ t.decided + t.missed + In(y.pc, Working) = t0.decided + t0.missed + 1
      /\ t.calls + t0.decided + t0.missed + In(ev[e].pc, Asked)
           = t0.calls + t.decided + t.missed + In(y.pc, Asked)
      /\ t.executions - t0.executions = t.decided - t0.decided
      /\ t.timed - t0.timed = t.decided - t0.decided
      /\ t.retries + t0.invalid + In(y.pc, {"retrying"})
           = t0.retries + t.invalid + In(ev[e].pc, {"retrying"})
  BY <1>3, <1>7, <1>8
<1>10. QED
  BY <1>1, <1>2, <1>6, <1>8, <1>9, TurnInv DEF t0, n

(* A step on the way to a result: it adds invalid results and retries.     *)
LEMMA ResultTallied ==
  ASSUME Inv, Tallied, NEW e \in Evaluations, ev[e].pc \in {"answered", "retrying"},
         NEW y, y.def = ev[e].def, y.pc \in {"retrying", "decided"}, Become(e, y),
         NEW t0, t0 = Tally(metrics.evaluators[Name(e)]),
         NEW t, Turns(metrics, Name(e), metrics', t),
         t.decided = t0.decided, t.missed = t0.missed, t.calls = t0.calls,
         t.executions = t0.executions, t.timed = t0.timed,
         t.retries + t0.invalid + In(y.pc, {"retrying"})
           = t0.retries + t.invalid + In(ev[e].pc, {"retrying"})
  PROVE  Tallied'
<1>1. ev[e].pc \in Working
  BY DEF Working
<1>2. /\ t0.decided \in Nat /\ t0.missed \in Nat /\ t0.calls \in Nat
      /\ t0.executions \in Nat /\ t0.timed \in Nat
  BY <1>1, TallyOf
<1>3. /\ In(ev[e].pc, Asked) = 1 /\ In(y.pc, Asked) = 1 /\ In(y.pc, Working) = 1
  BY DEF In, Asked, Working
<1>4. /\ t.decided + t.missed + In(y.pc, Working) = t0.decided + t0.missed + 1
      /\ t.calls + t0.decided + t0.missed + In(ev[e].pc, Asked)
           = t0.calls + t.decided + t.missed + In(y.pc, Asked)
      /\ t.executions - t0.executions = t.decided - t0.decided
      /\ t.timed - t0.timed = t.decided - t0.decided
  BY <1>2, <1>3
<1>5. QED
  BY <1>1, <1>4, TurnInv

LEMMA ValidateTallied ==
  ASSUME Inv, Tallied, NEW e \in Evaluations, Validate(e)
  PROVE  Tallied'
<1> DEFINE x == ev[e]
           n == Name(e)
           schema == schemas[n]
           ok == Passes(schema, x.raw)
           taken == [x EXCEPT !.pc = "decided", !.result = x.raw]
           again == [x EXCEPT !.pc = "retrying", !.asked = 2, !.schema = schema]
           counted == RecordValidation(metrics, n, ok)
           t0 == Tally(metrics.evaluators[n])
<1>1. x.pc = "answered"
  BY DEF Validate
<1>2. taken.pc = "decided" /\ taken.def = x.def /\ again.pc = "retrying" /\ again.def = x.def
  BY EvIs DEF IsEv, Fields
<1>3. n \in Names /\ metrics \in MetricsType /\ t0 \in Tallies
  BY <1>1, TallyOf DEF Working
<1>4. ok \in BOOLEAN
  <2>1. ok = TRUE \/ ok = FALSE
    BY DEF Passes, Valid
  <2>2. QED
    BY <2>1
<1>5. /\ schema = None => Become(e, taken) /\ UNCHANGED metrics
      /\ schema # None /\ ok => Become(e, taken) /\ metrics' = counted
      /\ schema # None /\ ~ok /\ x.def.schema # None => Become(e, again) /\ metrics' = counted
      /\ schema # None /\ ~ok /\ x.def.schema = None =>
           Become(e, taken) /\ metrics' = RecordRetry(counted, n, FALSE)
  BY DEF Validate
<1>6. /\ In(x.pc, {"retrying"}) = 0 /\ In(taken.pc, {"retrying"}) = 0
      /\ In(again.pc, {"retrying"}) = 1
  BY <1>1, <1>2 DEF In
<1> HIDE DEF taken, again, schema
<1>7. /\ t0.decided \in Nat /\ t0.missed \in Nat /\ t0.calls \in Nat /\ t0.retries \in Nat
      /\ t0.executions \in Nat /\ t0.timed \in Nat /\ t0.invalid \in Nat
  BY <1>1, TallyOf DEF Working
<1> HIDE DEF ok
<1>8. Turns(metrics, n, counted, IF ok THEN t0 ELSE [t0 EXCEPT !.invalid = @ + 1])
  BY <1>3, <1>4, RecordTurns
<1> HIDE DEF counted, n
<1>9. ASSUME NEW t, Turns(metrics, n, metrics', t),
             t.decided = t0.decided, t.missed = t0.missed, t.calls = t0.calls,
             t.executions = t0.executions, t.timed = t0.timed,
             NEW y \in {taken, again}, Become(e, y),
             t.retries + t0.invalid + In(y.pc, {"retrying"})
               = t0.retries + t.invalid + In(x.pc, {"retrying"})
      PROVE  Tallied'
  <2>1. y.def = x.def /\ y.pc \in {"retrying", "decided"}
    BY <1>2, <1>9
  <2> HIDE DEF t0
  <2>2. QED
    BY <1>1, <1>9, <2>1, ResultTallied DEF t0, n
<1>10. CASE schema = None \/ ok
  <2>1. Become(e, taken) /\ Turns(metrics, n, metrics', t0)
    <3>1. CASE schema = None
      BY <1>3, <1>5, <3>1 DEF Turns
    <3>2. CASE schema # None
      BY <1>5, <1>8, <1>10, <3>2
    <3>3. QED
      BY <3>1, <3>2
  <2>2. t0.retries + t0.invalid + In(taken.pc, {"retrying"})
          = t0.retries + t0.invalid + In(x.pc, {"retrying"})
    BY <1>6
  <2> HIDE DEF t0
  <2>3. QED
    BY <1>9, <2>1, <2>2
<1>11. CASE schema # None /\ ~ok /\ x.def.schema # None
  <2> DEFINE t == [t0 EXCEPT !.invalid = @ + 1]
  <2>1. Become(e, again) /\ Turns(metrics, n, metrics', t)
    BY <1>5, <1>8, <1>11
  <2>2. /\ t.decided = t0.decided /\ t.missed = t0.missed /\ t.calls = t0.calls
        /\ t.executions = t0.executions /\ t.timed = t0.timed
        /\ t.retries = t0.retries /\ t.invalid = t0.invalid + 1
    BY <1>3 DEF Tallies
  <2> HIDE DEF t, t0
  <2>3. t.retries + t0.invalid + In(again.pc, {"retrying"})
          = t0.retries + t.invalid + In(x.pc, {"retrying"})
    BY <1>6, <1>7, <2>2
  <2>4. QED
    BY <1>9, <2>1, <2>2, <2>3
<1>12. CASE schema # None /\ ~ok /\ x.def.schema = None
  <2> DEFINE t1 == [t0 EXCEPT !.invalid = @ + 1]
             t == [t1 EXCEPT !.retries = @ + 1]
  <2>1. Turns(metrics, n, counted, t1)
    BY <1>8, <1>12
  <2>2. counted \in MetricsType /\ Tally(counted.evaluators[n]) = t1
    BY <2>1 DEF Turns
  <2>3. /\ t1.decided = t0.decided /\ t1.missed = t0.missed /\ t1.calls = t0.calls
        /\ t1.executions = t0.executions /\ t1.timed = t0.timed
        /\ t1.retries = t0.retries /\ t1.invalid = t0.invalid + 1
    BY <1>3 DEF Tallies
  <2>4. t1 \in Tallies
    BY <1>3 DEF Tallies
  <2> HIDE DEF t1
  <2>5. Turns(counted, n, RecordRetry(counted, n, FALSE), t)
    BY <1>3, <2>2, RecordTurns
  <2>6. Become(e, taken) /\ Turns(metrics, n, metrics', t)
    <3> HIDE DEF t
    <3>1. QED
      BY <1>3, <1>5, <1>12, <2>1, <2>5, TurnsOn
  <2>7. /\ t.decided = t0.decided /\ t.missed = t0.missed /\ t.calls = t0.calls
        /\ t.executions = t0.executions /\ t.timed = t0.timed
        /\ t.retries = t0.retries + 1 /\ t.invalid = t0.invalid + 1
    BY <2>3, <2>4 DEF Tallies
  <2> HIDE DEF t, t0
  <2>8. t.retries + t0.invalid + In(taken.pc, {"retrying"})
          = t0.retries + t.invalid + In(x.pc, {"retrying"})
    BY <1>6, <1>7, <2>7
  <2>9. QED
    BY <1>9, <2>6, <2>7, <2>8
<1>13. QED
  BY <1>4, <1>10, <1>11, <1>12

LEMMA RetryAnswersTallied ==
  ASSUME Inv, Tallied, NEW e \in Evaluations, NEW r \in Results \cup {"none"}, RetryAnswers(e, r)
  PROVE  Tallied'
<1> DEFINE x == ev[e]
           n == Name(e)
           ok == r # "none" /\ Valid(x.schema, r)
           y == [x EXCEPT !.pc = "decided", !.result = AfterRetry(x, r)]
           t0 == Tally(metrics.evaluators[n])
           t == [t0 EXCEPT !.retries = @ + 1]
<1>1. x.pc = "retrying" /\ Become(e, y) /\ metrics' = RecordRetry(metrics, n, ok)
  BY DEF RetryAnswers
<1>2. y.pc = "decided" /\ y.def = x.def
  BY EvIs DEF IsEv, Fields
<1>3. n \in Names /\ metrics \in MetricsType /\ t0 \in Tallies
  BY <1>1, TallyOf DEF Working
<1>4. ok \in BOOLEAN
  OBVIOUS
<1> HIDE DEF y, ok
<1>5. Turns(metrics, n, metrics', t)
  BY <1>1, <1>3, <1>4, RecordTurns
<1>6. /\ t0.decided \in Nat /\ t0.missed \in Nat /\ t0.calls \in Nat /\ t0.retries \in Nat
      /\ t0.executions \in Nat /\ t0.timed \in Nat /\ t0.invalid \in Nat
  BY <1>1, TallyOf DEF Working
<1>7. /\ t.decided = t0.decided /\ t.missed = t0.missed /\ t.calls = t0.calls
      /\ t.executions = t0.executions /\ t.timed = t0.timed
      /\ t.retries = t0.retries + 1 /\ t.invalid = t0.invalid
  BY <1>3 DEF Tallies
<1> HIDE DEF t, t0, n
<1>8. In(y.pc, {"retrying"}) = 0 /\ In(x.pc, {"retrying"}) = 1
  BY <1>1, <1>2 DEF In
<1>9. t.retries + t0.invalid + In(y.pc, {"retrying"})
        = t0.retries + t.invalid + In(x.pc, {"retrying"})
  BY <1>6, <1>7, <1>8
<1>10. QED
  BY <1>1, <1>2, <1>5, <1>7, <1>9, ResultTallied DEF t0, n

(* The end of an evaluation: with a decision, or without a module.         *)
LEMMA EndTallied ==
  ASSUME Inv, Tallied, NEW e \in Evaluations, ev[e].pc = "decided",
         NEW y, y.def = ev[e].def, y.pc = "answering", Become(e, y),
         NEW t0, t0 = Tally(metrics.evaluators[Name(e)]),
         NEW t, Turns(metrics, Name(e), metrics', t), NEW d \in 0..1,
         t.decided = t0.decided + d, t.missed = t0.missed + (1 - d), t.calls = t0.calls,
         t.executions = t0.executions + d, t.timed = t0.timed + d,
         t.retries = t0.retries, t.invalid = t0.invalid
  PROVE  Tallied'
<1>1. ev[e].pc \in Working
  BY DEF Working
<1>2. /\ t0.decided \in Nat /\ t0.missed \in Nat /\ t0.calls \in Nat /\ t0.retries \in Nat
      /\ t0.executions \in Nat /\ t0.timed \in Nat /\ t0.invalid \in Nat
  BY <1>1, TallyOf
<1>3. /\ In(ev[e].pc, Asked) = 1 /\ In(y.pc, Asked) = 0 /\ In(y.pc, Working) = 0
      /\ In(ev[e].pc, {"retrying"}) = 0 /\ In(y.pc, {"retrying"}) = 0
  BY DEF In, Asked, Working
<1>4. t.decided + t.missed = t0.decided + t0.missed + 1
  BY <1>2
<1>5. t.decided + t.missed + In(y.pc, Working) = t0.decided + t0.missed + 1
  BY <1>2, <1>3, <1>4
<1>6. t.calls + t0.decided + t0.missed + In(ev[e].pc, Asked)
        = t0.calls + t.decided + t.missed + In(y.pc, Asked)
  <2>1. t.calls + t.decided + t.missed = t0.calls + t0.decided + t0.missed + 1
    BY <1>2
  <2>2. t.calls + t.decided + t.missed \in Nat /\ t.calls + t0.decided + t0.missed \in Nat
    BY <1>2
  <2>3. QED
    BY <1>2, <1>3, <2>1, <2>2
<1>7. /\ t.executions - t0.executions = t.decided - t0.decided
      /\ t.timed - t0.timed = t.decided - t0.decided
  BY <1>2
<1>8. t.retries + t0.invalid + In(y.pc, {"retrying"})
        = t0.retries + t.invalid + In(ev[e].pc, {"retrying"})
  BY <1>2, <1>3
<1>9. QED
  BY <1>1, <1>5, <1>6, <1>7, <1>8, TurnInv

LEMMA MissingModuleTallied ==
  ASSUME Inv, Tallied, NEW e \in Evaluations, MissingModule(e)
  PROVE  Tallied'
<1> DEFINE n == Name(e)
           y == [ev[e] EXCEPT !.pc = "answering", !.found = FALSE,
                   !.answer = IF ev[e].def.on_error = "block" THEN "-32603" ELSE "continue"]
           t0 == Tally(metrics.evaluators[n])
           t == [t0 EXCEPT !.missed = @ + 1]
<1>1. ev[e].pc = "decided" /\ Become(e, y) /\ metrics' = RecordNotFound(metrics, n)
  BY DEF MissingModule, NotFound
<1>2. y.pc = "answering" /\ y.def = ev[e].def
  BY EvIs DEF IsEv, Fields
<1>3. /\ n \in Names /\ metrics \in MetricsType /\ t0 \in Tallies
      /\ t0.decided \in Nat /\ t0.missed \in Nat /\ t0.calls \in Nat /\ t0.retries \in Nat
      /\ t0.executions \in Nat /\ t0.timed \in Nat /\ t0.invalid \in Nat
  BY <1>1, TallyOf DEF Working
<1> HIDE DEF y, n
<1>4. Turns(metrics, n, metrics', t)
  BY <1>1, <1>3, RecordTurns
<1> HIDE DEF t0
<1>5. /\ t.decided = t0.decided + 0 /\ t.missed = t0.missed + (1 - 0) /\ t.calls = t0.calls
      /\ t.executions = t0.executions + 0 /\ t.timed = t0.timed + 0
      /\ t.retries = t0.retries /\ t.invalid = t0.invalid
  <2>1. /\ t.decided = t0.decided /\ t.missed = t0.missed + 1 /\ t.calls = t0.calls
        /\ t.executions = t0.executions /\ t.timed = t0.timed
        /\ t.retries = t0.retries /\ t.invalid = t0.invalid
    BY <1>3 DEF Tallies
  <2> HIDE DEF t
  <2>2. QED
    BY <1>3, <2>1
<1> HIDE DEF t
<1>6. QED
  BY <1>1, <1>2, <1>4, <1>5, EndTallied DEF t0, n

LEMMA EvaluateTallied ==
  ASSUME Inv, Tallied, NEW e \in Evaluations, NEW d \in Decisions, NEW trapped \in BOOLEAN,
         Evaluate(e, d, trapped)
  PROVE  Tallied'
<1> DEFINE n == Name(e)
           y == [ev[e] EXCEPT !.pc = "answering", !.trapped = trapped,
                   !.answer = AnswerTo(d, ev[e].method)]
           m1 == RecordExecution(metrics, n)
           m2 == RecordDecision(m1, n, d)
           t0 == Tally(metrics.evaluators[n])
           t1 == [t0 EXCEPT !.executions = @ + 1]
           t2 == [t1 EXCEPT !.decided = @ + 1]
           t == [t2 EXCEPT !.timed = @ + 1]
<1>1. ev[e].pc = "decided" /\ Become(e, y) /\ metrics' = RecordPipeline(m2, n)
  BY DEF Evaluate
<1>2. y.pc = "answering" /\ y.def = ev[e].def
  BY EvIs DEF IsEv, Fields
<1>3. /\ n \in Names /\ metrics \in MetricsType /\ t0 \in Tallies
      /\ t0.decided \in Nat /\ t0.missed \in Nat /\ t0.calls \in Nat /\ t0.retries \in Nat
      /\ t0.executions \in Nat /\ t0.timed \in Nat /\ t0.invalid \in Nat
  BY <1>1, TallyOf DEF Working
<1> HIDE DEF y, n
<1>4. Turns(metrics, n, m1, t1)
  BY <1>3, RecordTurns
<1> HIDE DEF m1
<1>5. m1 \in MetricsType /\ Tally(m1.evaluators[n]) = t1
  BY <1>4 DEF Turns
<1>6. /\ t1.decided = t0.decided /\ t1.missed = t0.missed /\ t1.calls = t0.calls
      /\ t1.executions = t0.executions + 1 /\ t1.timed = t0.timed
      /\ t1.retries = t0.retries /\ t1.invalid = t0.invalid /\ t1 \in Tallies
  <2> HIDE DEF t0
  <2>1. QED
    BY <1>3 DEF Tallies
<1> HIDE DEF t1
<1>7. Turns(m1, n, m2, t2)
  BY <1>3, <1>5, DecisionTurns
<1> HIDE DEF m2
<1>8. m2 \in MetricsType /\ Tally(m2.evaluators[n]) = t2
  BY <1>7 DEF Turns
<1>9. /\ t2.decided = t1.decided + 1 /\ t2.missed = t1.missed /\ t2.calls = t1.calls
      /\ t2.executions = t1.executions /\ t2.timed = t1.timed
      /\ t2.retries = t1.retries /\ t2.invalid = t1.invalid /\ t2 \in Tallies
  BY <1>6 DEF Tallies
<1> HIDE DEF t2
<1>10. Turns(m2, n, metrics', t)
  BY <1>1, <1>3, <1>8, RecordTurns
<1>11. /\ t.decided = t2.decided /\ t.missed = t2.missed /\ t.calls = t2.calls
       /\ t.executions = t2.executions /\ t.timed = t2.timed + 1
       /\ t.retries = t2.retries /\ t.invalid = t2.invalid
  BY <1>9 DEF Tallies
<1> HIDE DEF t, t0
<1>12. Turns(metrics, n, metrics', t)
  BY <1>3, <1>4, <1>7, <1>10, TurnsOn
<1>13. /\ t.decided = t0.decided + 1 /\ t.missed = t0.missed + (1 - 1) /\ t.calls = t0.calls
       /\ t.executions = t0.executions + 1 /\ t.timed = t0.timed + 1
       /\ t.retries = t0.retries /\ t.invalid = t0.invalid
  BY <1>3, <1>6, <1>9, <1>11
<1>14. QED
  BY <1>1, <1>2, <1>12, <1>13, EndTallied DEF t0, n

(* Reloads and bindings count nothing.                                     *)
LEMMA DisturbTallied ==
  ASSUME Inv, Tallied, ev' = Disturb, view' = view,
         metrics'.evaluators = metrics.evaluators, metrics'.filters = metrics.filters,
         metrics'.pipeline = metrics.pipeline
  PROVE  Tallied'
<1>1. ASSUME NEW e \in Evaluations
      PROVE  ev'[e].pc = ev[e].pc /\ ev'[e].def = ev[e].def
  <2> DEFINE x == ev[e]
  <2>1. IsEv(x)
    BY EvIs
  <2>2. ev'[e] = [x EXCEPT !.calm = FALSE]
    BY DEF Disturb
  <2> HIDE DEF x
  <2>3. [x EXCEPT !.calm = FALSE].pc = x.pc /\ [x EXCEPT !.calm = FALSE].def = x.def
    BY <2>1 DEF IsEv, Fields
  <2>4. QED
    BY <2>2, <2>3 DEF x
<1>2. QED
  BY <1>1, SameInv

LEMMA LoadingTallied ==
  ASSUME Inv, Tallied, NEW r \in Reloads, Loading(r)
  PROVE  Tallied'
<1>1. metrics \in MetricsType
  BY DEF Inv, Gauged
<1>2. CASE InstallModules(r)
  <2>1. /\ metrics' = SetCompiled(metrics, Cardinality(reload[r].ok)) /\ ev' = Disturb
        /\ view' = view
    BY <1>2 DEF InstallModules, LoadStep
  <2>2. QED
    BY <1>1, <2>1, GaugesApart, DisturbTallied
<1>3. CASE InstallSchemas(r)
  <2>1. metrics' = metrics /\ ev' = Disturb /\ view' = view
    BY <1>3 DEF InstallSchemas, LoadStep
  <2>2. QED
    BY <2>1, DisturbTallied
<1>4. CASE InstallDefinitions(r)
  <2>1. /\ metrics' = SetLoaded(metrics, CountOf(reload[r].defs)) /\ ev' = Disturb
        /\ view' = view
    BY <1>4 DEF InstallDefinitions, LoadStep
  <2>2. QED
    BY <1>1, <2>1, GaugesApart, DisturbTallied
<1>5. QED
  BY <1>2, <1>3, <1>4 DEF Loading

LEMMA BindNamespaceTallied ==
  ASSUME Inv, Tallied, NEW ns, NEW c, BindNamespace(ns, c)
  PROVE  Tallied'
<1>1. metrics \in MetricsType /\ metrics' = SetBindings(metrics, Bindings(bindings'))
      /\ ev' = ev /\ view' = view
  BY DEF BindNamespace, Inv, Gauged
<1>2. QED
  BY <1>1, GaugesApart, SameInv

(* Snapshots.                                                              *)
AfterFilters    == <<"evaluators", "pipeline_and_gauges">>
AfterEvaluators == <<"pipeline_and_gauges">>

LEMMA PartsAre ==
  /\ SnapshotSteps # <<>> /\ Head(SnapshotSteps) = "filters" /\ Tail(SnapshotSteps) = AfterFilters
  /\ AfterFilters # <<>> /\ Head(AfterFilters) = "evaluators"
  /\ Tail(AfterFilters) = AfterEvaluators
  /\ AfterEvaluators # <<>> /\ Head(AfterEvaluators) = "pipeline_and_gauges"
  /\ Tail(AfterEvaluators) = <<>>
<1>1. SnapshotSteps # <<>> /\ AfterFilters # <<>> /\ AfterEvaluators # <<>>
  BY DEF SnapshotSteps, AfterFilters, AfterEvaluators
<1>2. /\ Head(SnapshotSteps) = "filters" /\ Head(AfterFilters) = "evaluators"
      /\ Head(AfterEvaluators) = "pipeline_and_gauges"
  BY DEF SnapshotSteps, AfterFilters, AfterEvaluators
<1>3. Tail(SnapshotSteps) = AfterFilters
  BY DEF SnapshotSteps, AfterFilters
<1>4. Tail(AfterFilters) = AfterEvaluators
  BY DEF AfterFilters, AfterEvaluators
<1>5. Tail(AfterEvaluators) = <<>>
  BY DEF AfterEvaluators
<1>6. QED
  BY <1>1, <1>2, <1>3, <1>4, <1>5

LEMMA NothingSpent ==
  /\ \A n \in Names : Spent(NoMetrics.evaluators[n]) = 0
  /\ \A n \in Names : Balanced(Tally(NoMetrics.evaluators[n]), 0, 0)
<1> DEFINE c == NoEvaluatorCounts
<1>1. c.decisions \in [Decisions -> Nat] /\ \A d \in Decisions : c.decisions[d] = 0
  BY DEF NoEvaluatorCounts
<1>2. Decided(c) = 0
  BY <1>1, DecisionsFinite, SumOfZeros DEF Decided
<1>3. /\ c.not_found = 0 /\ c.llm_success = 0 /\ c.llm_failure = 0 /\ c.executions = 0
      /\ c.pipeline_timed = 0 /\ c.retries_success = 0 /\ c.retries_failure = 0 /\ c.invalid = 0
  BY DEF NoEvaluatorCounts
<1>4. \A n \in Names : NoMetrics.evaluators[n] = c
  BY DEF NoMetrics
<1> HIDE DEF c
<1>5. Spent(c) = 0
  BY <1>2, <1>3 DEF Spent
<1>6. Balanced(Tally(c), 0, 0)
  BY <1>2, <1>3 DEF Tally, Calls, Retries, Balanced
<1>7. QED
  BY <1>4, <1>5, <1>6

(* While a snapshot is taken, the store goes on and only grows.            *)
LEMMA ViewTallied ==
  ASSUME Tallied, UNCHANGED <<ev, metrics>>, Copied'
  PROVE  Tallied'
<1>1. Open' = Open /\ \A n : Called(n)' = Called(n) /\ Again(n)' = Again(n)
  BY DEF Open, Called, Again
<1>2. Accounted(metrics') = Accounted(metrics)
  OBVIOUS
<1>3. Counted'
  BY <1>1, <1>2 DEF Tallied, Counted
<1>4. QED
  BY <1>3 DEF Tallied

LEMMA TakeSnapshotTallied ==
  ASSUME Inv, Tallied, TakeSnapshot
  PROVE  Tallied'
<1>1. /\ view' = [left |-> SnapshotSteps, todo |-> Names, copy |-> NoMetrics, taken |-> view.taken + 1]
      /\ UNCHANGED <<ev, metrics>> /\ metrics \in MetricsType /\ view.taken \in Nat
  BY DEF TakeSnapshot, Inv, Gauged, Tallied, Copied
<1>2. Behind(NoMetrics, metrics)
  <2>1. \A n \in Names : Spent(metrics.evaluators[n]) \in Nat
    BY <1>1, SpentIs
  <2>2. \A n \in Names : Spent(NoMetrics.evaluators[n]) <= Spent(metrics.evaluators[n])
    BY <2>1, NothingSpent
  <2>3. QED
    BY <2>2 DEF Behind
<1>3. Copied'
  <2>1. /\ view'.left = SnapshotSteps /\ view'.copy = NoMetrics /\ view'.taken = view.taken + 1
        /\ metrics' = metrics
    BY <1>1
  <2>2. SnapshotAddsUp'
    BY <2>1, PartsAre DEF SnapshotAddsUp
  <2>3. Behind(view.copy, metrics)'
    BY <1>2, <2>1 DEF Behind
  <2>4. QED
    BY <1>1, <2>1, <2>2, <2>3 DEF Copied
<1>4. QED
  BY <1>1, <1>3, ViewTallied

LEMMA ReadEvaluatorTallied ==
  ASSUME Inv, Tallied, NEW n \in Names, ReadEvaluator(n)
  PROVE  Tallied'
<1> DEFINE c == metrics.evaluators[n]
           copy == [view.copy EXCEPT !.evaluators[n] = c]
           left == IF view.todo = {n} THEN Tail(view.left) ELSE view.left
<1>1. /\ metrics \in MetricsType /\ view.copy \in MetricsType /\ Viewed
      /\ view.left # <<>> /\ Head(view.left) = "evaluators" /\ UNCHANGED <<ev, metrics>>
  BY DEF Inv, Gauged, Viewed, ReadEvaluator, ReadPart
<1>2. view' = [left |-> left, todo |-> view.todo \ {n}, copy |-> copy, taken |-> view.taken]
  BY <1>1 DEF ReadEvaluator, Viewed
<1>3. view.left = AfterFilters
  BY <1>1, PartsAre DEF Tallied, Copied, AfterFilters, AfterEvaluators
<1>4. left \in {AfterFilters, AfterEvaluators} /\ left # <<>>
  BY <1>3, PartsAre
<1>5. Behind(copy, metrics)
  <2>1. /\ \A k \in Names \ {n} : copy.evaluators[k] = view.copy.evaluators[k]
        /\ copy.evaluators[n] = c
    BY <1>1, CountersOf, RowSet DEF MetricsType
  <2>2. Behind(view.copy, metrics)
    BY <1>1 DEF Tallied, Copied
  <2>3. Spent(c) \in Nat
    BY <1>1, SpentIs
  <2> HIDE DEF copy
  <2>4. ASSUME NEW k \in Names
        PROVE  Spent(copy.evaluators[k]) <= Spent(metrics.evaluators[k])
    <3>1. CASE k = n
      BY <2>1, <2>3, <3>1
    <3>2. CASE k # n
      BY <2>1, <2>2, <3>2 DEF Behind
    <3>3. QED
      BY <3>1, <3>2
  <2>5. QED
    BY <2>4 DEF Behind
<1> HIDE DEF left, copy
<1>6. Copied'
  BY <1>1, <1>2, <1>4, <1>5
     DEF Tallied, Copied, Behind, SnapshotAddsUp, AfterFilters, AfterEvaluators
<1>7. QED
  BY <1>1, <1>6, ViewTallied

(* The pipeline is read last: the store has counted as many matches as     *)
(* there are requests decided, and open ones.                              *)
LEMMA ReadRestTallied ==
  ASSUME Inv, Tallied, ReadRest
  PROVE  Tallied'
<1>1. /\ metrics \in MetricsType /\ view.copy \in MetricsType
      /\ view.left # <<>> /\ UNCHANGED <<ev, metrics>> /\ view.taken \in Nat
      /\ view = [left |-> view.left, todo |-> view.todo, copy |-> view.copy, taken |-> view.taken]
  BY DEF Inv, Gauged, Viewed, ReadRest, ReadPart, Tallied, Copied
<1>2. Behind(view.copy, metrics) /\ view.left \in {SnapshotSteps, AfterFilters, AfterEvaluators}
  BY <1>1 DEF Tallied, Copied, AfterFilters, AfterEvaluators
<1>3. CASE Head(view.left) = "filters"
  <2> DEFINE copy == [view.copy EXCEPT !.filters = metrics.filters]
  <2>1. view.left = SnapshotSteps
    BY <1>2, <1>3, PartsAre
  <2>2. view' = [left |-> Tail(view.left), todo |-> view.todo, copy |-> copy, taken |-> view.taken]
    BY <1>1, <1>3 DEF ReadRest, ReadPart
  <2>3. copy.evaluators = view.copy.evaluators
    BY <1>1 DEF MetricsType
  <2> HIDE DEF copy
  <2>4. view'.left = AfterFilters /\ view'.copy = copy /\ view'.taken = view.taken
    BY <2>1, <2>2, PartsAre
  <2>5. Behind(view.copy, metrics)'
    BY <1>1, <1>2, <2>3, <2>4 DEF Behind
  <2>6. SnapshotAddsUp'
    BY <2>4, PartsAre DEF SnapshotAddsUp
  <2>7. Copied'
    BY <1>1, <2>4, <2>5, <2>6 DEF Copied, AfterFilters
  <2>8. QED
    BY <1>1, <2>7, ViewTallied
<1>4. CASE Head(view.left) = "pipeline_and_gauges"
  <2> DEFINE between == [view.copy EXCEPT !.pipeline = metrics.pipeline]
             copy == [between EXCEPT !.gauges = metrics.gauges]
  <2>1. view.left = AfterEvaluators
    BY <1>2, <1>4, PartsAre
  <2>2. view' = [left |-> Tail(view.left), todo |-> view.todo, copy |-> copy, taken |-> view.taken]
    BY <1>1, <1>4 DEF ReadRest, ReadPart
  <2>3. between.evaluators = view.copy.evaluators /\ between.pipeline = metrics.pipeline
        /\ between \in MetricsType
    BY <1>1 DEF MetricsType
  <2> HIDE DEF between
  <2>4. copy.evaluators = view.copy.evaluators /\ copy.pipeline = metrics.pipeline
    BY <2>3 DEF MetricsType
  <2> HIDE DEF copy
  <2>5. view'.left = <<>> /\ view'.copy = copy /\ view'.taken = view.taken
    BY <2>1, <2>2, PartsAre
  <2>6. Accounted(copy) <= copy.pipeline.matches
    <3> DEFINE f == [n \in Names |-> Spent(view.copy.evaluators[n])]
               g == [n \in Names |-> Spent(metrics.evaluators[n])]
    <3>1. /\ f \in [Names -> Nat] /\ Accounted(view.copy) = SumFunction(f)
          /\ g \in [Names -> Nat] /\ Accounted(metrics) = SumFunction(g)
          /\ Accounted(metrics) \in Nat /\ Accounted(view.copy) \in Nat
      BY <1>1, SpentIs
    <3>2. \A n \in Names : f[n] <= g[n]
      BY <1>2 DEF Behind
    <3>3. SumFunction(f) <= SumFunction(g)
      <4> HIDE DEF f, g
      <4>1. QED
        BY <3>1, <3>2, NamesAssumption, SumMonotone
    <3>4. Cardinality(Open) \in Nat /\ Accounted(metrics) + Cardinality(Open) = metrics.pipeline.matches
      BY FS_CardinalityType DEF Tallied, Counted
    <3>5. Accounted(copy) = Accounted(view.copy)
      BY <2>4 DEF Accounted
    <3> HIDE DEF f, g
    <3>6. QED
      BY <2>4, <3>1, <3>3, <3>4, <3>5
  <2>7. Copied'
    <3>1. Behind(view.copy, metrics)' \/ view'.left = <<>>
      BY <2>5
    <3>2. SnapshotAddsUp'
      <4>1. (Accounted(view.copy) <= view.copy.pipeline.matches)'
        BY <2>5, <2>6 DEF Accounted
      <4>2. QED
        BY <4>1 DEF SnapshotAddsUp
    <3>3. QED
      BY <1>1, <2>5, <3>2 DEF Copied
  <2>8. QED
    BY <1>1, <2>7, ViewTallied
<1>5. QED
  BY <1>3, <1>4 DEF ReadRest, ReadPart

LEMMA InitTallied ==
  ASSUME Init
  PROVE  Tallied
<1> DEFINE between == SetCompiled(NoMetrics, Cardinality(compiled))
<1>1. /\ ev = [e \in Evaluations |-> NoEvaluation] /\ view = NoView
      /\ metrics = SetLoaded(between, Len(evaluators))
  BY DEF Init
<1>2. Inv
  BY InitInv
<1>3. /\ metrics.evaluators = NoMetrics.evaluators /\ metrics.filters = NoMetrics.filters
      /\ metrics.pipeline = NoMetrics.pipeline /\ metrics \in MetricsType
  <2>1. between \in MetricsType
    <3>1. compiled = PathsOf(evaluators) /\ evaluators \in Configs
      BY DEF Init
    <3>2. Cardinality(compiled) \in Nat
      BY <3>1, PathsAre, FS_CardinalityType
    <3>3. QED
      BY <3>2, NoMetricsType, GaugeSet
  <2>2. /\ between.evaluators = NoMetrics.evaluators /\ between.filters = NoMetrics.filters
        /\ between.pipeline = NoMetrics.pipeline
    BY NoMetricsType, GaugesApart
  <2> HIDE DEF between
  <2>3. /\ metrics.evaluators = between.evaluators /\ metrics.filters = between.filters
        /\ metrics.pipeline = between.pipeline
    <3> DEFINE n == Len(evaluators)
    <3>1. metrics = SetLoaded(between, n)
      BY <1>1
    <3> HIDE DEF n
    <3>2. QED
      BY <2>1, <3>1, GaugesApart
  <2>4. metrics \in MetricsType
    BY <1>2 DEF Inv, Gauged
  <2>5. QED
    BY <2>2, <2>3, <2>4
<1>4. Open = {} /\ \A n : Called(n) = {} /\ Again(n) = {}
  <2>1. \A e \in Evaluations : ev[e].pc = "idle"
    BY <1>1, NoEvaluationIs
  <2>2. QED
    BY <2>1 DEF Open, Called, Again, Working, Asked
<1>5. IsFiniteSet({}) /\ Cardinality({}) = 0
  BY FS_EmptySet
<1>6. Accounted(metrics) = 0
  <2> DEFINE f == [n \in Names |-> Spent(metrics.evaluators[n])]
  <2>1. f \in [Names -> Nat] /\ Accounted(metrics) = SumFunction(f)
    BY <1>3, SpentIs
  <2>2. \A n \in Names : f[n] = 0
    BY <1>3, NothingSpent
  <2> HIDE DEF f
  <2>3. QED
    BY <2>1, <2>2, NamesAssumption, SumOfZeros
<1>7. \A f \in FilterNames : Filtered(metrics.filters[f]) = metrics.filters[f].timed
  <2> DEFINE c == NoFilterCounts
  <2>1. c.results \in [FilterResults -> Nat] /\ (\A r \in FilterResults : c.results[r] = 0)
        /\ c.timed = 0
    BY DEF NoFilterCounts
  <2>2. Filtered(c) = 0
    BY <2>1, DecisionsFinite, SumOfZeros DEF Filtered
  <2>3. \A f \in FilterNames : metrics.filters[f] = c
    BY <1>3 DEF NoMetrics
  <2> HIDE DEF c
  <2>4. QED
    BY <2>1, <2>2, <2>3
<1>8. Counted
  <2>1. metrics.pipeline.matches = 0
    BY <1>3 DEF NoMetrics
  <2>2. \A n \in Names : Balanced(Tally(metrics.evaluators[n]), 0, 0)
    BY <1>3, NothingSpent
  <2>3. IsFiniteSet(Open) /\ Accounted(metrics) + Cardinality(Open) = metrics.pipeline.matches
    BY <1>4, <1>5, <1>6, <2>1
  <2>4. ASSUME NEW n \in Names
        PROVE  Balanced(Tally(metrics.evaluators[n]), Cardinality(Called(n)), Cardinality(Again(n)))
    <3>1. Cardinality(Called(n)) = 0 /\ Cardinality(Again(n)) = 0
      BY <1>4, <1>5
    <3>2. QED
      BY <2>2, <3>1
  <2>5. QED
    BY <1>7, <2>3, <2>4 DEF Counted
<1>9. Copied
  <2>1. view.left = <<>> /\ view.taken = 0
    BY <1>1 DEF NoView
  <2>2. QED
    BY <2>1 DEF Copied, SnapshotAddsUp
<1>10. QED
  BY <1>8, <1>9 DEF Tallied

LEMMA NextTallied ==
  ASSUME Inv, Tallied, [Next]_vars
  PROVE  Tallied'
<1>1. ASSUME NEW e \in Evaluations, NEW m \in Methods \cup {None}, NEW ns \in Namespaces,
             Match(e, m, ns)
      PROVE  Tallied'
  BY <1>1, MatchTallied
<1>2. ASSUME NEW e \in Evaluations, Evaluating(e)
      PROVE  Tallied'
  <2>1. CASE \E c \in Conversations \cup {None} : GatherContext(e, c)
    BY <2>1, GatherContextTallied
  <2>2. CASE \E r \in Results \cup {"none"} : LlmAnswers(e, r)
    BY <2>2, LlmAnswersTallied
  <2>3. CASE \E r \in Results \cup {"none"} : RetryAnswers(e, r)
    BY <2>3, RetryAnswersTallied
  <2>4. CASE Validate(e)
    BY <2>4, ValidateTallied
  <2>5. CASE MissingModule(e)
    BY <2>5, MissingModuleTallied
  <2>6. CASE \E d \in Decisions, trapped \in BOOLEAN : Evaluate(e, d, trapped)
    BY <2>6, EvaluateTallied
  <2>7. CASE Respond(e)
    BY <2>7, RespondTallied
  <2>8. QED
    BY <1>2, <2>1, <2>2, <2>3, <2>4, <2>5, <2>6, <2>7 DEF Evaluating
<1>3. ASSUME NEW r \in Reloads, NEW defs \in Configs, NEW ok \in SUBSET Paths,
             UpdateEvaluators(r, defs, ok)
      PROVE  Tallied'
  BY <1>3, SameInv DEF UpdateEvaluators
<1>4. ASSUME NEW r \in Reloads, Loading(r)
      PROVE  Tallied'
  BY <1>4, LoadingTallied
<1>5. ASSUME NEW ns \in Namespaces, NEW c \in Conversations \cup {None}, BindNamespace(ns, c)
      PROVE  Tallied'
  BY <1>5, BindNamespaceTallied
<1>6. CASE TakeSnapshot
  BY <1>6, TakeSnapshotTallied
<1>7. CASE ReadRest
  BY <1>7, ReadRestTallied
<1>8. ASSUME NEW n \in Names, ReadEvaluator(n)
      PROVE  Tallied'
  BY <1>8, ReadEvaluatorTallied
<1>9. CASE UNCHANGED vars
  BY <1>9, SameInv DEF vars
<1>10. QED
  BY <1>1, <1>2, <1>3, <1>4, <1>5, <1>6, <1>7, <1>8, <1>9 DEF Next

LEMMA TalliedAlways == Spec => []Tallied
<1>1. Init => Tallied
  BY InitTallied
<1>2. Inv /\ Tallied /\ [Next]_vars => Tallied'
  BY NextTallied
<1>3. QED
  BY <1>1, <1>2, InvAlways, PTL DEF Spec

(* Once no evaluation runs, the counters of the store add up: what matched *)
(* is decided or without a module, and every call of the LLM, every retry, *)
(* every execution and every request of a filter is accounted for          *)
(* (record_* of metrics.rs, called along handle_body).                     *)
THEOREM MatchesAccounted == Spec => []EveryMatchCounted
<1>1. Inv /\ Tallied => EveryMatchCounted
  <2> SUFFICES ASSUME Inv, Tallied, \A e \in Evaluations : ev[e].pc \in {"idle", "done"}
               PROVE  /\ Accounted(metrics) = metrics.pipeline.matches
                      /\ \A n \in Names :
                           LET c == metrics.evaluators[n]
                           IN /\ c.llm_success + c.llm_failure = Decided(c) + c.not_found
                              /\ c.executions = Decided(c) /\ c.pipeline_timed = Decided(c)
                              /\ c.retries_success + c.retries_failure = c.invalid
                      /\ \A f \in FilterNames : Filtered(metrics.filters[f]) = metrics.filters[f].timed
    BY DEF EveryMatchCounted
  <2>1. Open = {} /\ \A n : Called(n) = {} /\ Again(n) = {}
    BY DEF Open, Called, Again, Working, Asked
  <2>2. IsFiniteSet({}) /\ Cardinality({}) = 0
    BY FS_EmptySet
  <2>3. metrics \in MetricsType
    BY DEF Inv, Gauged
  <2>4. Accounted(metrics) = metrics.pipeline.matches
    <3>1. Accounted(metrics) \in Nat
      BY <2>3, SpentIs
    <3>2. Accounted(metrics) + 0 = metrics.pipeline.matches
      BY <2>1, <2>2 DEF Tallied, Counted
    <3>3. QED
      BY <3>1, <3>2
  <2>5. ASSUME NEW n \in Names, NEW c, c = metrics.evaluators[n]
        PROVE  /\ c.llm_success + c.llm_failure = Decided(c) + c.not_found
               /\ c.executions = Decided(c) /\ c.pipeline_timed = Decided(c)
               /\ c.retries_success + c.retries_failure = c.invalid
    <3>1. Cardinality(Called(n)) = 0 /\ Cardinality(Again(n)) = 0
      BY <2>1, <2>2
    <3>2. Balanced(Tally(c), 0, 0)
      BY <2>5, <3>1 DEF Tallied, Counted
    <3>3. Tally(c).decided \in Nat /\ Tally(c).missed \in Nat /\ Tally(c).retries \in Nat
      BY <2>3, <2>5, SpentIs DEF Tallies
    <3>4. QED
      BY <3>2, <3>3 DEF Balanced, Tally, Calls, Retries
  <2>6. QED
    BY <2>4, <2>5 DEF Tallied, Counted
<1>2. QED
  BY <1>1, InvAlways, TalliedAlways, PTL

(* A snapshot never shows more requests decided or given up than matched:  *)
(* it reads the evaluators before the pipeline (snapshot of metrics.rs).   *)
THEOREM SnapshotsAddUp == Spec => []SnapshotAddsUp
<1>1. Tallied => SnapshotAddsUp
  BY DEF Tallied, Copied
<1>2. QED
  BY <1>1, TalliedAlways, PTL
=============================================================================
