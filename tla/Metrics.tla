------------------------------ MODULE Metrics ------------------------------
(***************************************************************************)
(* The metrics store (apis/src/metrics.rs): counters per filter and per    *)
(* evaluator, counters of the pipeline, and gauges.  Of a duration, only   *)
(* the count is kept.  A record_* call on a filter or an evaluator holds   *)
(* that entry of the map while it changes it, and a snapshot copies an     *)
(* entry under the same lock: each of them is one step.  The counters of   *)
(* the pipeline and the gauges are single atomic numbers.                  *)
(***************************************************************************)
EXTENDS Naturals, Functions, FiniteSets

CONSTANTS
  FilterNames,  \* filters of a pipeline
  Names         \* names of evaluators

ASSUME NamesAssumption == IsFiniteSet(Names)

FilterResults == {"continue", "reject", "other", "error"}
Decisions     == {"pass", "block", "reject_malformed", "warn", "filter_tools", "set_metadata"}
Skips         == {"no_method", "no_match"}

FilterCounters    == [results : [FilterResults -> Nat], timed : Nat]
EvaluatorCounters == [decisions : [Decisions -> Nat],
                      llm_success : Nat, llm_failure : Nat, llm_empty : Nat, llm_timed : Nat,
                      valid : Nat, invalid : Nat, retries_success : Nat, retries_failure : Nat,
                      executions : Nat, wasm_timed : Nat, not_found : Nat, pipeline_timed : Nat]
PipelineCounters  == [matches : Nat, misses : Nat, skipped : [Skips -> Nat]]
Gauges            == [loaded : Nat, compiled : Nat, bindings : Nat]

MetricsType == [filters : [FilterNames -> FilterCounters],
                evaluators : [Names -> EvaluatorCounters],
                pipeline : PipelineCounters, gauges : Gauges]

NoFilterCounts    == [results |-> [r \in FilterResults |-> 0], timed |-> 0]
NoEvaluatorCounts == [decisions |-> [d \in Decisions |-> 0],
                      llm_success |-> 0, llm_failure |-> 0, llm_empty |-> 0, llm_timed |-> 0,
                      valid |-> 0, invalid |-> 0, retries_success |-> 0, retries_failure |-> 0,
                      executions |-> 0, wasm_timed |-> 0, not_found |-> 0, pipeline_timed |-> 0]
NoMetrics == [filters |-> [f \in FilterNames |-> NoFilterCounts],
              evaluators |-> [n \in Names |-> NoEvaluatorCounts],
              pipeline |-> [matches |-> 0, misses |-> 0, skipped |-> [s \in Skips |-> 0]],
              gauges |-> [loaded |-> 0, compiled |-> 0, bindings |-> 0]]

\* Mutant: an error is counted and not timed.
RecordFilterUntimed(m, f, r) ==
  [m EXCEPT !.filters[f].results[r] = @ + 1,
            !.filters[f].timed = IF r = "reject" THEN @ ELSE @ + 1]

RecordFilterResult(m, f, r) ==
  [m EXCEPT !.filters[f].results[r] = @ + 1, !.filters[f].timed = @ + 1]

RecordDecision(m, n, d)  == [m EXCEPT !.evaluators[n].decisions[d] = @ + 1]
RecordLlmCall(m, n, ok)  ==
  LET timed == [m EXCEPT !.evaluators[n].llm_timed = @ + 1]
  IN IF ok THEN [timed EXCEPT !.evaluators[n].llm_success = @ + 1]
           ELSE [timed EXCEPT !.evaluators[n].llm_failure = @ + 1]
RecordLlmEmpty(m, n)     == [m EXCEPT !.evaluators[n].llm_empty = @ + 1]
RecordValidation(m, n, ok) ==
  IF ok THEN [m EXCEPT !.evaluators[n].valid = @ + 1]
        ELSE [m EXCEPT !.evaluators[n].invalid = @ + 1]
RecordRetry(m, n, ok) ==
  IF ok THEN [m EXCEPT !.evaluators[n].retries_success = @ + 1]
        ELSE [m EXCEPT !.evaluators[n].retries_failure = @ + 1]
RecordExecution(m, n)    == [m EXCEPT !.evaluators[n].executions = @ + 1,
                                      !.evaluators[n].wasm_timed = @ + 1]

\* Mutant: a module that is not found is not counted.
RecordNothing(m, n) == m

RecordNotFound(m, n)     == [m EXCEPT !.evaluators[n].not_found = @ + 1]
RecordPipeline(m, n)     == [m EXCEPT !.evaluators[n].pipeline_timed = @ + 1]
RecordTrigger(m, matched) ==
  IF matched THEN [m EXCEPT !.pipeline.matches = @ + 1] ELSE [m EXCEPT !.pipeline.misses = @ + 1]
RecordSkip(m, s)         == [m EXCEPT !.pipeline.skipped[s] = @ + 1]
SetLoaded(m, n)          == [m EXCEPT !.gauges.loaded = n]
SetCompiled(m, n)        == [m EXCEPT !.gauges.compiled = n]
SetBindings(m, n)        == [m EXCEPT !.gauges.bindings = n]

\* What the counters of one evaluator, or of all, say.
Decided(counts)  == SumFunction(counts.decisions)
Accounted(m)     == SumFunction([n \in Names |-> Decided(m.evaluators[n]) + m.evaluators[n].not_found])
Filtered(counts) == SumFunction(counts.results)
=============================================================================
