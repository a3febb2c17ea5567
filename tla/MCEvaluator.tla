---------------------------- MODULE MCEvaluator ----------------------------
(***************************************************************************)
(* Evaluator with two evaluators, whose definitions change their schema,   *)
(* their module and their policy from one configuration to the other; in   *)
(* the first one two definitions with schemas of their own share a name.   *)
(***************************************************************************)
EXTENDS Evaluator, TLC

CONSTANTS gate, curate, old, new, ns1

MCNames == {gate, curate}
MCPaths == {old, new}

MCDef(n, m, ns, o, p, s, e) ==
  [name |-> n, method |-> m, namespace |-> ns, operation |-> o, path |-> p, schema |-> s,
   on_error |-> e]

MCConfigs == {
  <<MCDef(gate, "tools/list", ns1, "filter", old, "lax", "continue"),
    MCDef(gate, "tools/call", None, "classify", old, "strict", "block")>>,
  <<MCDef(curate, "tools/list", ns1, "filter", new, "broken", "continue"),
    MCDef(gate, "tools/call", None, "classify", new, None, "continue")>>}

\* The two reloads differ in nothing but their names.
MCSymmetry == Permutations(Reloads)
=============================================================================
