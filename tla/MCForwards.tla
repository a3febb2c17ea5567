----------------------------- MODULE MCForwards -----------------------------
(***************************************************************************)
(* Forwards with one forward in wanaku.yaml and one that is not there, two *)
(* upstream servers that may offer the same tool and the same prompt, a    *)
(* second name that the tool may be given by hand, and two requests at a   *)
(* time.                                                                   *)
(***************************************************************************)
EXTENDS Forwards

CONSTANTS fixed, added, north, south, tool, renamed, prompt

MCNames     == {fixed, added}
MCAddresses == {north, south}
MCConfig    == [f \in MCNames |-> IF f = fixed THEN north ELSE None]

MCItems     == {tool, renamed, prompt}
MCRank      == [i \in MCItems |-> IF i = prompt THEN 3 ELSE 1]
MCCatalogs  == {{}, {tool}, {tool, prompt}}
=============================================================================
