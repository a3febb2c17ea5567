-------------------------- MODULE MCRegistryStore --------------------------
(***************************************************************************)
(* RegistryStore with two tools and the default namespace, two workers,    *)
(* two requests and two restarts.                                         *)
(***************************************************************************)
EXTENDS RegistryStore

CONSTANTS tool1, tool2, default, entry

MCKeys   == {tool1, tool2, default}
MCRank   == [k \in MCKeys |-> IF k = default THEN 5 ELSE 1]
MCValues == {entry}
MCBase   == [k \in MCKeys |-> IF k = default THEN entry ELSE Absent]
=============================================================================
