--------------------------- MODULE MCPlanificador ---------------------------
(* Instances of Planificador for TLC. *)
EXTENDS Planificador, TLC

CONSTANTS e1, e2, e3, k1, k2

Symmetry == Permutations(Fd)
NoConfigKeys == <<>>
OneConfigKey == <<k1>>
=============================================================================
