----------------------------- MODULE MCInstancia -----------------------------
(* Instances of Instancia for TLC. *)
EXTENDS Instancia

CONSTANTS k1, k2, k3, k4

Symmetry == Permutations(Key)
SmallOrLarge == [k \in Key |-> {1, 3}]
Growing == [k \in Key |-> {1, 3, 5}]
OneNumberOfEntries ==
    [k \in Key |-> CASE k = k4 -> {5} [] k = k3 -> {3, 4} [] k = k2 -> {1, 2} [] OTHER -> {1}]
=============================================================================
