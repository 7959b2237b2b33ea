------------------------- MODULE MCDeadlockDetection -------------------------
(* Instances of DeadlockDetection for TLC. *)
EXTENDS DeadlockDetection, TLC

CONSTANTS k1, k2, k3

Symmetry == Permutations(Key \ ConfigKeys)
=============================================================================
