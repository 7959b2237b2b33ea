---------------------------- MODULE MCCoordinador ----------------------------
(* Instances of Coordinador for TLC. *)
EXTENDS Coordinador

CONSTANTS A, B, a1, a2, b1, k1, k2, e1

OneEach == a1 :> A @@ b1 :> B
TwoOfA == a1 :> A @@ a2 :> A
Three == TwoOfA @@ b1 :> B
Letters == [k \in Key |-> IF k = k1 THEN 0 ELSE 25]
=============================================================================
