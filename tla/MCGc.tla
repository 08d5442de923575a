-------------------------------- MODULE MCGc --------------------------------
(* Constants for checking Gc with TLC. *)
EXTENDS Gc, TLC

CONSTANTS p1, p2, p3, a1, a2

TwoInOne == p1 :> a1 @@ p2 :> a1
TwoAndOne == p1 :> a1 @@ p2 :> a1 @@ p3 :> a2

\* The photos of one album are alike.
Symmetry == Permutations({p1, p2})
=============================================================================
