--------------------------- MODULE MCReadUrlCache ---------------------------
(* A small instance of ReadUrlCache for TLC. *)
EXTENDS ReadUrlCache, FiniteSets, TLC

CONSTANTS c1, c2, p1

OneProcess == c1 :> p1 @@ c2 :> p1

KeySymmetry == Permutations(Keys)

\* Bound: SETs that wait at once.
FewSets == Cardinality(sets) <= 2
=============================================================================
