------------------------------ MODULE MCOrdering ------------------------------
(***************************************************************************)
(* Ordering on small instances.  Two users are enough for a sign-out and a *)
(* sign-in of someone else between any two steps; users and carts are      *)
(* interchangeable, so the safety runs reduce by their permutations.       *)
(***************************************************************************)
EXTENDS Ordering, TLC

Symmetry == Permutations(Users) \cup Permutations(Carts)

===============================================================================
