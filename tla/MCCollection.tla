---------------------------- MODULE MCCollection ----------------------------
(* Model checking Collection on small collections. *)
EXTENDS Collection, TLC

Symmetry == Permutations(Copies) \cup Permutations(Decks)
=============================================================================
