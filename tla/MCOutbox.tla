------------------------------ MODULE MCOutbox ------------------------------
(* Model checking Outbox on small instances. *)
EXTENDS Outbox, TLC

Symmetry == Permutations(Values) \cup Permutations(Emitters)
=============================================================================
