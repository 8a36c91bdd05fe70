----------------------------- MODULE MCDeletion -----------------------------
(* Model checking Deletion on small instances. *)
EXTENDS Deletion
=============================================================================
