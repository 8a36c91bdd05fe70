----------------------------- MODULE MCNightly ------------------------------
(* Model checking Nightly on small catalogs. *)
EXTENDS Nightly
=============================================================================
