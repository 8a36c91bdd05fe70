----------------------------- MODULE MCTenants ------------------------------
(* Model checking Tenants on small data directories. *)
EXTENDS Tenants, TLC

Symmetry == Permutations(Handles) \cup Permutations(Ids)
=============================================================================
