---------------------------- MODULE MCValuation ----------------------------
(* Model checking Valuation on small instances. *)
EXTENDS Valuation, TLC

CONSTANTS alice, bob

TenantSymmetry == Permutations({alice, bob})
=============================================================================
