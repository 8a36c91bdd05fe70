----------------------------- MODULE MCOpening ------------------------------
(* Model checking Opening on small instances. *)
EXTENDS Opening

CONSTANTS old, new, next

\* Two releases that differ in their seeds alone, and one with a schema of its own.
MCVersionOf == [b \in Builds |-> IF b = next THEN 2 ELSE 1]
=============================================================================
