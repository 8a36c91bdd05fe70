--------------------------- MODULE MCNessieBackup ---------------------------
(* Model checking NessieBackup on small instances. *)
EXTENDS NessieBackup
=============================================================================
