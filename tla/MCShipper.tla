------------------------------ MODULE MCShipper ------------------------------
(* Model checking Shipper on small instances: either two rows and two days, without a backfill and  *)
(* with no fault but a kill, or one row and one day with everything that may happen.  The runs' own *)
(* steps are never cut off.                                                                        *)
EXTENDS Shipper, TLC

TwoRows == emitLog = <<>> /\ faults \in {<<>>, <<"kill">>} /\ backup.outbox = {}

OneRow ==
    /\ clock = 1
    /\ \A e \in outbox \cup ZoneEvents : e.key[2] = 1
    /\ \A k \in Keys : k[2] > 1 => holdings[k] = NoRow
    /\ backup.seqHigh > 0 => emitLog = <<>>

Bounded == TwoRows \/ OneRow

MCInit == ShipperInit /\ Bounded

MCSpec ==
    /\ MCInit
    /\ [][ShipperNext /\ Bounded']_shipperVars
    /\ WF_shipperVars(RunBegin /\ UNCHANGED vars)
    /\ WF_shipperVars(PutPart /\ UNCHANGED vars)
    /\ WF_shipperVars(AdvanceCursor /\ UNCHANGED vars)
=============================================================================
