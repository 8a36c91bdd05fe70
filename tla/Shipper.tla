------------------------------ MODULE Shipper -------------------------------
(***************************************************************************)
(* `pkdump-ship run`: the outbox of one tenant carried into the tenant     *)
(* zone, beside everything Outbox lets the collection do meanwhile.        *)
(*                                                                         *)
(* The shipper's steps are dumpster_kit_ship's, a library outside the      *)
(* repository: they are modelled from schema_user.sql, which declares its  *)
(* cursor and gap tables, from the bindings in pkdump-ship/src and from    *)
(* what pkdump-ship/tests/shipping.rs shows of a run: parts in seq order,  *)
(* of at most max_rows events of one day, addressed by day and seq range;  *)
(* a gap in the ledger before the cursor passes it; the cursor moved after *)
(* the object has landed.                                                  *)
(***************************************************************************)
EXTENDS Outbox

CONSTANTS
    MaxRows,     \* --max-rows: events in one part
    Faults,      \* what may go wrong: "loss" of a row before it ships, "kill" of a
                 \* run half way, "restore" of the file to an earlier point
    MaxFaults    \* bound: how many of them do

ASSUME ShipperAssumption ==
    /\ MaxRows \in Nat \ {0} /\ MaxFaults \in Nat
    /\ Faults \subseteq {"loss", "kill", "restore"}

VARIABLES
    cursor,   \* ownership_outbox_cursor.shipped_thru
    gaps,     \* ownership_outbox_gap: the numbers its ranges cover
    zone,     \* the parts in the tenant zone
    batch,    \* what the run has read and not yet recorded as shipped
    landed,   \* the run's next part is in the zone, and the cursor does not say so
    faults,   \* what went wrong so far
    backup,   \* the file as it stood at the point a restore brings back
    forgotten \* history: numbers whose entry in the ledger a restore took away

shipVars == <<cursor, gaps, zone, batch, landed, faults, backup, forgotten>>

-----------------------------------------------------------------------------
Fails(kind) == kind \in Faults /\ Len(faults) < MaxFaults /\ faults' = Append(faults, kind)
Never(kind) == \A i \in DOMAIN faults : faults[i] # kind

\* What of the tenant's file Litestream replicates: all of it, the shipper's tables too.
File == [holdings |-> holdings, outbox |-> outbox, seqHigh |-> seqHigh,
         emitLog |-> emitLog, cursor |-> cursor, gaps |-> gaps]

Day(e) == e.at       \* as_of: each instant of the model is a day of its own

\* Mutant: the cursor names the first number not shipped.
UnshippedLate == {e \in outbox : e.seq > cursor + 1}

Unshipped == {e \in outbox : e.seq > cursor}
Seqs(E)   == {e.seq : e \in E}
First(E)  == CHOOSE s \in Seqs(E) : \A t \in Seqs(E) : s <= t
Last(E)   == CHOOSE s \in Seqs(E) : \A t \in Seqs(E) : s >= t

\* Mutant: the newest events first.
NextPartNewest(E) ==
    { e \in E :
        LET from == {f \in E : f.seq >= e.seq} IN
        Cardinality(from) <= MaxRows /\ \A f \in from : Day(f) = Day(e) }

\* The events of the next part: the longest run of the batch in seq order
\* that is one day's and no larger than max_rows.
NextPart(E) ==
    { e \in E :
        LET upto == {f \in E : f.seq <= e.seq} IN
        Cardinality(upto) <= MaxRows /\ \A f \in upto : Day(f) = Day(e) }

Part(E) ==
    LET P == NextPart(E) IN
    [day |-> Day(CHOOSE e \in P : TRUE), from |-> First(P), to |-> Last(P), events |-> P]

SameKey(p, q) == p.day = q.day /\ p.from = q.from /\ p.to = q.to

\* Mutant: holes looked for from the first number on.
MissingFromStart(E) == {s \in 1 .. MaxSeq : s \notin Seqs(E) /\ \E t \in Seqs(E) : s < t}

\* The holes after the cursor that some later row shows.
Missing(E) == {s \in (cursor + 1) .. MaxSeq : s \notin Seqs(E) /\ \E t \in Seqs(E) : s < t}

ZoneEvents == UNION {p.events : p \in zone}

\* What a read of the zone stages: every part decoded, reduced by `project`.
materialize == project(ZoneEvents)

-----------------------------------------------------------------------------
(* One run. Its crash points are between these steps. *)

RunBegin ==
    /\ batch = {} /\ Unshipped # {}
    /\ batch' = Unshipped
    /\ gaps' = gaps \cup Missing(Unshipped)
    /\ UNCHANGED <<cursor, zone, landed, faults, backup, forgotten>>

\* put: an object store overwrites the object its key names.
PutPart ==
    /\ batch # {} /\ ~landed
    /\ zone' = {q \in zone : ~SameKey(q, Part(batch))} \cup {Part(batch)}
    /\ landed' = TRUE
    /\ UNCHANGED <<cursor, gaps, batch, faults, backup, forgotten>>

\* Mutant: the cursor moves before the part has landed.
AdvanceCursorFirst ==
    /\ batch # {}
    /\ cursor' = Part(batch).to
    /\ batch' = IF landed THEN batch \ NextPart(batch) ELSE batch
    /\ landed' = FALSE
    /\ UNCHANGED <<gaps, zone, faults, backup, forgotten>>

\* Mutant: the cursor moves to the last event read, past parts still to ship.
AdvanceCursorToRead ==
    /\ landed
    /\ cursor' = Last(batch)
    /\ batch' = {} /\ landed' = FALSE
    /\ UNCHANGED <<gaps, zone, faults, backup, forgotten>>

AdvanceCursor ==
    /\ landed
    /\ cursor' = Part(batch).to
    /\ batch' = batch \ NextPart(batch)
    /\ landed' = FALSE
    /\ UNCHANGED <<gaps, zone, faults, backup, forgotten>>

RunDies ==
    /\ batch # {} /\ Fails("kill")
    /\ batch' = {} /\ landed' = FALSE
    /\ UNCHANGED <<cursor, gaps, zone, backup, forgotten>>

\* An operator clears the cursor to have every part shipped again.
WindBack ==
    /\ cursor' = 0
    /\ UNCHANGED <<gaps, zone, batch, landed, faults, backup, forgotten>>

Ship == RunBegin \/ PutPart \/ AdvanceCursor \/ RunDies \/ WindBack

-----------------------------------------------------------------------------
\* A row disappears from the file before it has shipped.
Lose ==
    /\ Fails("loss")
    /\ \E e \in Unshipped : outbox' = outbox \ {e}
    /\ UNCHANGED <<holdings, seqHigh, emitLog, checked, vacant, clock>>
    /\ UNCHANGED <<cursor, gaps, zone, batch, landed, backup, forgotten>>

\* The point a later restore will pick; none can happen any more once the faults are spent.
BackUp ==
    /\ "restore" \in Faults /\ Len(faults) < MaxFaults
    /\ backup' = File
    /\ UNCHANGED vars
    /\ UNCHANGED <<cursor, gaps, zone, batch, landed, faults, forgotten>>

\* Mutant: the position in the log is kept outside the file.
RestoreKeepsCursor ==
    /\ Fails("restore")
    /\ holdings' = backup.holdings
    /\ outbox' = backup.outbox /\ seqHigh' = backup.seqHigh /\ emitLog' = backup.emitLog
    /\ gaps' = backup.gaps
    /\ forgotten' = forgotten \cup ((gaps \ backup.gaps) \cap 1 .. cursor)
    /\ checked' = {} /\ vacant' = {} /\ batch' = {} /\ landed' = FALSE
    /\ UNCHANGED <<clock, cursor, zone, backup>>

\* The file is restored to the point of the backup: the holdings, the log and the
\* position in it come back together; the zone is not part of the file, and no
\* process that had the file open goes on.
Restore ==
    /\ Fails("restore")
    /\ holdings' = backup.holdings
    /\ outbox' = backup.outbox /\ seqHigh' = backup.seqHigh /\ emitLog' = backup.emitLog
    /\ cursor' = backup.cursor /\ gaps' = backup.gaps
    /\ forgotten' = forgotten \cup ((gaps \ backup.gaps) \cap 1 .. backup.cursor)
    /\ checked' = {} /\ vacant' = {} /\ batch' = {} /\ landed' = FALSE
    /\ UNCHANGED <<clock, zone, backup>>

ShipperInit ==
    /\ Init
    /\ cursor = 0 /\ gaps = {} /\ zone = {}
    /\ batch = {} /\ landed = FALSE
    /\ faults = << >>
    /\ backup = File
    /\ forgotten = {}

ShipperNext ==
    \/ Next /\ UNCHANGED shipVars
    \/ Ship /\ UNCHANGED vars
    \/ Lose
    \/ BackUp
    \/ Restore

shipperVars == <<vars, shipVars>>

ShipperSpec == ShipperInit /\ [][ShipperNext]_shipperVars

\* The timer starts a run again and again, and a run that is not killed goes
\* on to its end; nothing obliges the collection to change.
FairSpec ==
    /\ ShipperSpec
    /\ WF_shipperVars(RunBegin /\ UNCHANGED vars)
    /\ WF_shipperVars(PutPart /\ UNCHANGED vars)
    /\ WF_shipperVars(AdvanceCursor /\ UNCHANGED vars)

-----------------------------------------------------------------------------
(* Properties *)

\* "once the cursor is past, nothing can notice the hole again": every number
\* the cursor has passed is in the zone or in the gap ledger, whatever was lost,
\* wherever runs were killed and whatever point the file went back to; a restore
\* that took a ledger entry away with it is known for the number it forgot.
Accounted == \A s \in 1 .. cursor : s \in Seqs(ZoneEvents) \/ s \in gaps \cup forgotten

\* "a restore of this file brings back the log and the position in it together":
\* what the cursor says is shipped is in the zone as the very event the outbox
\* has, never only as one of a lost future that bore its number; the events of
\* the new history are all still to ship.
PassedIsShipped ==
    \A e \in outbox : e.seq <= cursor => e \in ZoneEvents \/ e.seq \in forgotten

\* A recorded gap is a real loss: no run reports a number that is still there.
GapsAreLosses == \A e \in outbox : e.seq \notin gaps

\* The two together: the ledger has the losses the zone does not hold, and nothing else.
LedgerIsTrue == Accounted /\ GapsAreLosses

\* At-least-once is harmless: whatever was shipped twice, split differently
\* after a crash or overlaps an earlier part, a read of the zone gives the
\* collection as it stood at one point of its outbox, unless a part of that
\* was lost or the outbox itself has gone back.
ZoneIsACut ==
    Never("loss") /\ Never("restore") =>
      materialize = project({e \in outbox : \E s \in Seqs(ZoneEvents) : e.seq <= s})

\* Every change reaches the zone, unless its row is lost before it does or a restore
\* brings it back below a cursor that had passed it as lost.
Delivered ==
    \A s \in 1 .. MaxSeq :
        s <= seqHigh ~> (s \in Seqs(ZoneEvents) \cup forgotten \/ s \notin Seqs(outbox))

\* When a run has shipped everything, nothing was lost and a backfill is in the
\* ledger, the zone is the collection: kills, retried parts and a cursor wound back
\* included, as long as the file is not taken back to an earlier point.
ReconciledInPlace ==
    Never("loss") /\ Never("restore") /\ last_backfill # {} /\ batch = {} /\ cursor = seqHigh =>
        materialize = holdings
=============================================================================
