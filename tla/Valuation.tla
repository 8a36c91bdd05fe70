----------------------------- MODULE Valuation -----------------------------
(***************************************************************************)
(* `pkdump-value-snapshots`: every active tenant's collection valued for a *)
(* date, from the two price tables of the lake at one pinned commit and    *)
(* from the holdings the read-back staged in the tenant's database, beside *)
(* the nightly build of the price tables, the shipper and the read-back,   *)
(* and `pkdump data backfill-value-history`.                               *)
(*                                                                         *)
(* What a price or a holding is does not matter here: a table's content is *)
(* its version, a tenant's holdings are how far through the outbox they    *)
(* were read. Lake.tla has what the tables hold, Shipper.tla what the zone *)
(* holds.                                                                  *)
(***************************************************************************)
EXTENDS Integers, FiniteSets

CONSTANTS
    Tenants,      \* the active users of the registry
    Dates,        \* --date
    Runs,         \* runs of the job that may overlap: the timer's, one by hand
    MaxCommits,   \* bound: commits on the lake's branch
    MaxSeq,       \* bound: events shipped per tenant
    MaxFaults     \* bound: locked or absent databases, killed runs, cursors wound back

ASSUME ValuationAssumption == {MaxCommits, MaxSeq, MaxFaults} \subseteq Nat

VARIABLES
    branch,     \* the branch: commits so far
    zone,     \* per tenant, how far through the outbox the zone has got
    db,       \* per tenant, its database
    readBack, \* the read-back: the tenant and how far it has read, or Nothing
    run,      \* each run's progress
    ended,    \* how each run last ended
    faults

valuationVars == <<branch, zone, db, readBack, run, ended, faults>>

None    == -1
Nothing == [tenant |-> None, seq |-> None]
Resting    == [at |-> "idle"]
Fault   == faults < MaxFaults /\ faults' = faults + 1

\* A build replaces catalog.prices, then catalog.sealed_prices: a commit each.
CardsAt(c)  == (c + 1) \div 2
SealedAt(c) == c \div 2
Prices(c)   == [cards |-> CardsAt(c), sealed |-> SealedAt(c)]
NoRows      == [cards |-> 0, sealed |-> 0]
\* What the backfill reconstructs, from shared.prices and not from the lake.
Local       == [cards |-> None, sealed |-> None]

-----------------------------------------------------------------------------
(* What goes on beside a run. *)

build_prices ==
    /\ branch < MaxCommits /\ branch' = branch + 1
    /\ UNCHANGED <<zone, db, readBack, run, ended, faults>>

\* The shipper: a part lands, then the cursor moves.
Put(t) ==
    /\ zone[t] < MaxSeq /\ zone' = [zone EXCEPT ![t] = @ + 1]
    /\ UNCHANGED <<branch, db, readBack, run, ended, faults>>

Advance(t) ==
    /\ db[t].shipped < zone[t] /\ db' = [db EXCEPT ![t].shipped = @ + 1]
    /\ UNCHANGED <<branch, zone, readBack, run, ended, faults>>

\* From then on a run is owed no more than the cursor says.
Owed(t, s) == [r \in Runs |->
    IF run[r].at = "idle" \/ run[r].since[t] <= s THEN run[r] ELSE [run[r] EXCEPT !.since[t] = s]]

\* An operator clears the cursor to have every part shipped again.
WindBack(t) ==
    /\ Fault /\ db[t].shipped > 0
    /\ db' = [db EXCEPT ![t].shipped = 0] /\ run' = Owed(t, 0)
    /\ UNCHANGED <<branch, zone, readBack, ended>>

\* materialize_one: the zone is read, then what was read replaces what was staged.
read(t) ==
    /\ readBack = Nothing /\ readBack' = [tenant |-> t, seq |-> zone[t]]
    /\ UNCHANGED <<branch, zone, db, run, ended, faults>>

materialize ==
    /\ readBack # Nothing /\ readBack' = Nothing
    /\ db' = [db EXCEPT ![readBack.tenant].staged = readBack.seq]
    /\ UNCHANGED <<branch, zone, run, ended, faults>>

\* A date's rows are replaced; the row that says where they came from is left.
backfill_one_date(t, d) ==
    /\ db' = [db EXCEPT ![t].rows[d] = Local]
    /\ UNCHANGED <<branch, zone, readBack, run, ended, faults>>

-----------------------------------------------------------------------------
(* One run. *)

Begin(r, d) ==
    /\ run[r] = Resting
    /\ run' = [run EXCEPT ![r] =
         [at |-> "pin", date |-> d, ref |-> 0, prices |-> NoRows, todo |-> Tenants, tenant |-> None,
          wrote |-> [t \in Tenants |-> None], since |-> [t \in Tenants |-> db[t].shipped]]]
    /\ UNCHANGED <<branch, zone, db, readBack, ended, faults>>

\* The branch is resolved to a commit once.
pin(r) ==
    /\ run[r].at = "pin" /\ run' = [run EXCEPT ![r].at = "cards", ![r].ref = branch]
    /\ UNCHANGED <<branch, zone, db, readBack, ended, faults>>

Ended(r, code) ==
    /\ run' = [run EXCEPT ![r] = Resting]
    /\ ended' = [ended EXCEPT ![r] = [code |-> code, wrote |-> run[r].wrote, since |-> run[r].since]]

\* A price table that is not there, or holds no price, ends the run before it reaches anybody.
read_market_prices(r) ==
    /\ run[r].at = "cards" /\ UNCHANGED <<branch, zone, db, readBack, faults>>
    /\ IF CardsAt(run[r].ref) = 0 THEN Ended(r, 1)
       ELSE /\ run' = [run EXCEPT ![r].at = "sealed", ![r].prices.cards = CardsAt(run[r].ref)]
            /\ UNCHANGED ended

\* Mutant: the second table is read where the branch stands by then.
read_sealed_market_pricesAtHead(r) ==
    /\ run[r].at = "sealed" /\ run' = [run EXCEPT ![r].at = "tenants", ![r].prices.sealed = SealedAt(branch)]
    /\ UNCHANGED <<branch, zone, db, readBack, ended, faults>>

\* Not refused when it holds no price: a build makes both tables before it fills the first.
read_sealed_market_prices(r) ==
    /\ run[r].at = "sealed" /\ run' = [run EXCEPT ![r].at = "tenants", ![r].prices.sealed = SealedAt(run[r].ref)]
    /\ UNCHANGED <<branch, zone, db, readBack, ended, faults>>

\* Mutant: whatever is staged will do.
require_zone_holdingsStaged(t) == db[t].staged # None

\* Nothing staged, or staged before the shipper last put something there.
require_zone_holdings(t) == db[t].staged # None /\ db[t].shipped <= db[t].staged

\* Looked at before the transaction begins. A tenant that is refused, absent or locked is skipped.
Look(r, t) ==
    /\ run[r].at = "tenants" /\ t \in run[r].todo /\ UNCHANGED <<branch, zone, db, readBack, ended>>
    /\ \/ /\ require_zone_holdings(t) /\ UNCHANGED faults
          /\ run' = [run EXCEPT ![r].at = "write", ![r].tenant = t]
       \/ /\ (~require_zone_holdings(t) /\ UNCHANGED faults) \/ Fault
          /\ run' = [run EXCEPT ![r].todo = @ \ {t}]

\* BEGIN IMMEDIATE to COMMIT: the rows and the row that explains them.
write_snapshot(r) ==
    LET t == run[r].tenant  d == run[r].date IN
    /\ run[r].at = "write" /\ UNCHANGED <<branch, zone, readBack, ended>>
    /\ \/ /\ db' = [db EXCEPT ![t].rows[d] = run[r].prices, ![t].ref[d] = run[r].ref]
          /\ run' = [run EXCEPT ![r].at = "tenants", ![r].todo = @ \ {t}, ![r].tenant = None,
                                ![r].wrote[t] = db[t].staged]
          /\ UNCHANGED faults
       \/ /\ Fault /\ UNCHANGED db
          /\ run' = [run EXCEPT ![r].at = "tenants", ![r].todo = @ \ {t}, ![r].tenant = None]

report(r) ==
    LET done == {t \in Tenants : run[r].wrote[t] # None} IN
    /\ run[r].at = "tenants" /\ run[r].todo = {}
    /\ Ended(r, IF done = {} THEN 1 ELSE IF done # Tenants THEN 2 ELSE 0)
    /\ UNCHANGED <<branch, zone, db, readBack, faults>>

Kill(r) ==
    /\ run[r] # Resting /\ Fault /\ run' = [run EXCEPT ![r] = Resting]
    /\ UNCHANGED <<branch, zone, db, readBack, ended>>

ValuationInit ==
    /\ branch = 0 /\ zone = [t \in Tenants |-> 0] /\ readBack = Nothing
    /\ db = [t \in Tenants |-> [shipped |-> 0, staged |-> None, rows |-> [d \in Dates |-> NoRows], ref |-> [d \in Dates |-> 0]]]
    /\ run = [r \in Runs |-> Resting] /\ ended = [r \in Runs |-> [code |-> 1, wrote |-> << >>, since |-> << >>]]
    /\ faults = 0

ValuationNext ==
    \/ build_prices \/ materialize
    \/ \E t \in Tenants :
         \/ Put(t) \/ Advance(t) \/ WindBack(t) \/ read(t)
         \/ \E d \in Dates : backfill_one_date(t, d)
         \/ \E r \in Runs : Look(r, t)
    \/ \E r \in Runs :
         \/ pin(r) \/ read_market_prices(r) \/ read_sealed_market_prices(r) \/ write_snapshot(r) \/ report(r) \/ Kill(r)
         \/ \E d \in Dates : Begin(r, d)

ValuationSpec == ValuationInit /\ [][ValuationNext]_valuationVars

-----------------------------------------------------------------------------
(* Properties *)

\* collection_value_snapshot_run explains the rows it stands beside: rows taken from the lake are
\* both tables' prices at the commit it names, whatever was built while the run read them and
\* whichever runs wrote the date. Rows of the backfill, which says nothing of itself, are let off.
RefExplainsRows ==
    \A t \in Tenants, d \in Dates :
        db[t].rows[d] \notin {NoRows, Local} => db[t].rows[d] = Prices(db[t].ref[d])

\* Status 0 of a run: everybody was valued, each at holdings no older than what had been shipped
\* when the run began (a cursor wound back meanwhile takes that back), though shipping goes on
\* and holdings are staged between its look at a tenant and its write. Status 2: some were.
StatusTells ==
    \A r \in Runs :
        LET e == ended[r] IN
        /\ e.code = 0 => \A t \in Tenants : e.wrote[t] # None /\ e.since[t] <= e.wrote[t]
        /\ e.code = 2 => \E t, u \in Tenants : e.wrote[t] # None /\ e.wrote[u] = None
=============================================================================
