------------------------------ MODULE Deletion ------------------------------
(***************************************************************************)
(* Key custody and the deletion of an account from the tenant zone, beside *)
(* the two offline jobs that hold keys: the shipping run, which puts parts *)
(* under a tenant's prefix, and the read-back, which stages them           *)
(* (crates/pkdump-cli/src/keys.rs, crates/pkdump-erase,                    *)
(* crates/pkdump-ship/src/bin/pkdump-ship.rs; deploy/erase.sh).            *)
(*                                                                         *)
(* The jobs are containers of their own: nothing keeps a deletion and a    *)
(* run apart.  A part is a number; what is in a part, and the sequence     *)
(* numbers that keep a shipped part whole, are module Shipper's.           *)
(***************************************************************************)
EXTENDS Integers, FiniteSets

CONSTANTS
    Tenants,      \* database_ids
    Leavers,      \* bound: those whose deletion may be asked for
    MaxParts,     \* bound: parts put
    MaxFaults     \* bound: runs killed, keys lost, registries put back

ASSUME DeletionAssumption == Leavers \subseteq Tenants /\ MaxParts \in Nat /\ MaxFaults \in Nat

VARIABLES
    registry,   \* registry.sqlite, tenant_key: each id's key state
    master,     \* the master key file is on the box
    zone,       \* tenant/: the objects under each tenant's prefix
    staged,     \* zone_holdings in each tenant's own database
    run,        \* the jobs' progress
    last,       \* what the last read-back to end promises to have staged, its exit being 0
    del,        \* the deletion at work
    asked,      \* tenants a deletion has been asked for
    swept,      \* tenants whose partition a deletion has listed, to drop it
    proven,     \* tenants whose last deletion or verification exited 0
    early,      \* tenants whose key a job held when the tombstone was recorded
    revived,    \* tenants whose tombstone a restored registry has lost
    parts,      \* parts put so far
    faults

deletionVars == <<registry, master, zone, staged, run, last, del, asked, swept, proven, early, revived, parts, faults>>
jobVars      == <<zone, staged, run, last, parts>>
erasureVars  == <<del, asked, swept, proven>>
keyVars      == <<registry, master, early, revived>>

KeyState == {"none", "active", "tombstoned"}
Jobs     == {"ship", "holdings"}
Idle     == [phase |-> "idle"]

-----------------------------------------------------------------------------
(* keys.rs: the key registry and the master key *)

\* A tombstone refuses first, whether or not the master key is there; absence is no permission.
tenant_key(t) ==
    IF registry[t] = "tombstoned" THEN "revoked"
    ELSE IF registry[t] = "none" \/ ~master THEN "refused" ELSE "key"

\* A provisioned tenant's key becomes active; a tombstone is never lifted.
register(t) ==
    /\ registry[t] = "none" /\ registry' = [registry EXCEPT ![t] = "active"]
    /\ UNCHANGED <<master, early, revived, jobVars, erasureVars, faults>>

Holds(j, t) == run[j].phase = "working" /\ run[j].at = {t}

\* The tombstone, whoever records it. The first record is kept.
tombstone(t) ==
    /\ registry' = [registry EXCEPT ![t] = "tombstoned"]
    /\ early' = IF \E j \in Jobs : Holds(j, t) THEN early \cup {t} ELSE early

run_tombstone(t) ==
    /\ registry[t] # "tombstoned" /\ tombstone(t)
    /\ UNCHANGED <<master, revived, jobVars, erasureVars, faults>>

Fault == faults < MaxFaults /\ faults' = faults + 1

LoseMaster ==
    /\ master /\ Fault /\ master' = FALSE
    /\ UNCHANGED <<registry, early, revived, jobVars, erasureVars>>

run_restore ==
    /\ ~master /\ master' = TRUE
    /\ UNCHANGED <<registry, early, revived, jobVars, erasureVars, faults>>

\* Litestream replicates the registry: what is put back may be older than some tombstones.
RestoreRegistry(lost) ==
    /\ Fault /\ \A t \in lost : registry[t] = "tombstoned"
    /\ registry' = [t \in Tenants |-> IF t \in lost THEN "active" ELSE registry[t]]
    /\ revived' = revived \cup lost
    /\ UNCHANGED <<master, early, jobVars, erasureVars>>

-----------------------------------------------------------------------------
(* pkdump-ship: a job takes the tenants one at a time *)

\* A run keeps what the zone held when it began: what the read-back is measured against.
Begin(j) ==
    /\ run[j] = Idle
    /\ run' = [run EXCEPT ![j] = [phase |-> "next", todo |-> Tenants, at |-> {}, read |-> {}, skipped |-> {},
                                  due |-> IF j = "holdings" THEN zone ELSE <<>>]]
    /\ UNCHANGED <<keyVars, zone, staged, last, parts, erasureVars, faults>>

\* On to the next tenant; the exit of the read-back alone is followed.
Past(j, t, skipped, due) ==
    [phase |-> "next", todo |-> run[j].todo \ {t}, at |-> {}, read |-> {},
     skipped |-> IF j = "holdings" THEN run[j].skipped \cup skipped ELSE run[j].skipped, due |-> due]

\* Nothing is owed to a revoked tenant.
NotOwed(j, t) == IF j = "holdings" THEN [run[j].due EXCEPT ![t] = {}] ELSE run[j].due

\* The key first, before the database is opened.
TakeKey(j, t) ==
    /\ run[j].phase = "next" /\ t \in run[j].todo
    /\ \/ tenant_key(t) = "refused" /\ run' = [run EXCEPT ![j] = Past(j, t, {t}, run[j].due)]
       \/ tenant_key(t) = "revoked" /\ run' = [run EXCEPT ![j] = Past(j, t, {}, NotOwed(j, t))]
       \/ tenant_key(t) = "key" /\ run' = [run EXCEPT ![j] = [phase |-> "working", todo |-> run[j].todo, at |-> {t},
                                            read |-> {}, skipped |-> run[j].skipped, due |-> run[j].due]]
    /\ UNCHANGED <<keyVars, zone, staged, last, parts, erasureVars, faults>>

\* The database is absent or locked, an object has gone since it was listed.
Unreadable(j, t) ==
    /\ Holds(j, t) /\ run' = [run EXCEPT ![j] = Past(j, t, {t}, run[j].due)]
    /\ UNCHANGED <<keyVars, zone, staged, last, parts, erasureVars, faults>>

ship_one(t) ==
    /\ Holds("ship", t)
    /\ \/ /\ parts < MaxParts /\ parts' = parts + 1 /\ zone' = [zone EXCEPT ![t] = @ \cup {parts'}]
          /\ UNCHANGED run
       \/ run' = [run EXCEPT !["ship"] = Past("ship", t, {}, run["ship"].due)] /\ UNCHANGED <<parts, zone>>
    /\ UNCHANGED <<keyVars, staged, last, erasureVars, faults>>

read(t) ==
    /\ Holds("holdings", t) /\ run["holdings"].read = {}
    /\ run' = [run EXCEPT !["holdings"].read = {zone[t]}]
    /\ UNCHANGED <<keyVars, zone, staged, last, parts, erasureVars, faults>>

materialize_one(t) ==
    /\ Holds("holdings", t) /\ run["holdings"].read # {}
    /\ staged' = [staged EXCEPT ![t] = UNION run["holdings"].read]
    /\ run' = [run EXCEPT !["holdings"] = Past("holdings", t, {}, run["holdings"].due)]
    /\ UNCHANGED <<keyVars, zone, last, parts, erasureVars, faults>>

\* Mutant: only a run that could read nobody is not a clean one.
OutcomeLenient(skipped) == IF skipped = Tenants THEN "failed" ELSE "clean"

Outcome(skipped) ==
    IF skipped = {} THEN "clean" ELSE IF skipped = Tenants THEN "failed" ELSE "partial"

End(j) ==
    /\ run[j].phase = "next" /\ run[j].todo = {} /\ run' = [run EXCEPT ![j] = Idle]
    /\ last' = IF j # "holdings" THEN last
               ELSE IF Outcome(run[j].skipped) = "clean" THEN run[j].due ELSE [t \in Tenants |-> {}]
    /\ UNCHANGED <<keyVars, zone, staged, parts, erasureVars, faults>>

Kill(j) ==
    /\ run[j] # Idle /\ Fault /\ run' = [run EXCEPT ![j] = Idle]
    /\ UNCHANGED <<keyVars, zone, staged, last, parts, erasureVars>>

-----------------------------------------------------------------------------
(* pkdump-erase: tombstone, drop, prove *)

do_delete(t) ==
    /\ del = Idle /\ asked' = asked \cup {t} /\ proven' = proven \ {t}
    /\ del' = [phase |-> "tombstone", of |-> t, keys |-> {}]
    /\ UNCHANGED <<keyVars, jobVars, swept, faults>>

\* Mutant: a key that is tombstoned already is an error.
TombstoneOnce ==
    /\ del.phase = "tombstone" /\ registry[del.of] # "tombstoned" /\ tombstone(del.of)
    /\ del' = [del EXCEPT !.phase = "list"]
    /\ UNCHANGED <<master, revived, jobVars, asked, swept, proven, faults>>

\* The tombstone is recorded before anything is removed.
Tombstone ==
    /\ del.phase = "tombstone" /\ tombstone(del.of)
    /\ del' = [del EXCEPT !.phase = "list"]
    /\ UNCHANGED <<master, revived, jobVars, asked, swept, proven, faults>>

List ==
    /\ del.phase = "list" /\ del' = [del EXCEPT !.phase = "drop", !.keys = zone[del.of]]
    /\ swept' = swept \cup {del.of}
    /\ UNCHANGED <<keyVars, jobVars, asked, proven, faults>>

\* The prefix is emptied object by object.
Drop ==
    /\ del.phase = "drop"
    /\ IF del.keys = {} THEN del' = [del EXCEPT !.phase = "verify"] /\ UNCHANGED zone
       ELSE \E k \in del.keys : zone' = [zone EXCEPT ![del.of] = @ \ {k}] /\ del' = [del EXCEPT !.keys = @ \ {k}]
    /\ UNCHANGED <<keyVars, staged, run, last, parts, asked, swept, proven, faults>>

\* Mutant: any refusal counts for the revocation of this key.
verifyAnyRefusal(t) == tenant_key(t) # "key" /\ zone[t] = {}

\* The box derives somebody's key, this one's is refused deliberately, the prefix lists nothing.
verify(t) == master /\ tenant_key(t) = "revoked" /\ zone[t] = {}

\* Exit 0, or exit 4. A job that still holds the key can yet put a part.
Judge(t) ==
    /\ proven' = IF verify(t) THEN proven \cup {t} ELSE proven \ {t}
    /\ early' = IF verify(t) /\ \A j \in Jobs : ~Holds(j, t) THEN early \ {t} ELSE early
    /\ revived' = IF verify(t) /\ \A j \in Jobs : ~Holds(j, t) THEN revived \ {t} ELSE revived

Prove ==
    /\ del.phase = "verify" /\ del' = Idle /\ Judge(del.of)
    /\ UNCHANGED <<registry, master, jobVars, asked, swept, faults>>

do_verify(t) ==
    /\ del = Idle /\ Judge(t)
    /\ UNCHANGED <<registry, master, jobVars, del, asked, swept, faults>>

Interrupted ==
    /\ del # Idle /\ Fault /\ del' = Idle
    /\ UNCHANGED <<keyVars, jobVars, asked, swept, proven>>

Deleting == Tombstone \/ List \/ Drop \/ Prove

Init ==
    /\ registry = [t \in Tenants |-> IF t \in Leavers THEN "active" ELSE "none"] /\ master = TRUE
    /\ zone = [t \in Tenants |-> {}] /\ staged = zone
    /\ run = [j \in Jobs |-> Idle] /\ last = zone
    /\ del = Idle
    /\ asked = {} /\ swept = {} /\ proven = {} /\ early = {} /\ revived = {}
    /\ parts = 0 /\ faults = 0

Next ==
    \/ \E t \in Tenants :
         \/ register(t) \/ ship_one(t) \/ read(t) \/ materialize_one(t)
         \/ \E j \in Jobs : TakeKey(j, t) \/ Unreadable(j, t)
    \/ \E t \in Leavers : run_tombstone(t) \/ do_delete(t) \/ do_verify(t)
    \/ \E j \in Jobs : Begin(j) \/ End(j) \/ Kill(j)
    \/ Deleting \/ Interrupted
    \/ LoseMaster \/ run_restore \/ \E lost \in SUBSET Leavers : RestoreRegistry(lost)

Spec == Init /\ [][Next]_deletionVars

\* The operator repeats a deletion until it is proven, and restores a lost master key.
FairSpec ==
    /\ Spec /\ WF_deletionVars(Deleting) /\ WF_deletionVars(run_restore)
    /\ \A t \in Leavers : SF_deletionVars(t \in asked \ proven /\ do_delete(t))

-----------------------------------------------------------------------------
(* Properties *)

Parts    == 1..MaxParts
Progress == [phase : {"next", "working"}, todo : SUBSET Tenants, at : SUBSET Tenants, read : SUBSET SUBSET Parts,
             skipped : SUBSET Tenants, due : [Tenants -> SUBSET Parts] \cup {<<>>}]
Erasure  == [phase : {"tombstone", "list", "drop", "verify"}, of : Leavers, keys : SUBSET Parts]

\* The read-back alone has something due.
DeletionTypeOK ==
    /\ registry \in [Tenants -> KeyState] /\ master \in BOOLEAN
    /\ zone \in [Tenants -> SUBSET Parts] /\ staged \in [Tenants -> SUBSET Parts]
    /\ run \in [Jobs -> Progress \cup {Idle}]
    /\ run["holdings"] # Idle => run["holdings"].due \in [Tenants -> SUBSET Parts]
    /\ last \in [Tenants -> SUBSET Parts] /\ del \in Erasure \cup {Idle}
    /\ asked \cup swept \cup proven \cup early \cup revived \subseteq Leavers
    /\ parts \in 0..MaxParts /\ faults \in 0..MaxFaults

\* "The state is more deleted than intended, never less": from the moment a deletion has
\* listed what it will remove no later run derives the key, and what was proven unreachable
\* stays so, though deletions and jobs are killed and the master key is lost and put back -
\* unless a job held the key when the tombstone fell and no deletion has been proven since
\* it let go, or the registry came back from before the tombstone (proven again, it counts again).
WhatIsTakenStaysGone ==
    \A t \in Leavers \ (early \cup revived) :
        /\ t \in swept => registry[t] = "tombstoned"
        /\ t \in proven => zone[t] = {} /\ tenant_key(t) = "revoked"

\* A read-back that exits 0 has staged everything that was in the zone when it began, for every
\* tenant it did not find revoked: one tenant that cannot be read is never averaged away.
CleanMeansRead ==
    \A t \in Tenants \ asked : last[t] \subseteq staged[t]

\* "dropping an already-empty prefix succeeds ... re-running a deletion is safe and is the
\* normal repair": a deletion that was interrupted, or that a run put a part behind, is
\* proven in the end if it is run again.
DeletionFinishes == \A t \in Leavers : t \in asked ~> t \in proven
=============================================================================
