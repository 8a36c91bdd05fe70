---------------------------- MODULE NessieBackup ----------------------------
(***************************************************************************)
(* The backup of Nessie's version store: deploy/nessie-backup.sh stops the *)
(* catalog, exports it, starts it again and puts the export in a bucket    *)
(* (crates/pkdump-lakejobs/src/nessie_backup.rs), whose old backups it     *)
(* prunes. A backup is nessie/<id>/export.zip and, written last,           *)
(* nessie/<id>/manifest.json. A script may be started by hand beside the   *)
(* timer's, and any may be ended between two of its commands.              *)
(*                                                                         *)
(* An export is told from others by its id alone: what is in it, and what  *)
(* the manifest's inventory says, are left out.                            *)
(***************************************************************************)
EXTENDS Integers, FiniteSets

CONSTANTS
    Scripts,      \* runs of nessie-backup.sh that may overlap
    Keep,         \* --keep: complete backups kept
    MaxIds,       \* bound: backups begun
    MaxFaults     \* bound: commands that fail, scripts that are killed

ASSUME BackupAssumption == Keep \in Nat \ {0} /\ MaxIds \in Nat /\ MaxFaults \in Nat

VARIABLES
    unit,       \* pkdump-nessie: "up", "starting" under systemd's care, or stopped ("down")
    store,      \* the keys in the bucket, <<id, "export">> or <<id, "manifest">>
    script,     \* each script's progress
    ids,        \* ids given out: the clock, to the second
    stranded,   \* a script ended between its stop of the unit and NESSIE_STOPPED=1, or by SIGKILL
    faults

backupVars == <<unit, store, script, ids, stranded, faults>>

Idle     == [at |-> "idle"]
Moved(s, at) == script' = [script EXCEPT ![s].at = at]
At(s, at)    == script[s].at = at

\* Complete backups, those with a manifest.
backup_ids == {k[1] : k \in {k \in store : k[2] = "manifest"}}

-----------------------------------------------------------------------------
(* nessie-backup.sh: inventory, stop, export, start, put, check *)

Begin(s) ==
    /\ At(s, "idle") /\ ids < MaxIds /\ ids' = ids + 1
    /\ script' = [script EXCEPT ![s] = [at |-> "inventory", id |-> ids', stopped |-> FALSE, listed |-> {}, doomed |-> {}]]
    /\ UNCHANGED <<unit, store, stranded, faults>>

inventory(s) ==
    /\ At(s, "inventory") /\ unit = "up" /\ Moved(s, "stop")
    /\ UNCHANGED <<unit, store, ids, stranded, faults>>

Stop(s) ==
    /\ At(s, "stop") /\ unit' = "down" /\ Moved(s, "stopped")
    /\ UNCHANGED <<store, ids, stranded, faults>>

\* Mutant: the flag is not set until the export is there.
MarkLate(s) ==
    /\ At(s, "stopped") /\ script' = [script EXCEPT ![s].at = "export"]
    /\ UNCHANGED <<unit, store, ids, stranded, faults>>

\* NESSIE_STOPPED=1, a command of its own.
Mark(s) ==
    /\ At(s, "stopped") /\ script' = [script EXCEPT ![s].at = "export", ![s].stopped = TRUE]
    /\ UNCHANGED <<unit, store, ids, stranded, faults>>

\* RocksDB's lock is exclusive: there is no export of a store that is being served.
Export(s) ==
    /\ At(s, "export") /\ unit = "down" /\ Moved(s, "start")
    /\ UNCHANGED <<unit, store, ids, stranded, faults>>

Started == unit' = IF unit = "down" THEN "starting" ELSE unit

Start(s) ==
    /\ At(s, "start") /\ Started
    /\ script' = [script EXCEPT ![s].at = "wait", ![s].stopped = FALSE]
    /\ UNCHANGED <<store, ids, stranded, faults>>

wait_answering(s) ==
    /\ At(s, "wait") /\ unit = "up" /\ Moved(s, "put")
    /\ UNCHANGED <<unit, store, ids, stranded, faults>>

\* put_backup: the export is read back before the manifest blesses it.
PutExport(s) ==
    /\ At(s, "put") /\ store' = store \cup {<<script[s].id, "export">>} /\ Moved(s, "readback")
    /\ UNCHANGED <<unit, ids, stranded, faults>>

ReadBack(s) ==
    /\ At(s, "readback") /\ <<script[s].id, "export">> \in store /\ Moved(s, "manifest")
    /\ UNCHANGED <<unit, store, ids, stranded, faults>>

PutManifest(s) ==
    /\ At(s, "manifest") /\ store' = store \cup {<<script[s].id, "manifest">>} /\ Moved(s, "list")
    /\ UNCHANGED <<unit, ids, stranded, faults>>

\* prune: what is complete is listed once, what there is to delete is listed after it.
ListComplete(s) ==
    /\ At(s, "list") /\ script' = [script EXCEPT ![s].at = "prune", ![s].listed = backup_ids]
    /\ UNCHANGED <<unit, store, ids, stranded, faults>>

\* Mutant: whatever has no manifest is left over from a run that died.
doomedIncomplete(listed) ==
    LET old == {i \in listed : Cardinality({j \in listed : j > i}) >= Keep}
    IN {k \in store : k[1] \in old \/ k[1] \notin listed}

\* All but the newest complete ones, and any incomplete one older than the newest complete one.
doomed(listed) ==
    LET old == {i \in listed : Cardinality({j \in listed : j > i}) >= Keep}
    IN {k \in store : k[1] \in old \/ (k[1] \notin listed /\ \E j \in listed : k[1] < j)}

prune(s) ==
    /\ At(s, "prune") /\ script' = [script EXCEPT ![s].at = "delete", ![s].doomed = doomed(script[s].listed)]
    /\ UNCHANGED <<unit, store, ids, stranded, faults>>

\* In the order of the listing: the oldest first, an export before its manifest.
First(keys, k) ==
    /\ \A l \in keys : k[1] <= l[1]
    /\ k[2] = "export" \/ <<k[1], "export">> \notin keys

\* What has gone already is no error.
Delete(s) ==
    /\ At(s, "delete") /\ UNCHANGED <<unit, ids, stranded, faults>>
    /\ \/ script[s].doomed = {} /\ Moved(s, "check") /\ UNCHANGED store
       \/ \E k \in script[s].doomed :
            /\ First(script[s].doomed, k) /\ store' = store \ {k}
            /\ script' = [script EXCEPT ![s].doomed = @ \ {k}]

verify_backup(i) == {<<i, "export">>, <<i, "manifest">>} \subseteq store

\* check changes nothing but the exit status.
check(s) ==
    /\ At(s, "check") /\ Moved(s, "cleanup")
    /\ UNCHANGED <<unit, store, ids, stranded, faults>>

-----------------------------------------------------------------------------
(* How a script ends. *)

Fault == faults < MaxFaults /\ faults' = faults + 1

\* What can only fail: a catalog that does not answer, or serves while it is to be exported.
Refused(s) ==
    \/ script[s].at \in {"inventory", "wait"} /\ unit # "up"
    \/ At(s, "export") /\ unit # "down"
    \/ At(s, "readback") /\ <<script[s].id, "export">> \notin store

\* set -e, or SIGTERM: the trap runs. It restarts what the flag says was stopped.
Fail(s) ==
    /\ script[s].at \notin {"idle", "cleanup"}
    /\ (Refused(s) /\ UNCHANGED faults) \/ Fault
    /\ Moved(s, "cleanup")
    /\ stranded' = (stranded \/ At(s, "stopped"))
    /\ UNCHANGED <<unit, store, ids>>

cleanup(s) ==
    /\ At(s, "cleanup") /\ script' = [script EXCEPT ![s] = Idle]
    /\ IF script[s].stopped THEN Started ELSE UNCHANGED unit
    /\ UNCHANGED <<store, ids, stranded, faults>>

\* SIGKILL: no trap runs.
Kill(s) ==
    /\ script[s].at # "idle" /\ Fault /\ script' = [script EXCEPT ![s] = Idle]
    /\ stranded' = (stranded \/ At(s, "stopped") \/ script[s].stopped)
    /\ UNCHANGED <<unit, store, ids>>

\* systemd: a unit that was started is restarted until it is up.
Systemd ==
    /\ unit = "starting" /\ unit' = "up"
    /\ UNCHANGED <<store, script, ids, stranded, faults>>

Crash ==
    /\ unit = "up" /\ Fault /\ unit' = "starting"
    /\ UNCHANGED <<store, script, ids, stranded>>

\* What a script does next, if it is not killed.
Step(s) ==
    \/ inventory(s) \/ Stop(s) \/ Mark(s) \/ Export(s) \/ Start(s) \/ wait_answering(s)
    \/ PutExport(s) \/ ReadBack(s) \/ PutManifest(s) \/ ListComplete(s) \/ prune(s) \/ Delete(s) \/ check(s)
    \/ Fail(s) \/ cleanup(s)

Init ==
    /\ unit = "up" /\ store = {} /\ script = [s \in Scripts |-> Idle]
    /\ ids = 0 /\ stranded = FALSE /\ faults = 0

Next ==
    \/ \E s \in Scripts : Begin(s) \/ Step(s) \/ Kill(s)
    \/ Systemd \/ Crash

Spec == Init /\ [][Next]_backupVars

\* A script that runs goes on, each command of a container's podman run returning in the end.
FairSpec == Spec /\ WF_backupVars(Systemd) /\ \A s \in Scripts : WF_backupVars(Step(s))

-----------------------------------------------------------------------------
(* Properties *)

\* What check judges and the drill and a disaster restore is the newest complete backup: it
\* verifies at any time and never goes back to an older one, while scripts overlap, die between
\* any two puts or deletions and prune what the others wrote.
NewestStands ==
    [][/\ \A i \in backup_ids : \E j \in backup_ids' : i <= j
       /\ \A i \in backup_ids' : (\A j \in backup_ids' : j <= i) => verify_backup(i)']_backupVars

\* Nessie is "restarted ... by a trap that runs however this script ends": it does not stay
\* stopped, though commands fail and scripts overlap - unless a script was killed outright, or
\* ended after its stop of the unit and before the flag that tells the trap.
NessieReturns == unit = "down" ~> unit # "down" \/ stranded
=============================================================================
