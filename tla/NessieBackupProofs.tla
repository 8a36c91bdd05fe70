------------------------- MODULE NessieBackupProofs -------------------------
(***************************************************************************)
(* What a bucket of Nessie backups keeps for any number of overlapping     *)
(* scripts, backups and faults: its newest complete backup, whole.         *)
(*                                                                         *)
(* A script prunes by a listing that is stale by the time it deletes. What *)
(* saves the newest is that a key is doomed only under some complete       *)
(* backup that is newer, and that complete backups are taken away only in  *)
(* the same way: so the invariant says of every key that may yet be        *)
(* deleted that a newer complete backup is there now, and of every         *)
(* complete backup that it has its export or a newer complete one.         *)
(***************************************************************************)
EXTENDS NessieBackup, TLAPS, FiniteSetTheorems

Phases   == {"inventory", "stop", "stopped", "export", "start", "wait", "put", "readback", "manifest",
             "list", "prune", "delete", "check", "cleanup"}
Key      == Nat \X {"export", "manifest"}
Progress == [at : Phases, id : Nat, stopped : BOOLEAN, listed : SUBSET Nat, doomed : SUBSET Key]

BackupTypeOK ==
    /\ ids \in Nat /\ store \subseteq Key
    /\ script \in [Scripts -> Progress \cup {Idle}]

\* There is a complete backup newer than i, or as new.
Above(i)  == \E j \in backup_ids : i < j
Reached(i) == \E j \in backup_ids : i <= j

\* A backup's export is there, or a newer backup is complete.
Backed(i) == <<i, "export">> \in store \/ Above(i)

ScriptInv(s) ==
    /\ At(s, "manifest") => Backed(script[s].id)
    /\ At(s, "prune") => \A i \in script[s].listed : Reached(i)
    /\ At(s, "delete") => \A k \in script[s].doomed : Above(k[1])

IInv ==
    /\ BackupTypeOK
    /\ \A i \in backup_ids : Backed(i)
    /\ \A s \in Scripts : ScriptInv(s)

USE BackupAssumption

-----------------------------------------------------------------------------
LEMMA IdsAreNumbers == BackupTypeOK => backup_ids \subseteq Nat
BY DEF BackupTypeOK, backup_ids, Key

LEMMA InitIInv == Init => IInv
<1> SUFFICES ASSUME Init PROVE IInv
  OBVIOUS
<1>1. store = {} /\ ids = 0 /\ script = [s \in Scripts |-> Idle]
  BY DEF Init
<1>2. backup_ids = {}
  BY <1>1 DEF backup_ids
<1>3. \A s \in Scripts : script[s].at = "idle"
  BY <1>1 DEF Idle
<1> QED BY <1>1, <1>2, <1>3 DEF IInv, BackupTypeOK, ScriptInv, At

\* What a step may write in a script's record.
LEMMA Records ==
  ASSUME BackupTypeOK, NEW s \in Scripts, script[s] \in Progress
  PROVE  /\ \A at \in Phases : [script EXCEPT ![s].at = at] \in [Scripts -> Progress \cup {Idle}]
         /\ \A at \in Phases, b \in BOOLEAN :
              [script EXCEPT ![s].at = at, ![s].stopped = b] \in [Scripts -> Progress \cup {Idle}]
         /\ \A at \in Phases, L \in SUBSET Nat :
              [script EXCEPT ![s].at = at, ![s].listed = L] \in [Scripts -> Progress \cup {Idle}]
         /\ \A at \in Phases, D \in SUBSET Key :
              [script EXCEPT ![s].at = at, ![s].doomed = D] \in [Scripts -> Progress \cup {Idle}]
         /\ \A D \in SUBSET Key : [script EXCEPT ![s].doomed = D] \in [Scripts -> Progress \cup {Idle}]
<1> DEFINE r == script[s]
<1>1. /\ \A at \in Phases : [r EXCEPT !.at = at] \in Progress
      /\ \A at \in Phases, b \in BOOLEAN : [r EXCEPT !.at = at, !.stopped = b] \in Progress
      /\ \A at \in Phases, L \in SUBSET Nat : [r EXCEPT !.at = at, !.listed = L] \in Progress
      /\ \A at \in Phases, D \in SUBSET Key : [r EXCEPT !.at = at, !.doomed = D] \in Progress
      /\ \A D \in SUBSET Key : [r EXCEPT !.doomed = D] \in Progress
  BY DEF Progress
<1> QED BY <1>1 DEF BackupTypeOK

LEMMA Working ==
  ASSUME BackupTypeOK, NEW s \in Scripts, script[s].at # "idle"
  PROVE  script[s] \in Progress
BY DEF BackupTypeOK, Idle

LEMMA NextTypes == BackupTypeOK /\ [Next]_backupVars => BackupTypeOK'
<1> SUFFICES ASSUME BackupTypeOK, [Next]_backupVars PROVE BackupTypeOK'
  OBVIOUS
<1>1. ASSUME NEW s \in Scripts, Begin(s) PROVE BackupTypeOK'
  <2> DEFINE r == [at |-> "inventory", id |-> ids', stopped |-> FALSE, listed |-> {}, doomed |-> {}]
  <2>1. ids' \in Nat /\ store' = store /\ script' = [script EXCEPT ![s] = r]
    BY <1>1 DEF Begin, BackupTypeOK
  <2>2. r \in Progress
    BY <2>1 DEF Progress, Phases
  <2> HIDE DEF r
  <2> QED BY <2>1, <2>2 DEF BackupTypeOK
<1>2. ASSUME NEW s \in Scripts, NEW at \in Phases, script[s].at # "idle", Moved(s, at), ids' = ids, store' \subseteq Key
      PROVE  BackupTypeOK'
  BY <1>2, Working, Records DEF Moved, BackupTypeOK
<1>3. ASSUME NEW s \in Scripts, Step(s) PROVE BackupTypeOK'
  <2>0. store \subseteq Key /\ backup_ids \subseteq Nat
    BY IdsAreNumbers DEF BackupTypeOK
  <2>1. CASE inventory(s) \/ Stop(s) \/ Export(s) \/ wait_answering(s) \/ ReadBack(s) \/ check(s) \/ Fail(s)
    BY <1>2, <2>0, <2>1 DEF inventory, Stop, Export, wait_answering, ReadBack, check, Fail, At, Phases
  <2>2. CASE Mark(s) \/ Start(s) \/ ListComplete(s)
    <3>1. script[s] \in Progress /\ UNCHANGED <<ids, store>>
      BY <2>2, Working DEF Mark, Start, ListComplete, At
    <3>2. CASE Mark(s) \/ Start(s)
      <4>1. PICK at \in Phases, b \in BOOLEAN : script' = [script EXCEPT ![s].at = at, ![s].stopped = b]
        BY <3>2 DEF Mark, Start, Phases
      <4>2. script' \in [Scripts -> Progress \cup {Idle}]
        BY <3>1, <4>1, Records
      <4> QED BY <3>1, <4>2 DEF BackupTypeOK
    <3>3. CASE ListComplete(s)
      <4>1. PICK at \in Phases, L \in SUBSET Nat : script' = [script EXCEPT ![s].at = at, ![s].listed = L]
        BY <2>0, <3>3 DEF ListComplete, Phases
      <4>2. script' \in [Scripts -> Progress \cup {Idle}]
        BY <3>1, <4>1, Records
      <4> QED BY <3>1, <4>2 DEF BackupTypeOK
    <3> QED BY <2>2, <3>2, <3>3
  <2>3. CASE PutExport(s) \/ PutManifest(s)
    <3>1. script[s] \in Progress
      BY <2>3, Working DEF PutExport, PutManifest, At
    <3>2. {<<script[s].id, "export">>, <<script[s].id, "manifest">>} \subseteq Key
      BY <3>1 DEF Progress, Key
    <3> QED BY <1>2, <2>0, <2>3, <3>2 DEF PutExport, PutManifest, At, Phases
  <2>4. CASE prune(s)
    <3>1. script[s] \in Progress
      BY <2>4, Working DEF prune, At
    <3>2. doomed(script[s].listed) \in SUBSET Key
      BY <2>0 DEF doomed
    <3>3. PICK at \in Phases, D \in SUBSET Key : script' = [script EXCEPT ![s].at = at, ![s].doomed = D]
      BY <2>4, <3>2 DEF prune, Phases
    <3>4. UNCHANGED <<ids, store>>
      BY <2>4 DEF prune
    <3>5. script' \in [Scripts -> Progress \cup {Idle}]
      BY <3>1, <3>3, Records
    <3> QED BY <3>4, <3>5 DEF BackupTypeOK
  <2>5. CASE Delete(s)
    <3>1. script[s] \in Progress /\ ids' = ids
      BY <2>5, Working DEF Delete, At
    <3>2. CASE Moved(s, "check") /\ UNCHANGED store
      BY <1>2, <2>0, <2>5, <3>1, <3>2 DEF Delete, At, Phases
    <3>3. ASSUME NEW k \in script[s].doomed, store' = store \ {k},
                 script' = [script EXCEPT ![s].doomed = @ \ {k}]
          PROVE  BackupTypeOK'
      <4>1. script[s].doomed \ {k} \in SUBSET Key
        BY <3>1 DEF Progress
      <4>2. script' \in [Scripts -> Progress \cup {Idle}]
        BY <3>1, <3>3, <4>1, Records DEF Progress
      <4> QED BY <2>0, <3>1, <3>3, <4>2 DEF BackupTypeOK
    <3> QED BY <2>5, <3>2, <3>3 DEF Delete
  <2>6. CASE cleanup(s)
    BY <2>6 DEF cleanup, BackupTypeOK
  <2> QED BY <1>3, <2>1, <2>2, <2>3, <2>4, <2>5, <2>6 DEF Step
<1>4. ASSUME NEW s \in Scripts, Kill(s) PROVE BackupTypeOK'
  BY <1>4 DEF Kill, BackupTypeOK
<1>5. CASE Systemd \/ Crash \/ UNCHANGED backupVars
  BY <1>5 DEF Systemd, Crash, backupVars, BackupTypeOK
<1> QED BY <1>1, <1>3, <1>4, <1>5 DEF Next

-----------------------------------------------------------------------------
(* A key is deleted only under a complete backup that is newer. *)

\* What is above a number stays above it when a key under a newer backup goes.
LEMMA AboveStays ==
  ASSUME store \subseteq Key, NEW k \in Key, Above(k[1]), store' = store \ {k}, NEW i \in Nat, Above(i)
  PROVE  Above(i)'
<1>1. PICK j \in backup_ids : i < j
  BY DEF Above
<1>2. <<j, "manifest">> \in store /\ j \in Nat
  BY DEF backup_ids, Key
<1>3. CASE k # <<j, "manifest">>
  BY <1>1, <1>2, <1>3 DEF Above, backup_ids
<1>4. CASE k = <<j, "manifest">>
  <2>1. PICK m \in backup_ids : j < m
    BY <1>4 DEF Above
  <2>2. <<m, "manifest">> \in store /\ m \in Nat /\ <<m, "manifest">> # k
    BY <1>2, <1>4, <2>1 DEF backup_ids, Key
  <2> QED BY <1>1, <1>2, <2>1, <2>2 DEF Above, backup_ids
<1> QED BY <1>3, <1>4

\* What was reached stays reached.
LEMMA ReachedStays ==
  ASSUME store \subseteq Key, NEW k \in Key, Above(k[1]), store' = store \ {k}, NEW i \in Nat, Reached(i)
  PROVE  Reached(i)'
<1>1. PICK j \in backup_ids : i <= j
  BY DEF Reached
<1>2. <<j, "manifest">> \in store /\ j \in Nat
  BY DEF backup_ids, Key
<1>3. CASE k # <<j, "manifest">>
  BY <1>1, <1>2, <1>3 DEF Reached, backup_ids
<1>4. CASE k = <<j, "manifest">>
  <2>1. Above(j)'
    BY <1>2, <1>4, AboveStays
  <2>2. backup_ids' \subseteq Nat
    BY DEF backup_ids, Key
  <2> QED BY <1>1, <1>2, <2>1, <2>2 DEF Above, Reached
<1> QED BY <1>3, <1>4

\* A complete backup that is doomed has a newer complete one: --keep is at least one.
LEMMA DoomedIsOld ==
  ASSUME NEW L \in SUBSET Nat, NEW k \in doomed(L)
  PROVE  \E j \in L : k[1] < j
<1>1. CASE k[1] \notin L
  BY <1>1 DEF doomed
<1>2. CASE k[1] \in L
  <2> DEFINE newer == {j \in L : j > k[1]}
  <2>1. Cardinality(newer) >= Keep
    BY <1>2 DEF doomed
  <2>2. newer # {}
    BY <2>1, FS_EmptySet
  <2> QED BY <2>2
<1> QED BY <1>1, <1>2

\* Every step but a deletion: what there was is there, and s alone has moved.
LEMMA Keeps ==
  ASSUME IInv, BackupTypeOK', NEW s \in Scripts, store \subseteq store',
         \A t \in Scripts \ {s} : script'[t] = script[t],
         \A i \in backup_ids' \ backup_ids : Backed(i), ScriptInv(s)'
  PROVE  IInv'
<1>1. backup_ids \subseteq backup_ids' /\ \A i : Above(i) => Above(i)'
  BY DEF backup_ids, Above
<1>2. \A i : (Reached(i) => Reached(i)') /\ (Backed(i) => Backed(i)')
  BY <1>1 DEF Reached, Backed
<1>3. \A i \in backup_ids' : Backed(i)'
  BY <1>2 DEF IInv
<1>4. \A t \in Scripts \ {s} : ScriptInv(t)'
  BY <1>1, <1>2 DEF IInv, ScriptInv, At
<1> QED BY <1>3, <1>4 DEF IInv

\* A script that is not about to bless, to prune or to delete has nothing to answer for.
LEMMA Elsewhere ==
  ASSUME NEW s \in Scripts, script'[s].at \notin {"manifest", "prune", "delete"}
  PROVE  ScriptInv(s)'
BY DEF ScriptInv, At

LEMMA NextIInv == IInv /\ [Next]_backupVars => IInv'
<1> SUFFICES ASSUME IInv, [Next]_backupVars PROVE IInv'
  OBVIOUS
<1>0. BackupTypeOK /\ BackupTypeOK'
  BY NextTypes DEF IInv
<1>1. ASSUME NEW s \in Scripts,
             UNCHANGED store, \A t \in Scripts \ {s} : script'[t] = script[t], ScriptInv(s)'
      PROVE  IInv'
  BY <1>0, <1>1, Keeps DEF backup_ids
<1>2. ASSUME NEW s \in Scripts, NEW at, Moved(s, at)
      PROVE  /\ \A t \in Scripts \ {s} : script'[t] = script[t]
             /\ script'[s].at = at /\ script'[s].id = script[s].id
  <2>1. script[s] = Idle \/ script[s] \in Progress
    BY <1>0 DEF BackupTypeOK
  <2>2. [script[s] EXCEPT !.at = at].at = at /\ [script[s] EXCEPT !.at = at].id = script[s].id
    BY <2>1 DEF Idle, Progress
  <2> QED BY <1>0, <1>2, <2>2 DEF Moved, BackupTypeOK
<1>3. ASSUME NEW s \in Scripts, Begin(s) \/ cleanup(s) \/ Kill(s) PROVE IInv'
  <2>1. script'[s].at \in {"inventory", "idle"} /\ \A t \in Scripts \ {s} : script'[t] = script[t]
    BY <1>0, <1>3 DEF Begin, cleanup, Kill, Idle, BackupTypeOK
  <2> QED BY <1>1, <1>3, <2>1, Elsewhere DEF Begin, cleanup, Kill
<1>4. ASSUME NEW s \in Scripts, inventory(s) \/ Stop(s) \/ Export(s) \/ wait_answering(s) \/ check(s) \/ Fail(s)
      PROVE  IInv'
  <2>1. PICK at \in {"stop", "stopped", "start", "put", "cleanup"} : Moved(s, at)
    BY <1>4 DEF inventory, Stop, Export, wait_answering, check, Fail
  <2>2. script'[s].at = at /\ \A t \in Scripts \ {s} : script'[t] = script[t]
    BY <1>2, <2>1
  <2>3. UNCHANGED store
    BY <1>4 DEF inventory, Stop, Export, wait_answering, check, Fail
  <2> QED BY <1>1, <2>2, <2>3, Elsewhere
<1>5. ASSUME NEW s \in Scripts, Mark(s) \/ Start(s) PROVE IInv'
  <2>1. script[s] \in Progress
    BY <1>0, <1>5, Working DEF Mark, Start, At
  <2>2. script'[s].at \in {"export", "wait"} /\ \A t \in Scripts \ {s} : script'[t] = script[t]
    BY <1>0, <1>5, <2>1 DEF Mark, Start, BackupTypeOK, Progress
  <2> QED BY <1>1, <1>5, <2>2, Elsewhere DEF Mark, Start
<1>6. ASSUME NEW s \in Scripts, PutExport(s) PROVE IInv'
  <2>1. script'[s].at = "readback" /\ \A t \in Scripts \ {s} : script'[t] = script[t]
    BY <1>2, <1>6 DEF PutExport
  <2>2. store \subseteq store' /\ backup_ids' = backup_ids
    BY <1>6 DEF PutExport, backup_ids
  <2> QED BY <1>0, <2>1, <2>2, Keeps, Elsewhere
\* The export was read back, so it is there.
<1>7. ASSUME NEW s \in Scripts, ReadBack(s) PROVE IInv'
  <2>1. /\ script'[s].at = "manifest" /\ script'[s].id = script[s].id
        /\ \A t \in Scripts \ {s} : script'[t] = script[t]
    BY <1>2, <1>7 DEF ReadBack
  <2>2. ScriptInv(s)'
    BY <1>7, <2>1 DEF ReadBack, ScriptInv, At, Backed
  <2> QED BY <1>1, <1>7, <2>1, <2>2 DEF ReadBack
\* It may have been pruned since, but then under a newer complete backup.
<1>8. ASSUME NEW s \in Scripts, PutManifest(s) PROVE IInv'
  <2>1. script'[s].at = "list" /\ \A t \in Scripts \ {s} : script'[t] = script[t]
    BY <1>2, <1>8 DEF PutManifest
  <2>2. Backed(script[s].id)
    BY <1>8 DEF PutManifest, IInv, ScriptInv
  <2>3. store \subseteq store' /\ backup_ids' \subseteq backup_ids \cup {script[s].id}
    BY <1>8 DEF PutManifest, backup_ids
  <2> QED BY <1>0, <2>1, <2>2, <2>3, Keeps, Elsewhere
<1>9. ASSUME NEW s \in Scripts, ListComplete(s) PROVE IInv'
  <2>1. script[s] \in Progress
    BY <1>0, <1>9, Working DEF ListComplete, At
  <2>2. /\ script'[s].at = "prune" /\ script'[s].listed = backup_ids
        /\ \A t \in Scripts \ {s} : script'[t] = script[t]
    BY <1>0, <1>9, <2>1 DEF ListComplete, BackupTypeOK, Progress
  <2>3. backup_ids' = backup_ids /\ backup_ids \subseteq Nat
    BY <1>0, <1>9, IdsAreNumbers DEF ListComplete, backup_ids
  <2>4. ScriptInv(s)'
    BY <2>2, <2>3 DEF ScriptInv, At, Reached
  <2> QED BY <1>1, <1>9, <2>2, <2>4 DEF ListComplete
\* What is doomed is under a backup that was complete, and one at least as new still is.
<1>10. ASSUME NEW s \in Scripts, prune(s) PROVE IInv'
  <2>1. script[s] \in Progress
    BY <1>0, <1>10, Working DEF prune, At
  <2> DEFINE L == script[s].listed
  <2>2. L \in SUBSET Nat /\ \A i \in L : Reached(i)
    BY <1>10, <2>1 DEF prune, IInv, ScriptInv, Progress
  <2>3. /\ script'[s].at = "delete" /\ script'[s].doomed = doomed(L)
        /\ \A t \in Scripts \ {s} : script'[t] = script[t]
    BY <1>0, <1>10, <2>1 DEF prune, BackupTypeOK, Progress
  <2>4. ASSUME NEW k \in doomed(L) PROVE Above(k[1])
    <3>1. PICK i \in L : k[1] < i
      BY <2>2, DoomedIsOld
    <3>2. PICK j \in backup_ids : i <= j
      BY <2>2 DEF Reached
    <3>3. k \in Key
      BY <1>0 DEF doomed, BackupTypeOK
    <3>4. k[1] \in Nat /\ i \in Nat /\ j \in Nat
      BY <1>0, <2>2, <3>3, IdsAreNumbers DEF Key
    <3> QED BY <3>1, <3>2, <3>4 DEF Above
  <2>5. backup_ids' = backup_ids
    BY <1>10 DEF prune, backup_ids
  <2>6. ScriptInv(s)'
    BY <2>3, <2>4, <2>5 DEF ScriptInv, At, Above
  <2> QED BY <1>1, <1>10, <2>3, <2>6 DEF prune
<1>11. ASSUME NEW s \in Scripts, Delete(s) PROVE IInv'
  <2>1. script[s] \in Progress
    BY <1>0, <1>11, Working DEF Delete, At
  <2>2. CASE Moved(s, "check") /\ UNCHANGED store
    BY <1>1, <1>2, <2>2, Elsewhere
  <2>3. ASSUME NEW k \in script[s].doomed, store' = store \ {k}, script' = [script EXCEPT ![s].doomed = @ \ {k}]
        PROVE  IInv'
    <3>1. k \in Key /\ Above(k[1]) /\ store \subseteq Key
      BY <1>0, <1>11, <2>1 DEF Delete, IInv, ScriptInv, Progress, BackupTypeOK
    <3>2. \A t \in Scripts : /\ script'[t].at = script[t].at /\ script'[t].id = script[t].id
                             /\ script'[t].listed = script[t].listed /\ script'[t].doomed \subseteq script[t].doomed
      BY <1>0, <2>1, <2>3 DEF BackupTypeOK, Progress
    <3>3. \A i \in Nat : (Above(i) => Above(i)') /\ (Reached(i) => Reached(i)')
      BY <2>3, <3>1, AboveStays, ReachedStays
    <3>4. ASSUME NEW i \in Nat, Backed(i) PROVE Backed(i)'
      BY <2>3, <3>1, <3>3, <3>4 DEF Backed
    <3>5. \A i \in backup_ids' : Backed(i)'
      <4>1. backup_ids' \subseteq backup_ids /\ backup_ids \subseteq Nat
        BY <1>0, <2>3, IdsAreNumbers DEF backup_ids
      <4> QED BY <3>4, <4>1 DEF IInv
    <3>6. ASSUME NEW t \in Scripts PROVE ScriptInv(t)'
      <4>1. CASE script[t] = Idle
        BY <3>2, <4>1 DEF ScriptInv, At, Idle
      <4>2. CASE script[t] \in Progress
        <5>1. script[t].id \in Nat /\ script[t].listed \subseteq Nat /\ \A l \in script[t].doomed : l[1] \in Nat
          BY <4>2 DEF Progress, Key
        <5> QED BY <3>2, <3>3, <3>4, <5>1 DEF IInv, ScriptInv, At
      <4> QED BY <1>0, <4>1, <4>2 DEF BackupTypeOK
    <3> QED BY <1>0, <3>5, <3>6 DEF IInv
  <2> QED BY <1>11, <2>2, <2>3 DEF Delete
<1>12. CASE Systemd \/ Crash \/ UNCHANGED backupVars
  <2>1. store' = store /\ script' = script
    BY <1>12 DEF Systemd, Crash, backupVars
  <2>2. backup_ids' = backup_ids
    BY <2>1 DEF backup_ids
  <2> QED BY <1>0, <2>1, <2>2 DEF IInv, ScriptInv, At, Backed, Above, Reached
<1> QED BY <1>3, <1>4, <1>5, <1>6, <1>7, <1>8, <1>9, <1>10, <1>11, <1>12 DEF Next, Step

\* No step takes the newest complete backup away but for a newer one.
LEMMA NoneFallsBack ==
  ASSUME IInv, [Next]_backupVars, NEW i \in backup_ids
  PROVE  \E j \in backup_ids' : i <= j
<1>0. BackupTypeOK /\ backup_ids \subseteq Nat
  BY IdsAreNumbers DEF IInv
<1>1. CASE store \subseteq store'
  BY <1>0, <1>1 DEF backup_ids
<1>2. ASSUME NEW s \in Scripts, Delete(s) PROVE \E j \in backup_ids' : i <= j
  <2>1. CASE store' = store
    BY <1>1, <2>1
  <2>2. ASSUME NEW k \in script[s].doomed, store' = store \ {k} PROVE Reached(i)'
    <3>1. k \in Key /\ Above(k[1]) /\ store \subseteq Key
      BY <1>0, <1>2, Working DEF Delete, At, IInv, ScriptInv, Progress, BackupTypeOK
    <3>2. Reached(i)
      BY <1>0 DEF Reached
    <3> QED BY <1>0, <2>2, <3>1, <3>2, ReachedStays
  <2> QED BY <1>2, <2>1, <2>2 DEF Delete, Reached
<1>3. (\E s \in Scripts : Delete(s)) \/ store \subseteq store'
  BY DEF Next, Step, Begin, inventory, Stop, Mark, Export, Start, wait_answering, PutExport, ReadBack, PutManifest,
         ListComplete, prune, check, Fail, cleanup, Kill, Systemd, Crash, backupVars
<1> QED BY <1>1, <1>2, <1>3

-----------------------------------------------------------------------------
\* The newest complete backup verifies and is never taken away, whatever the number of scripts
\* that overlap, the backups kept and the faults (nessie_backup.rs put_backup, prune).
THEOREM NewestBackupStands == Spec => NewestStands
<1>1. Init => IInv
  BY InitIInv
<1>2. IInv /\ [Next]_backupVars => IInv'
  BY NextIInv
<1>3. ASSUME IInv, [Next]_backupVars
      PROVE  /\ \A i \in backup_ids : \E j \in backup_ids' : i <= j
             /\ \A i \in backup_ids' : (\A j \in backup_ids' : j <= i) => verify_backup(i)'
  <2>1. \A i \in backup_ids : \E j \in backup_ids' : i <= j
    BY <1>3, NoneFallsBack
  <2>2. IInv'
    BY <1>2, <1>3
  <2>3. ASSUME NEW i \in backup_ids', \A j \in backup_ids' : j <= i PROVE verify_backup(i)'
    <3>1. backup_ids' \subseteq Nat
      BY <2>2 DEF IInv, BackupTypeOK, backup_ids, Key
    <3>2. ~Above(i)'
      BY <2>3, <3>1 DEF Above
    <3>3. <<i, "export">> \in store'
      BY <2>2, <2>3, <3>2 DEF IInv, Backed
    <3>4. <<i, "manifest">> \in store'
      BY <2>2, <2>3 DEF IInv, BackupTypeOK, backup_ids, Key
    <3> QED BY <3>3, <3>4 DEF verify_backup
  <2> QED BY <2>1, <2>3
<1> QED BY <1>1, <1>2, <1>3, PTL DEF Spec, NewestStands
=============================================================================
