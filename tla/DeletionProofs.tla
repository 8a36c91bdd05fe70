--------------------------- MODULE DeletionProofs ---------------------------
(***************************************************************************)
(* What a deletion promises for any number of tenants, parts and faults:   *)
(* what it took stays gone.                                                *)
(*                                                                         *)
(* A job puts a part under a prefix only while it holds the prefix's key,  *)
(* and it holds a key only from a moment at which the key derived. So the  *)
(* invariant adds that nobody holds a tombstoned key - but for the jobs    *)
(* that held it when the tombstone fell - and that a deletion which is     *)
(* past its first step finds its tombstone in the registry.                *)
(***************************************************************************)
EXTENDS Deletion, TLAPS

\* No job holds the key of a tombstoned tenant, unless it held it before.
NoLateKey ==
    \A t \in Leavers \ (early \cup revived) :
        registry[t] = "tombstoned" => \A j \in Jobs : ~Holds(j, t)

\* Past its first step a deletion's tombstone stands.
TombstoneFirst ==
    del.phase \in {"list", "drop", "verify"} /\ del.of \notin revived => registry[del.of] = "tombstoned"

IInv == DeletionTypeOK /\ WhatIsTakenStaysGone /\ NoLateKey /\ TombstoneFirst

USE DeletionAssumption

-----------------------------------------------------------------------------
(* Types. *)

LEMMA InitTypes == Init => DeletionTypeOK
<1> SUFFICES ASSUME Init PROVE DeletionTypeOK
  OBVIOUS
<1>1. zone = [t \in Tenants |-> {}] /\ zone \in [Tenants -> SUBSET Parts]
  BY DEF Init
<1>2. \A j \in Jobs : run[j] = Idle
  BY DEF Init
<1> QED BY <1>1, <1>2 DEF Init, DeletionTypeOK, KeyState, Jobs

\* What the jobs do to their own records.
LEMMA ProgressTypes ==
  ASSUME DeletionTypeOK, NEW j \in Jobs, NEW r \in Progress \cup {Idle},
         j = "holdings" /\ r # Idle => r.due \in [Tenants -> SUBSET Parts],
         run' = [run EXCEPT ![j] = r]
  PROVE  /\ run' \in [Jobs -> Progress \cup {Idle}]
         /\ run'["holdings"] # Idle => run'["holdings"].due \in [Tenants -> SUBSET Parts]
BY DEF DeletionTypeOK, Jobs

\* A record past a tenant is one.
LEMMA PastTypes ==
  ASSUME DeletionTypeOK, NEW j \in Jobs, run[j] \in Progress, NEW t \in Tenants, NEW S \in SUBSET Tenants,
         NEW due \in [Tenants -> SUBSET Parts] \cup {<<>>}
  PROVE  /\ Past(j, t, S, due) \in Progress /\ Past(j, t, S, due).due = due
         /\ Past(j, t, S, due).phase = "next"
<1>1. /\ run[j].todo \in SUBSET Tenants /\ run[j].skipped \in SUBSET Tenants
  BY DEF Progress
<1> QED BY <1>1 DEF Past, Progress

\* A record that is not idle is one that is at work.
LEMMA AtWork ==
  ASSUME DeletionTypeOK, NEW j \in Jobs, run[j].phase \in {"next", "working"}
  PROVE  run[j] \in Progress /\ run[j] # Idle
BY DEF DeletionTypeOK, Idle

LEMMA NextTypes == DeletionTypeOK /\ [Next]_deletionVars => DeletionTypeOK'
<1> SUFFICES ASSUME DeletionTypeOK, [Next]_deletionVars PROVE DeletionTypeOK'
  OBVIOUS
<1> USE DEF DeletionTypeOK
<1>1. ASSUME NEW t \in Tenants, register(t) \/ (t \in Leavers /\ run_tombstone(t)) PROVE DeletionTypeOK'
  BY <1>1 DEF register, run_tombstone, tombstone, jobVars, erasureVars, KeyState
<1>2. ASSUME NEW t \in Tenants, ship_one(t) PROVE DeletionTypeOK'
  <2>1. "ship" \in Jobs /\ run["ship"] \in Progress
    BY <1>2, AtWork DEF ship_one, Holds, Jobs
  <2>2. CASE run' = [run EXCEPT !["ship"] = Past("ship", t, {}, run["ship"].due)] /\ UNCHANGED <<parts, zone>>
    <3>1. run["ship"].due \in [Tenants -> SUBSET Parts] \cup {<<>>}
      BY <2>1 DEF Progress
    <3>2. Past("ship", t, {}, run["ship"].due) \in Progress
      BY <2>1, <3>1, PastTypes
    <3>3. /\ run' \in [Jobs -> Progress \cup {Idle}]
          /\ run'["holdings"] # Idle => run'["holdings"].due \in [Tenants -> SUBSET Parts]
      BY <2>1, <2>2, <3>2, ProgressTypes
    <3> QED BY <1>2, <2>2, <3>3 DEF ship_one, keyVars, erasureVars
  <2>3. CASE parts < MaxParts /\ parts' = parts + 1 /\ zone' = [zone EXCEPT ![t] = @ \cup {parts'}] /\ UNCHANGED run
    <3>1. parts' \in Parts
      BY <2>3 DEF Parts
    <3> QED BY <1>2, <2>3, <3>1 DEF ship_one, keyVars, erasureVars
  <2> QED BY <1>2, <2>2, <2>3 DEF ship_one
<1>3. ASSUME NEW t \in Tenants, read(t) PROVE DeletionTypeOK'
  <2>1. "holdings" \in Jobs /\ run["holdings"] \in Progress
    BY <1>3, AtWork DEF read, Holds, Jobs
  <2>2. [run["holdings"] EXCEPT !.read = {zone[t]}] \in Progress
    BY <2>1 DEF Progress
  <2>3. [run["holdings"] EXCEPT !.read = {zone[t]}].due = run["holdings"].due
    BY <2>1 DEF Progress
  <2> QED BY <1>3, <2>1, <2>2, <2>3, ProgressTypes, AtWork DEF read, keyVars, erasureVars, Holds
<1>4. ASSUME NEW t \in Tenants, materialize_one(t) PROVE DeletionTypeOK'
  <2>1. "holdings" \in Jobs /\ run["holdings"] \in Progress
    BY <1>4, AtWork DEF materialize_one, Holds, Jobs
  <2>2. /\ UNION run["holdings"].read \in SUBSET Parts
        /\ run["holdings"].due \in [Tenants -> SUBSET Parts] \cup {<<>>}
    BY <2>1 DEF Progress
  <2>3. Past("holdings", t, {}, run["holdings"].due) \in Progress
    BY <2>1, <2>2, PastTypes
  <2>4. Past("holdings", t, {}, run["holdings"].due).due = run["holdings"].due
    BY DEF Past
  <2>5. run["holdings"].due \in [Tenants -> SUBSET Parts]
    BY <1>4, <2>1, AtWork DEF materialize_one, Holds
  <2> QED BY <1>4, <2>1, <2>2, <2>3, <2>4, <2>5, ProgressTypes DEF materialize_one, keyVars, erasureVars
<1>5. ASSUME NEW t \in Tenants, NEW j \in Jobs, TakeKey(j, t) \/ Unreadable(j, t) PROVE DeletionTypeOK'
  <2>1. run[j] \in Progress /\ run[j] # Idle
    BY <1>5, AtWork DEF TakeKey, Unreadable, Holds
  <2>2. /\ run[j].due \in [Tenants -> SUBSET Parts] \cup {<<>>}
        /\ j = "holdings" => run[j].due \in [Tenants -> SUBSET Parts]
        /\ NotOwed(j, t) \in [Tenants -> SUBSET Parts] \cup {<<>>}
        /\ j = "holdings" => NotOwed(j, t) \in [Tenants -> SUBSET Parts]
    BY <2>1 DEF Progress, NotOwed
  <2>3. PICK r \in Progress : run' = [run EXCEPT ![j] = r] /\ (j = "holdings" => r.due \in [Tenants -> SUBSET Parts])
    <3>1. CASE run' = [run EXCEPT ![j] = Past(j, t, {t}, run[j].due)]
      <4> DEFINE w == Past(j, t, {t}, run[j].due)
      <4>1. w \in Progress /\ w.due = run[j].due
        BY <2>1, <2>2, PastTypes
      <4> HIDE DEF w
      <4> QED BY <2>2, <3>1, <4>1 DEF w
    <3>2. CASE run' = [run EXCEPT ![j] = Past(j, t, {}, NotOwed(j, t))]
      <4> DEFINE w == Past(j, t, {}, NotOwed(j, t))
      <4>1. w \in Progress /\ w.due = NotOwed(j, t)
        BY <2>1, <2>2, PastTypes
      <4> HIDE DEF w
      <4> QED BY <2>2, <3>2, <4>1 DEF w
    <3> DEFINE w == [phase |-> "working", todo |-> run[j].todo, at |-> {t}, read |-> {},
                     skipped |-> run[j].skipped, due |-> run[j].due]
    <3>3. CASE run' = [run EXCEPT ![j] = w]
      <4>1. w \in Progress /\ w.due = run[j].due
        BY <2>1 DEF Progress
      <4> HIDE DEF w
      <4> QED BY <2>2, <3>3, <4>1
    <3> QED BY <1>5, <3>1, <3>2, <3>3 DEF TakeKey, Unreadable
  <2> QED BY <1>5, <2>3, ProgressTypes DEF TakeKey, Unreadable, keyVars, erasureVars
<1>6. ASSUME NEW j \in Jobs, Begin(j) PROVE DeletionTypeOK'
  <2> DEFINE w == [phase |-> "next", todo |-> Tenants, at |-> {}, read |-> {}, skipped |-> {},
                   due |-> IF j = "holdings" THEN zone ELSE <<>>]
  <2>1. w \in Progress /\ (j = "holdings" => w.due \in [Tenants -> SUBSET Parts])
    BY DEF Progress
  <2>2. run' = [run EXCEPT ![j] = w]
    BY <1>6 DEF Begin
  <2> HIDE DEF w
  <2> QED BY <1>6, <2>1, <2>2, ProgressTypes DEF Begin, keyVars, erasureVars
<1>7. ASSUME NEW j \in Jobs, End(j) \/ Kill(j) PROVE DeletionTypeOK'
  <2>1. run[j] # Idle
    BY <1>7 DEF End, Kill, Idle
  <2>2. last' \in [Tenants -> SUBSET Parts]
    BY <1>7, <2>1 DEF End, Kill
  <2>3. /\ run' \in [Jobs -> Progress \cup {Idle}]
        /\ run'["holdings"] # Idle => run'["holdings"].due \in [Tenants -> SUBSET Parts]
    BY <1>7 DEF End, Kill, Jobs
  <2>4. faults' \in 0 .. MaxFaults
    BY <1>7 DEF End, Kill, Fault
  <2> QED BY <1>7, <2>2, <2>3, <2>4 DEF End, Kill, keyVars, erasureVars
<1>8. ASSUME NEW t \in Leavers, do_delete(t) \/ do_verify(t) PROVE DeletionTypeOK'
  BY <1>8 DEF do_delete, do_verify, Judge, keyVars, jobVars, Erasure
<1>9. ASSUME Deleting \/ Interrupted PROVE DeletionTypeOK'
  <2>1. del \in Erasure /\ del.of \in Leavers /\ del.keys \in SUBSET Parts /\ del.of \in Tenants
    BY <1>9 DEF Deleting, Tombstone, List, Drop, Prove, Interrupted, Idle, Erasure
  <2>2. CASE Tombstone
    BY <2>1, <2>2 DEF Tombstone, tombstone, jobVars, Erasure, KeyState
  <2>3. CASE List
    BY <2>1, <2>3 DEF List, keyVars, jobVars, Erasure
  <2>4. CASE Drop
    BY <2>1, <2>4 DEF Drop, keyVars, Erasure
  <2>5. CASE Prove
    BY <2>1, <2>5 DEF Prove, Judge, jobVars
  <2>6. CASE Interrupted
    BY <2>6 DEF Interrupted, Fault, keyVars, jobVars
  <2> QED BY <1>9, <2>2, <2>3, <2>4, <2>5, <2>6 DEF Deleting
<1>10. ASSUME LoseMaster \/ run_restore \/ \E lost \in SUBSET Leavers : RestoreRegistry(lost) PROVE DeletionTypeOK'
  <2>1. CASE LoseMaster \/ run_restore
    <3>1. master' \in BOOLEAN
      BY <2>1 DEF LoseMaster, run_restore
    <3>2. faults' \in 0 .. MaxFaults
      BY <2>1 DEF LoseMaster, run_restore, Fault
    <3>3. UNCHANGED <<registry, early, revived, zone, staged, run, last, parts, del, asked, swept, proven>>
      BY <2>1 DEF LoseMaster, run_restore, jobVars, erasureVars
    <3> QED BY <3>1, <3>2, <3>3
  <2>2. ASSUME NEW lost \in SUBSET Leavers, RestoreRegistry(lost) PROVE DeletionTypeOK'
    <3>1. registry' \in [Tenants -> KeyState]
      BY <2>2 DEF RestoreRegistry, KeyState
    <3>2. faults' \in 0 .. MaxFaults
      BY <2>2 DEF RestoreRegistry, Fault
    <3>3. UNCHANGED <<master, early, zone, staged, run, last, parts, del, asked, swept, proven>>
          /\ revived' \subseteq Leavers
      BY <2>2 DEF RestoreRegistry, jobVars, erasureVars
    <3> QED BY <3>1, <3>2, <3>3
  <2> QED BY <1>10, <2>1, <2>2
<1>11. CASE UNCHANGED deletionVars
  BY <1>11 DEF deletionVars
<1> QED BY <1>1, <1>2, <1>3, <1>4, <1>5, <1>6, <1>7, <1>8, <1>9, <1>10, <1>11 DEF Next

-----------------------------------------------------------------------------
(* What was taken stays gone. *)

LEMMA InitIInv == Init => IInv
<1> SUFFICES ASSUME Init PROVE IInv
  OBVIOUS
<1>1. DeletionTypeOK
  BY InitTypes
<1>2. swept = {} /\ proven = {} /\ del.phase = "idle" /\ \A j \in Jobs : run[j].phase = "idle"
  BY DEF Init, Idle
<1> QED BY <1>1, <1>2 DEF IInv, WhatIsTakenStaysGone, NoLateKey, TombstoneFirst, Holds

\* A step that gives nobody a key, puts no part and lifts no tombstone.
Harmless ==
    /\ \A t \in Leavers :
         /\ zone'[t] \subseteq zone[t]
         /\ registry[t] = "tombstoned" => registry'[t] = "tombstoned"
         /\ registry'[t] = "tombstoned" /\ registry[t] # "tombstoned" /\ t \notin early' => \A j \in Jobs : ~Holds(j, t)
         /\ \A j \in Jobs : Holds(j, t)' => Holds(j, t)
    /\ early \subseteq early' /\ revived \subseteq revived'

LEMMA HarmlessKeeps ==
  ASSUME IInv, DeletionTypeOK', Harmless, proven' \subseteq proven, swept' \subseteq swept,
         UNCHANGED del \/ del' = Idle
  PROVE  IInv'
<1>1. WhatIsTakenStaysGone'
  BY DEF IInv, Harmless, WhatIsTakenStaysGone, tenant_key
<1>2. NoLateKey'
  BY DEF IInv, Harmless, NoLateKey
<1>3. TombstoneFirst'
  <2>1. CASE del' = Idle
    BY <2>1 DEF TombstoneFirst, Idle
  <2>2. CASE UNCHANGED del
    <3>1. CASE del = Idle
      BY <2>2, <3>1 DEF TombstoneFirst, Idle
    <3>2. CASE del \in Erasure
      BY <2>2, <3>2 DEF IInv, Harmless, TombstoneFirst, Erasure
    <3> QED BY <3>1, <3>2 DEF IInv, DeletionTypeOK
  <2> QED BY <2>1, <2>2
<1> QED BY <1>1, <1>2, <1>3 DEF IInv

LEMMA NextIInv == IInv /\ [Next]_deletionVars => IInv'
<1> SUFFICES ASSUME IInv, [Next]_deletionVars PROVE IInv'
  OBVIOUS
<1>0. DeletionTypeOK /\ DeletionTypeOK'
  BY NextTypes DEF IInv
<1>1. ASSUME NEW t \in Tenants, register(t) PROVE IInv'
  <2>1. Harmless /\ UNCHANGED <<proven, swept, del>>
    BY <1>0, <1>1 DEF register, Harmless, Holds, jobVars, erasureVars, DeletionTypeOK
  <2> QED BY <1>0, <2>1, HarmlessKeeps
<1>2. ASSUME NEW t \in Leavers, run_tombstone(t) PROVE IInv'
  <2>1. Harmless /\ UNCHANGED <<proven, swept, del>>
    BY <1>0, <1>2 DEF run_tombstone, tombstone, Harmless, Holds, jobVars, erasureVars, DeletionTypeOK
  <2> QED BY <1>0, <2>1, HarmlessKeeps
\* A part is put under a prefix whose key is held, so not under one that was proven empty.
<1>3. ASSUME NEW t \in Tenants, ship_one(t) PROVE IInv'
  <2>1. UNCHANGED <<registry, master, early, revived, del, swept, proven>> /\ Holds("ship", t)
    BY <1>3 DEF ship_one, keyVars, erasureVars
  <2>2. ASSUME NEW j \in Jobs, NEW u \in Tenants, Holds(j, u)' PROVE Holds(j, u)
    BY <1>0, <1>3, <2>2 DEF ship_one, Holds, Past, DeletionTypeOK, Jobs
  <2>3. \A u \in Leavers : zone'[u] \subseteq zone[u] \/ (u = t /\ zone'[u] # {})
    BY <1>0, <1>3 DEF ship_one, DeletionTypeOK
  <2>4. ASSUME NEW u \in Leavers \ (early \cup revived), u \in proven PROVE zone'[u] = {}
    BY <2>1, <2>3, <2>4 DEF IInv, WhatIsTakenStaysGone, NoLateKey, tenant_key, Jobs
  <2>5. WhatIsTakenStaysGone'
    BY <2>1, <2>4 DEF IInv, WhatIsTakenStaysGone, tenant_key
  <2>6. NoLateKey'
    BY <2>1, <2>2 DEF IInv, NoLateKey
  <2>7. TombstoneFirst'
    BY <2>1 DEF IInv, TombstoneFirst
  <2> QED BY <1>0, <2>5, <2>6, <2>7 DEF IInv
<1>4. ASSUME NEW t \in Tenants, read(t) \/ materialize_one(t) PROVE IInv'
  <2>1. \A j \in Jobs, u \in Leavers : Holds(j, u)' => Holds(j, u)
    <3>1. run["holdings"] \in Progress
      BY <1>0, <1>4, AtWork DEF read, materialize_one, Holds, Jobs
    <3>2. CASE read(t)
      <4>1. [run["holdings"] EXCEPT !.read = {zone[t]}].phase = run["holdings"].phase
            /\ [run["holdings"] EXCEPT !.read = {zone[t]}].at = run["holdings"].at
        BY <3>1 DEF Progress
      <4>2. \A j \in Jobs : run'[j].phase = run[j].phase /\ run'[j].at = run[j].at
        BY <1>0, <3>2, <4>1 DEF read, DeletionTypeOK, Jobs
      <4> QED BY <4>2 DEF Holds
    <3>3. CASE materialize_one(t)
      <4>1. run'["holdings"].phase = "next" /\ run'["ship"] = run["ship"]
        BY <1>0, <3>3 DEF materialize_one, Past, DeletionTypeOK, Jobs
      <4> QED BY <4>1 DEF Holds, Jobs
    <3> QED BY <1>4, <3>2, <3>3
  <2>2. Harmless /\ UNCHANGED <<proven, swept, del>>
    BY <1>4, <2>1 DEF read, materialize_one, Harmless, keyVars, erasureVars
  <2> QED BY <1>0, <2>2, HarmlessKeeps
\* The key is taken only if it derives, so it is not tombstoned.
<1>5. ASSUME NEW j \in Jobs, NEW t \in Tenants, TakeKey(j, t) PROVE IInv'
  <2>1. UNCHANGED <<registry, master, zone, early, revived, del, swept, proven>>
    BY <1>5 DEF TakeKey, keyVars, erasureVars
  <2>2. ASSUME NEW i \in Jobs, NEW u \in Tenants, Holds(i, u)' PROVE Holds(i, u) \/ (u = t /\ tenant_key(t) = "key")
    <3>1. CASE i # j
      BY <1>0, <1>5, <2>2, <3>1 DEF TakeKey, Holds, DeletionTypeOK
    <3>2. CASE i = j
      <4>1. run'[j].phase = "next" \/ (run'[j].at = {t} /\ tenant_key(t) = "key")
        BY <1>0, <1>5 DEF TakeKey, Past, DeletionTypeOK
      <4> QED BY <2>2, <3>2, <4>1 DEF Holds
    <3> QED BY <3>1, <3>2
  <2>3. tenant_key(t) = "key" => registry[t] # "tombstoned"
    BY DEF tenant_key
  <2>4. WhatIsTakenStaysGone' /\ TombstoneFirst'
    BY <2>1 DEF IInv, WhatIsTakenStaysGone, TombstoneFirst, tenant_key
  <2>5. NoLateKey'
    BY <2>1, <2>2, <2>3 DEF IInv, NoLateKey
  <2> QED BY <1>0, <2>4, <2>5 DEF IInv
<1>6. ASSUME NEW j \in Jobs, NEW t \in Tenants, Unreadable(j, t) PROVE IInv'
  <2>1. \A i \in Jobs, u \in Leavers : Holds(i, u)' => Holds(i, u)
    BY <1>0, <1>6 DEF Unreadable, Holds, Past, DeletionTypeOK
  <2>2. Harmless /\ UNCHANGED <<proven, swept, del>>
    BY <1>6, <2>1 DEF Unreadable, Harmless, keyVars, erasureVars
  <2> QED BY <1>0, <2>2, HarmlessKeeps
<1>7. ASSUME NEW j \in Jobs, Begin(j) \/ End(j) \/ Kill(j) PROVE IInv'
  <2>1. \A i \in Jobs, u \in Leavers : Holds(i, u)' => Holds(i, u)
    BY <1>0, <1>7 DEF Begin, End, Kill, Idle, Holds, DeletionTypeOK
  <2>2. Harmless /\ UNCHANGED <<proven, swept, del>>
    BY <1>7, <2>1 DEF Begin, End, Kill, Harmless, keyVars, erasureVars
  <2> QED BY <1>0, <2>2, HarmlessKeeps
<1>8. ASSUME NEW t \in Leavers, do_delete(t) PROVE IInv'
  <2>1. UNCHANGED <<registry, master, zone, run, early, revived, swept>> /\ proven' \subseteq proven
        /\ del'.phase = "tombstone"
    BY <1>8 DEF do_delete, keyVars, jobVars
  <2>2. WhatIsTakenStaysGone'
    BY <2>1 DEF IInv, WhatIsTakenStaysGone, tenant_key
  <2>3. NoLateKey' /\ TombstoneFirst'
    BY <2>1 DEF IInv, NoLateKey, Holds, TombstoneFirst
  <2> QED BY <1>0, <2>2, <2>3 DEF IInv
\* What is proven has its tombstone and holds nothing; it counts again once nobody has its key.
<1>9. ASSUME NEW t \in Leavers, Judge(t), UNCHANGED <<registry, master, zone, run, swept>>,
             del' = Idle \/ UNCHANGED del
      PROVE  IInv'
  <2>1. verify(t) => registry[t] = "tombstoned" /\ zone[t] = {}
    BY DEF verify, tenant_key
  <2>2. /\ \A u \in Leavers : u # t => /\ u \in proven' => u \in proven
                                       /\ u \in early => u \in early'
                                       /\ u \in revived => u \in revived'
        /\ t \in proven' => verify(t)
        /\ t \notin (early \cup revived)' => t \notin (early \cup revived) \/ (verify(t) /\ \A j \in Jobs : ~Holds(j, t))
    BY <1>9 DEF Judge
  <2>3. WhatIsTakenStaysGone'
    <3> SUFFICES ASSUME NEW u \in Leavers, u \notin (early \cup revived)'
                 PROVE  /\ (u \in swept => registry[u] = "tombstoned")'
                        /\ (u \in proven => zone[u] = {} /\ tenant_key(u) = "revoked")'
      BY DEF WhatIsTakenStaysGone
    <3>1. CASE u = t
      BY <1>9, <2>1, <2>2, <3>1 DEF IInv, WhatIsTakenStaysGone, tenant_key
    <3>2. CASE u # t
      BY <1>9, <2>2, <3>2 DEF IInv, WhatIsTakenStaysGone, tenant_key
    <3> QED BY <3>1, <3>2
  <2>4. NoLateKey'
    <3> SUFFICES ASSUME NEW u \in Leavers, u \notin (early \cup revived)', registry'[u] = "tombstoned", NEW j \in Jobs
                 PROVE  ~Holds(j, u)'
      BY DEF NoLateKey
    <3>1. Holds(j, u)' = Holds(j, u)
      BY <1>9 DEF Holds
    <3> QED BY <1>9, <2>2, <3>1 DEF IInv, NoLateKey
  <2>5. TombstoneFirst'
    <3>1. CASE del' = Idle
      BY <3>1 DEF TombstoneFirst, Idle
    <3>2. CASE UNCHANGED del /\ del = Idle
      BY <3>2 DEF TombstoneFirst, Idle
    <3>3. CASE UNCHANGED del /\ del \in Erasure
      <4>1. del.of \in Leavers
        BY <3>3 DEF Erasure
      <4>2. del.of \notin revived' => (del.of \notin revived \/ (verify(t) /\ del.of = t))
        BY <1>9, <2>2, <4>1 DEF Judge
      <4> QED BY <1>9, <2>1, <3>3, <4>2 DEF IInv, TombstoneFirst
    <3> QED BY <1>0, <1>9, <3>1, <3>2, <3>3 DEF DeletionTypeOK
  <2> QED BY <1>0, <2>3, <2>4, <2>5 DEF IInv
<1>10. ASSUME NEW t \in Leavers, do_verify(t) PROVE IInv'
  BY <1>9, <1>10 DEF do_verify, jobVars
<1>11. CASE Tombstone
  <2>1. del \in Erasure /\ del.of \in Leavers
    BY <1>0, <1>11 DEF Tombstone, Idle, Erasure, DeletionTypeOK
  <2>2. /\ UNCHANGED <<zone, run, revived, proven, swept>> /\ tombstone(del.of)
        /\ del'.phase = "list" /\ del'.of = del.of
    BY <1>11, <2>1 DEF Tombstone, jobVars, Erasure
  <2>3. /\ registry'[del.of] = "tombstoned"
        /\ \A t \in Leavers : t # del.of => registry'[t] = registry[t]
        /\ early \subseteq early' /\ \A j \in Jobs : Holds(j, del.of) => del.of \in early'
    BY <1>0, <2>1, <2>2 DEF tombstone, DeletionTypeOK
  <2>4. WhatIsTakenStaysGone'
    BY <2>2, <2>3 DEF IInv, WhatIsTakenStaysGone, tenant_key
  <2>5. NoLateKey'
    BY <2>2, <2>3 DEF IInv, NoLateKey, Holds
  <2>6. TombstoneFirst'
    BY <2>2, <2>3 DEF TombstoneFirst
  <2> QED BY <1>0, <2>4, <2>5, <2>6 DEF IInv
\* What is about to be removed has its tombstone.
<1>12. CASE List
  <2>1. del \in Erasure /\ del.of \in Leavers
    BY <1>0, <1>12 DEF List, Idle, Erasure, DeletionTypeOK
  <2>2. /\ UNCHANGED <<registry, master, zone, run, early, revived, proven>> /\ swept' = swept \cup {del.of}
        /\ del'.phase = "drop" /\ del'.of = del.of /\ del.phase = "list"
    BY <1>12, <2>1 DEF List, keyVars, jobVars, Erasure
  <2>3. WhatIsTakenStaysGone'
    BY <2>2 DEF IInv, WhatIsTakenStaysGone, TombstoneFirst, tenant_key
  <2>4. NoLateKey' /\ TombstoneFirst'
    BY <2>2 DEF IInv, NoLateKey, Holds, TombstoneFirst
  <2> QED BY <1>0, <2>3, <2>4 DEF IInv
<1>13. CASE Drop
  <2>1. del \in Erasure /\ del.of \in Leavers
    BY <1>0, <1>13 DEF Drop, Idle, Erasure, DeletionTypeOK
  <2>2. /\ UNCHANGED <<registry, master, run, early, revived, proven, swept>> /\ del.phase = "drop"
        /\ del'.of = del.of /\ \A t \in Leavers : zone'[t] \subseteq zone[t]
    BY <1>0, <1>13, <2>1 DEF Drop, keyVars, Erasure, DeletionTypeOK
  <2>3. WhatIsTakenStaysGone' /\ NoLateKey'
    BY <2>2 DEF IInv, WhatIsTakenStaysGone, NoLateKey, Holds, tenant_key
  <2>4. TombstoneFirst'
    BY <2>2 DEF IInv, TombstoneFirst
  <2> QED BY <1>0, <2>3, <2>4 DEF IInv
<1>14. CASE Prove
  <2>1. del.of \in Leavers
    BY <1>0, <1>14 DEF Prove, Idle, Erasure, DeletionTypeOK
  <2> QED BY <1>9, <1>14, <2>1 DEF Prove, jobVars
<1>15. CASE Interrupted \/ LoseMaster \/ run_restore
  <2>1. Harmless /\ UNCHANGED <<proven, swept>> /\ (UNCHANGED del \/ del' = Idle)
    BY <1>15 DEF Interrupted, LoseMaster, run_restore, Harmless, Holds, keyVars, jobVars, erasureVars
  <2> QED BY <1>0, <2>1, HarmlessKeeps
\* A tenant whose tombstone is lost is not spoken of until it is proven again.
<1>16. ASSUME NEW lost \in SUBSET Leavers, RestoreRegistry(lost) PROVE IInv'
  <2>1. /\ \A t \in Leavers : t \notin lost => registry'[t] = registry[t]
        /\ \A t \in Leavers : registry'[t] = "tombstoned" => t \notin lost
        /\ revived' = revived \cup lost /\ UNCHANGED <<master, early, zone, run, swept, proven, del>>
    BY <1>16 DEF RestoreRegistry, jobVars, erasureVars
  <2>2. WhatIsTakenStaysGone'
    BY <2>1 DEF IInv, WhatIsTakenStaysGone, tenant_key
  <2>3. NoLateKey'
    BY <2>1 DEF IInv, NoLateKey, Holds
  <2>4. TombstoneFirst'
    <3>1. CASE del = Idle
      BY <2>1, <3>1 DEF TombstoneFirst, Idle
    <3>2. CASE del \in Erasure
      BY <2>1, <3>2 DEF IInv, TombstoneFirst, Erasure
    <3> QED BY <1>0, <3>1, <3>2 DEF DeletionTypeOK
  <2> QED BY <1>0, <2>2, <2>3, <2>4 DEF IInv
<1>17. CASE UNCHANGED deletionVars
  BY <1>0, <1>17 DEF deletionVars, IInv, WhatIsTakenStaysGone, NoLateKey, TombstoneFirst, Holds, tenant_key
<1> QED BY <1>1, <1>2, <1>3, <1>4, <1>5, <1>6, <1>7, <1>8, <1>10, <1>11, <1>12, <1>13, <1>14, <1>15, <1>16, <1>17
        DEF Next, Deleting

-----------------------------------------------------------------------------
\* The state keeps its types: keys.rs, pkdump-erase and pkdump-ship between them.
THEOREM DeletionTyped == Spec => []DeletionTypeOK
<1>1. Init => DeletionTypeOK
  BY InitTypes
<1>2. DeletionTypeOK /\ [Next]_deletionVars => DeletionTypeOK'
  BY NextTypes
<1> QED BY <1>1, <1>2, PTL DEF Spec

\* What a deletion took stays gone, and what was proven unreachable stays so, for any number of
\* tenants, parts, killed runs, lost keys and restored registries (pkdump-erase/src/lib.rs delete).
THEOREM TakenStaysGone == Spec => []WhatIsTakenStaysGone
<1>1. Init => IInv
  BY InitIInv
<1>2. IInv /\ [Next]_deletionVars => IInv'
  BY NextIInv
<1>3. IInv => WhatIsTakenStaysGone
  BY DEF IInv
<1> QED BY <1>1, <1>2, <1>3, PTL DEF Spec

-----------------------------------------------------------------------------
(* What a clean read-back has read. *)

\* A deletion is at work only on a tenant it was asked for.
OnRequest == del # Idle => del.of \in asked

\* The read-back goes forward only: what is staged of t, and what is due to it, was in
\* the zone and is in what has been read of it since; t is off the list only when what
\* is due to it has been staged, or as skipped.
Forward(t) ==
    LET r == run["holdings"] IN
    /\ staged[t] \subseteq zone[t] /\ last[t] \subseteq staged[t]
    /\ r # Idle =>
         /\ r.due[t] \subseteq zone[t]
         /\ t \notin r.todo \cup r.skipped => r.due[t] \subseteq staged[t]
         /\ r.at = {t} => \A x \in r.read : staged[t] \cup r.due[t] \subseteq x /\ x \subseteq zone[t]

ReadInv == DeletionTypeOK /\ OnRequest /\ \A t \in Tenants \ asked : Forward(t)

\* A step that is none of the read-back's, and removes nothing that is not asked for.
LEMMA ForwardKept ==
  ASSUME ReadInv, UNCHANGED <<staged, last>>, run'["holdings"] = run["holdings"], asked \subseteq asked',
         \A t \in Tenants \ asked : zone[t] \subseteq zone'[t]
  PROVE  \A t \in Tenants \ asked' : Forward(t)'
BY DEF ReadInv, Forward

\* The read-back leaves t: skipped, with nothing due to it, or with all of it staged.
Leaves(t, S, due) ==
    /\ UNCHANGED <<zone, last, asked>> /\ S \subseteq Tenants /\ due \in [Tenants -> SUBSET Parts]
    /\ \A u \in Tenants \ {t} : staged'[u] = staged[u] /\ due[u] = run["holdings"].due[u]
    /\ t \notin asked => /\ staged[t] \subseteq staged'[t] /\ staged'[t] \subseteq zone[t]
                         /\ due[t] \subseteq zone[t]
                         /\ t \in S \/ due[t] \subseteq staged'[t]
    /\ run["holdings"] # Idle /\ run'["holdings"] = Past("holdings", t, S, due)

LEMMA PastForward ==
  ASSUME ReadInv, NEW t \in Tenants, NEW S, NEW due, Leaves(t, S, due)
  PROVE  \A u \in Tenants \ asked' : Forward(u)'
<1> USE DEF Leaves
<1> DEFINE r == run["holdings"]  q == run'["holdings"]
<1>1. r \in Progress /\ run \in [Jobs -> Progress \cup {Idle}]
  BY DEF ReadInv, DeletionTypeOK, Jobs
<1>2. q = Past("holdings", t, S, due)
  OBVIOUS
<1>3. /\ q.todo = r.todo \ {t} /\ q.skipped = r.skipped \cup S /\ q.due = due
      /\ q.at = {} /\ q.read = {}
  BY <1>2 DEF Past
<1> HIDE DEF r, q
<1> SUFFICES ASSUME NEW u \in Tenants \ asked PROVE Forward(u)'
  OBVIOUS
<1>4. Forward(u)
  BY DEF ReadInv
<1>5. /\ staged'[u] \subseteq zone'[u] /\ last'[u] \subseteq staged'[u]
      /\ due[u] \subseteq zone'[u]
  BY <1>4 DEF Forward
<1>6. u \notin q.todo \cup q.skipped => due[u] \subseteq staged'[u]
  <2>1. CASE u = t
    BY <1>3, <2>1
  <2>2. CASE u # t
    BY <1>3, <1>4, <2>2 DEF Forward, r
  <2> QED BY <2>1, <2>2
<1> QED BY <1>3, <1>5, <1>6 DEF Forward, q

LEMMA ReadInit == Init => ReadInv
<1> SUFFICES ASSUME Init PROVE ReadInv
  OBVIOUS
<1>1. DeletionTypeOK
  BY InitTypes
<1>2. /\ del = Idle /\ run["holdings"] = Idle
      /\ \A t \in Tenants : zone[t] = {} /\ staged[t] = {} /\ last[t] = {}
  BY DEF Init, Jobs
<1> QED BY <1>1, <1>2 DEF ReadInv, OnRequest, Forward

LEMMA ReadStep == ReadInv /\ [Next]_deletionVars => ReadInv'
<1> SUFFICES ASSUME ReadInv, [Next]_deletionVars PROVE OnRequest' /\ \A t \in Tenants \ asked' : Forward(t)'
  BY NextTypes DEF ReadInv
<1> DEFINE Goal == OnRequest' /\ \A t \in Tenants \ asked' : Forward(t)'
<1>0. /\ DeletionTypeOK /\ OnRequest /\ run \in [Jobs -> Progress \cup {Idle}]
      /\ "holdings" \in Jobs /\ "ship" \in Jobs
  BY DEF ReadInv, DeletionTypeOK, Jobs
\* The other steps of the read-back's neighbours.
<1>1. ASSUME UNCHANGED <<zone, staged, last, run, asked>>, UNCHANGED del \/ del' = Idle PROVE Goal
  BY <1>1, <1>0, ForwardKept DEF OnRequest
<1>2. ASSUME NEW t \in Tenants, register(t) \/ run_tombstone(t) PROVE Goal
  BY <1>1, <1>2 DEF register, run_tombstone, jobVars, erasureVars
<1>3. ASSUME NEW t \in Tenants, ship_one(t) PROVE Goal
  <2>1. UNCHANGED <<staged, last, asked, del>> /\ run'["holdings"] = run["holdings"]
    BY <1>0, <1>3 DEF ship_one, erasureVars
  <2>2. \A u \in Tenants : zone[u] \subseteq zone'[u]
    BY <1>0, <1>3 DEF ship_one, DeletionTypeOK
  <2> QED BY <1>0, <2>1, <2>2, ForwardKept DEF OnRequest
<1>4. ASSUME NEW t \in Tenants, read(t) PROVE Goal
  <2>1. /\ UNCHANGED <<zone, staged, last, asked, del>>
        /\ run["holdings"] \in Progress /\ run["holdings"].at = {t} /\ run["holdings"] # Idle
    BY <1>0, <1>4, AtWork DEF read, Holds, keyVars, erasureVars
  <2>2. run'["holdings"] = [run["holdings"] EXCEPT !.read = {zone[t]}]
    BY <1>0, <1>4 DEF read
  <2>3. /\ run'["holdings"].at = {t} /\ run'["holdings"].read = {zone[t]}
        /\ run'["holdings"].due = run["holdings"].due /\ run'["holdings"].todo = run["holdings"].todo
        /\ run'["holdings"].skipped = run["holdings"].skipped
    BY <2>1, <2>2 DEF Progress
  <2>4. ASSUME NEW u \in Tenants \ asked PROVE Forward(u)'
    <3>1. Forward(u)
      BY DEF ReadInv
    <3> QED BY <2>1, <2>3, <3>1 DEF Forward
  <2> QED BY <1>0, <2>1, <2>4 DEF OnRequest
<1>5. ASSUME NEW t \in Tenants, materialize_one(t) PROVE Goal
  <2> DEFINE due == run["holdings"].due
  <2>1. /\ UNCHANGED <<zone, last, asked, del>> /\ run["holdings"].at = {t} /\ run["holdings"] # Idle
        /\ run["holdings"].read # {}
        /\ run'["holdings"] = Past("holdings", t, {}, due)
        /\ due \in [Tenants -> SUBSET Parts]
    BY <1>0, <1>5, AtWork DEF materialize_one, Holds, keyVars, erasureVars, DeletionTypeOK
  <2>2. staged'[t] = UNION run["holdings"].read /\ \A u \in Tenants \ {t} : staged'[u] = staged[u]
    BY <1>0, <1>5 DEF materialize_one, DeletionTypeOK
  <2>3. ASSUME t \notin asked
        PROVE  /\ staged[t] \subseteq staged'[t] /\ staged'[t] \subseteq zone[t]
               /\ due[t] \subseteq zone[t] /\ due[t] \subseteq staged'[t]
    <3>1. \A x \in run["holdings"].read : staged[t] \cup due[t] \subseteq x /\ x \subseteq zone[t]
      BY <2>1, <2>3 DEF ReadInv, Forward
    <3> QED BY <2>1, <2>2, <3>1
  <2> HIDE DEF due
  <2>4. \A u \in Tenants \ {t} : staged'[u] = staged[u] /\ due[u] = run["holdings"].due[u]
    BY <2>2 DEF due
  <2>5. Leaves(t, {}, due)
    BY <2>1, <2>3, <2>4 DEF Leaves
  <2>6. \A u \in Tenants \ asked' : Forward(u)'
    BY <2>5, PastForward
  <2> QED BY <1>0, <2>1, <2>6 DEF OnRequest
<1>6. ASSUME NEW j \in Jobs, NEW t \in Tenants, TakeKey(j, t) \/ Unreadable(j, t) PROVE Goal
  <2>1. UNCHANGED <<zone, staged, last, asked, del>>
    BY <1>6 DEF TakeKey, Unreadable, keyVars, erasureVars
  <2>2. CASE j # "holdings"
    <3>1. run'["holdings"] = run["holdings"]
      BY <1>0, <1>6, <2>2 DEF TakeKey, Unreadable
    <3> QED BY <1>0, <2>1, <3>1, ForwardKept DEF OnRequest
  <2>3. CASE j = "holdings"
    <3> DEFINE due == run["holdings"].due
    <3>1. run["holdings"] \in Progress /\ run["holdings"] # Idle /\ due \in [Tenants -> SUBSET Parts]
      BY <1>0, <1>6, <2>3, AtWork DEF TakeKey, Unreadable, Holds, DeletionTypeOK
    <3>2. t \notin asked => staged[t] \subseteq zone[t] /\ due[t] \subseteq zone[t]
      BY <3>1 DEF ReadInv, Forward
    <3>3. CASE run' = [run EXCEPT !["holdings"] = Past("holdings", t, {t}, due)]
      <4> HIDE DEF due
      <4>1. run'["holdings"] = Past("holdings", t, {t}, due)
        BY <1>0, <3>3
      <4>2. \A u \in Tenants : due[u] = run["holdings"].due[u]
        BY DEF due
      <4>3. Leaves(t, {t}, due)
        BY <2>1, <3>1, <3>2, <4>1, <4>2 DEF Leaves
      <4>4. \A u \in Tenants \ asked' : Forward(u)'
        BY <4>3, PastForward
      <4> QED BY <1>0, <2>1, <4>4 DEF OnRequest
    <3>4. CASE run' = [run EXCEPT !["holdings"] = Past("holdings", t, {}, NotOwed("holdings", t))]
      <4> DEFINE none == NotOwed("holdings", t)
      <4>1. /\ none \in [Tenants -> SUBSET Parts] /\ none[t] = {}
            /\ \A u \in Tenants \ {t} : none[u] = run["holdings"].due[u]
        BY <3>1 DEF NotOwed
      <4> HIDE DEF due, none
      <4>2. run'["holdings"] = Past("holdings", t, {}, none)
        BY <1>0, <3>4 DEF none
      <4>3. Leaves(t, {}, none)
        BY <2>1, <3>1, <3>2, <4>1, <4>2 DEF Leaves
      <4>4. \A u \in Tenants \ asked' : Forward(u)'
        BY <4>3, PastForward
      <4> QED BY <1>0, <2>1, <4>4 DEF OnRequest
    <3> DEFINE w == [phase |-> "working", todo |-> run["holdings"].todo, at |-> {t}, read |-> {},
                     skipped |-> run["holdings"].skipped, due |-> run["holdings"].due]
    <3>5. CASE run' = [run EXCEPT !["holdings"] = w]
      <4>1. /\ run'["holdings"].read = {} /\ run'["holdings"].due = run["holdings"].due
            /\ run'["holdings"].todo = run["holdings"].todo
            /\ run'["holdings"].skipped = run["holdings"].skipped
        BY <1>0, <3>5
      <4>2. ASSUME NEW u \in Tenants \ asked PROVE Forward(u)'
        <5>1. Forward(u)
          BY DEF ReadInv
        <5> QED BY <2>1, <3>1, <4>1, <5>1 DEF Forward
      <4> QED BY <1>0, <2>1, <4>2 DEF OnRequest
    <3> QED BY <1>6, <2>3, <3>3, <3>4, <3>5 DEF TakeKey, Unreadable
  <2> QED BY <2>2, <2>3
<1>7. ASSUME NEW j \in Jobs, Begin(j) \/ End(j) \/ Kill(j) PROVE Goal
  <2>1. UNCHANGED <<zone, staged, asked, del>>
    BY <1>7 DEF Begin, End, Kill, keyVars, erasureVars
  <2>2. CASE j # "holdings"
    <3>1. run'["holdings"] = run["holdings"] /\ last' = last
      BY <1>0, <1>7, <2>2 DEF Begin, End, Kill
    <3> QED BY <1>0, <2>1, <3>1, ForwardKept DEF OnRequest
  <2>3. ASSUME j = "holdings", NEW t \in Tenants \ asked PROVE Forward(t)'
    <3>1. Forward(t) /\ run \in [Jobs -> Progress \cup {Idle}]
      BY <1>0 DEF ReadInv
    <3>2. CASE Begin(j)
      <4>1. /\ run'["holdings"].due = zone /\ run'["holdings"].todo = Tenants
            /\ run'["holdings"].read = {} /\ UNCHANGED last
        BY <1>0, <2>3, <3>2 DEF Begin
      <4> QED BY <2>1, <3>1, <4>1 DEF Forward
    \* Nobody was skipped and nobody is left: what is due to each is staged.
    <3>3. CASE End(j)
      <4>1. run'["holdings"] = Idle
        BY <1>0, <2>3, <3>3 DEF End
      <4>2. run["holdings"].todo = {} /\ run["holdings"] # Idle
        BY <1>0, <2>3, <3>3, AtWork DEF End
      <4>3. CASE Outcome(run["holdings"].skipped) = "clean"
        <5>1. run["holdings"].skipped = {} /\ last' = run["holdings"].due
          BY <2>3, <3>3, <4>3 DEF End, Outcome
        <5> QED BY <2>1, <3>1, <4>1, <4>2, <5>1 DEF Forward
      <4>4. CASE Outcome(run["holdings"].skipped) # "clean"
        <5>1. last'[t] = {}
          BY <2>3, <3>3, <4>4 DEF End
        <5> QED BY <2>1, <3>1, <4>1, <5>1 DEF Forward
      <4> QED BY <4>3, <4>4
    <3>4. CASE Kill(j)
      <4>1. run'["holdings"] = Idle /\ UNCHANGED last
        BY <1>0, <2>3, <3>4 DEF Kill
      <4> QED BY <2>1, <3>1, <4>1 DEF Forward
    <3> QED BY <1>7, <3>2, <3>3, <3>4
  <2> QED BY <1>0, <2>1, <2>2, <2>3 DEF OnRequest
<1>8. ASSUME NEW t \in Leavers, do_delete(t) PROVE Goal
  <2>1. /\ UNCHANGED <<zone, staged, last, run>> /\ asked' = asked \cup {t}
        /\ del'.of = t
    BY <1>8 DEF do_delete, keyVars, jobVars
  <2> QED BY <2>1, ForwardKept DEF OnRequest
<1>9. ASSUME NEW t \in Leavers, do_verify(t) PROVE Goal
  BY <1>1, <1>9 DEF do_verify, jobVars
<1>10. ASSUME Tombstone \/ List \/ Drop PROVE Goal
  <2>1. del \in Erasure /\ del.of \in asked /\ del'.of = del.of
    <3>1. del \in Erasure \cup {Idle}
      BY <1>0 DEF DeletionTypeOK
    <3>2. del \in Erasure /\ del # Idle
      BY <1>10, <3>1 DEF Tombstone, List, Drop, Idle, Erasure
    <3>3. del'.of = del.of
      BY <1>10, <3>2 DEF Tombstone, List, Drop, Erasure
    <3> QED BY <1>0, <3>2, <3>3 DEF OnRequest
  <2>2. UNCHANGED <<staged, last, run, asked>> /\ \A t \in Tenants \ asked : zone'[t] = zone[t]
    BY <1>0, <1>10, <2>1 DEF Tombstone, List, Drop, jobVars, keyVars, DeletionTypeOK
  <2> QED BY <2>1, <2>2, ForwardKept DEF OnRequest
<1>11. ASSUME Prove \/ Interrupted PROVE Goal
  BY <1>1, <1>11 DEF Prove, Interrupted, jobVars
<1>12. ASSUME LoseMaster \/ run_restore \/ \E lost \in SUBSET Leavers : RestoreRegistry(lost) PROVE Goal
  BY <1>1, <1>12 DEF LoseMaster, run_restore, RestoreRegistry, jobVars, erasureVars
<1>13. CASE UNCHANGED deletionVars
  BY <1>1, <1>13 DEF deletionVars
<1> QED BY <1>2, <1>3, <1>4, <1>5, <1>6, <1>7, <1>8, <1>9, <1>10, <1>11, <1>12, <1>13
        DEF Next, Deleting

\* A read-back that exits 0 has staged everything that was in the zone when it began, for every
\* tenant it did not find revoked and nobody asked to delete (pkdump-ship.rs, the exit status).
THEOREM CleanReadBackReadAll == Spec => []CleanMeansRead
<1>1. Init => ReadInv
  BY ReadInit
<1>2. ReadInv /\ [Next]_deletionVars => ReadInv'
  BY ReadStep
<1>3. ReadInv => CleanMeansRead
  BY DEF ReadInv, Forward, CleanMeansRead
<1> QED BY <1>1, <1>2, <1>3, PTL DEF Spec
=============================================================================
