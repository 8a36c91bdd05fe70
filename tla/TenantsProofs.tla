--------------------------- MODULE TenantsProofs ----------------------------
(***************************************************************************)
(* What Tenants promises for any number of handles, ids, failures and      *)
(* crashes: a database is under one name with every frame it committed,    *)
(* the Litestream state beside it is its own, a process that opens a       *)
(* collection opens its holder's, unless that one went astray, and none is *)
(* provisioned over another.                                               *)
(*                                                                         *)
(* All of it rests on what a command under way has done to the two names   *)
(* it moves between (Underway), on what an id that was never issued has    *)
(* never named (Issued), on whose each database is (Possession), and on    *)
(* where the database of a row lies while its file does not (Tracked).     *)
(***************************************************************************)
EXTENDS Tenants, TLAPS

Relocating == op.at \in {"ready", "moved", "settled"}

\* The database under name n is h's, and nobody let go of it; or it is astray.
HoldersOwn(n, h) ==
    file[n] \in astray \/ (owner[file[n]] = h /\ file[n] \notin released)

-----------------------------------------------------------------------------
(* The inductive invariant. *)

\* An id never issued names nothing and nobody.
Issued ==
    \A id \in Ids \ minted :
        /\ rows[id] = None /\ file[id] = None /\ ls[id] = None
        /\ owner[id] = None /\ id \notin released /\ id \notin astray
        /\ ~Held(id)
        /\ \A i \in Ids : named[i] # id

\* Whose the database is that a row names.
RowTells(id) ==
    rows[id] # None /\ file[id] # None =>
        /\ named[id] = file[id]
        /\ IF rows[id].state = "Active" THEN HoldersOwn(id, rows[id].handle)
           ELSE file[id] \in released

\* Whose the database under each name is, as its name or its row tells it.
Possession ==
    /\ \A n \in Names : file[n] # None => owner[file[n]] # None
    /\ \A h \in Handles : file[At(h)] # None => HoldersOwn(At(h), h)
    /\ \A h \in Handles : file[Legacy(h)] # None => HoldersOwn(Legacy(h), h)
    /\ \A id \in Ids : RowTells(id) /\ (rows[id] # None => named[id] # None)

\* What a command has yet to move, and that no process serves meanwhile.
Worklist ==
    /\ op.cmd \in Moves <=> op.at \in {"next", "ready", "moved", "settled"}
    /\ op.cmd \in {"adopt"}             => op.todo \subseteq {Legacy(h) : h \in Handles}
    /\ op.cmd \in {"revert", "migrate"} => op.todo \subseteq {At(h) : h \in Handles}
    /\ op.cmd \in {"unmigrate"}         => op.todo \subseteq ActiveIds
    /\ Moving => served = None

\* What create has written, and what purge has removed.
Halfway ==
    /\ op.at = "written" => /\ op.handle \in Handles
                            /\ op.to \in minted /\ file[op.to] = op.to
                            /\ rows[op.to] = None
                            /\ HoldersOwn(op.to, op.handle)
    /\ op.at \in {"unlinked", "cleared"} =>
          /\ op.to \in Ids /\ file[op.to] = None
          /\ rows[op.to] # None /\ rows[op.to].state = "Detached"

\* The two names a relocate is between.
Ends ==
    Relocating =>
        /\ op.from \in op.todo /\ op.handle \in Handles
        /\ op.cmd = "adopt"     => op.from = Legacy(op.handle) /\ op.to = At(op.handle)
        /\ op.cmd = "revert"    => op.from = At(op.handle) /\ op.to = Legacy(op.handle)
        /\ op.cmd = "migrate"   => /\ op.from = At(op.handle)
                                   /\ op.to \in minted /\ rows[op.to] = None
                                   /\ Lookup(op.handle) = {}
        /\ op.cmd = "unmigrate" => /\ op.from \in ActiveIds
                                   /\ rows[op.from].handle = op.handle
                                   /\ op.to = At(op.handle)

\* What lies under them at each stage.
Underway ==
    /\ Relocating => op.from \notin wal /\ op.to \notin wal
    /\ op.at = "ready" => /\ file[op.from] # None /\ HoldersOwn(op.from, op.handle)
                          /\ file[op.to] = None /\ ls[op.to] = None
    /\ op.at \in {"moved", "settled"} =>
          /\ file[op.to] # None /\ HoldersOwn(op.to, op.handle)
          /\ file[op.from] = None
          /\ op.cmd = "unmigrate" => named[op.from] = file[op.to]
    /\ op.at = "moved" =>
          /\ ls[op.to] = None
          /\ ls[op.from] # None =>
                ls[op.from] = [db |-> file[op.to], stem |-> Stem(op.from)]
    /\ op.at = "settled" => /\ ls[op.from] = None
                            /\ ~Carries(op.cmd) => ls[op.to] = None

CommandInv == Worklist /\ Halfway /\ Ends /\ Underway
IInv == /\ TypeOK /\ Issued /\ Possession /\ CommandInv
        /\ OneWholeCopy /\ ReplicaStateIsOwn

-----------------------------------------------------------------------------
(* Names. *)

LEMMA NameFacts ==
  /\ Databases = Names /\ Ids \subseteq Names /\ None \notin Names
  /\ None \notin Handles /\ InTenants \subseteq Names
  /\ \A h \in Handles : At(h) \in Names /\ Legacy(h) \in Names
  /\ \A h \in Handles : At(h) \notin Ids /\ Legacy(h) \notin Ids
  /\ \A g, h \in Handles : At(g) # Legacy(h)
  /\ \A h \in Handles : Stem(At(h)) = h /\ Stem(Legacy(h)) = h
  /\ \A h \in Handles : At(h)[2] = h /\ Legacy(h)[2] = h
  /\ \A g, h \in Handles : (At(g) = At(h) => g = h) /\ (Legacy(g) = Legacy(h) => g = h)
  /\ \A id \in Ids : Stem(id) = id
  /\ \A n \in Names : \/ n \in Ids
                      \/ \E h \in Handles : n = At(h)
                      \/ \E h \in Handles : n = Legacy(h)
BY NoneIsNoName, IdsAreNoHandles
   DEF Databases, Names, InTenants, Stem, At, Legacy

-----------------------------------------------------------------------------
(* Steps that leave names alone. *)

LEMMA WriteNewStep ==
  ASSUME IInv, NEW cmd \in {"create", "serve"}, NEW h \in Handles, WriteNew(cmd, h)
  PROVE  IInv'
<1>1. PICK id \in Unissued :
          /\ op.cmd = "idle" /\ op.at = "-"
          /\ minted' = minted \cup {id}
          /\ file' = [file EXCEPT ![id] = id]
          /\ owner' = [owner EXCEPT ![id] = h]
          /\ op' = [cmd |-> cmd, at |-> "written", handle |-> h, from |-> None,
                    to |-> id, todo |-> {}]
          /\ UNCHANGED <<rows, ls, wal, data, released, named, astray, served, counts>>
  BY DEF WriteNew, Idle
<1>2. /\ id \in Ids /\ id \notin minted /\ id \in Names
      /\ file \in [Names -> Names \cup {None}] /\ owner \in [Names -> Handles \cup {None}]
      /\ rows[id] = None /\ file[id] = None /\ ls[id] = None
      /\ owner[id] = None /\ id \notin released
      /\ \A n \in Names : file[n] # id
      /\ \A i \in Ids : named[i] # id
  BY <1>1, NameFacts DEF IInv, Issued, Unissued, TypeOK, Held
<1>3. TypeOK'
  BY <1>1, <1>2, NameFacts DEF IInv, TypeOK, Moves, counts, Rows
<1>4. Issued'
  BY <1>1, <1>2, NameFacts DEF IInv, Issued, TypeOK, Held
<1>5. Possession'
  BY <1>1, <1>2, NameFacts DEF IInv, Possession, RowTells, HoldersOwn, TypeOK
<1>6. CommandInv'
  BY <1>1, <1>2, NameFacts DEF IInv, CommandInv, Worklist, Halfway, Ends, Underway,
     HoldersOwn, TypeOK, Relocating, Moving, Moves
<1>7. OneWholeCopy'
  BY <1>1, <1>2, NameFacts DEF IInv, OneWholeCopy, TypeOK
<1>8. ReplicaStateIsOwn'
  BY <1>1, <1>2, NameFacts DEF IInv, ReplicaStateIsOwn, TypeOK
<1> QED BY <1>3, <1>4, <1>5, <1>6, <1>7, <1>8 DEF IInv

LEMMA CreateEndsStep ==
  ASSUME IInv, CreateCommits \/ CreateFails
  PROVE  IInv'
<1>1. /\ op.at = "written" /\ op.to \in Ids /\ op.to \in minted /\ op.to \in Names
      /\ op.handle \in Handles /\ file[op.to] = op.to /\ HoldersOwn(op.to, op.handle)
      /\ op.cmd \notin Moves /\ rows \in [Ids -> Rows \cup {None}]
  BY NameFacts DEF CreateCommits, CreateFails, IInv, CommandInv, Worklist, Halfway, TypeOK
<1>2. /\ UNCHANGED <<minted, file, ls, wal, data, owner, released, astray>>
      /\ op' = [cmd |-> "idle", at |-> "-", handle |-> None, from |-> None,
                to |-> None, todo |-> {}]
  BY DEF CreateCommits, CreateFails, Idle, disk, history, counts
<1>3. \/ /\ rows' = [rows EXCEPT ![op.to] = [handle |-> op.handle, state |-> "Active"]]
         /\ named' = [named EXCEPT ![op.to] = file[op.to]]
      \/ UNCHANGED <<rows, named>>
  BY DEF CreateCommits, CreateFails, history
<1>4. served' \in [handle : Handles, name : Names, db : Databases] \cup {None}
  BY <1>1, NameFacts DEF CreateCommits, CreateFails, IInv, TypeOK
<1>5. faults' \in 0 .. MaxFaults /\ crashes' \in 0 .. MaxFaults
  BY BoundsAreNat DEF CreateCommits, CreateFails, IInv, TypeOK, counts
<1>6. rows' \in [Ids -> Rows \cup {None}] /\ named' \in [Ids -> Databases \cup {None}]
  BY <1>1, <1>3, NameFacts DEF Rows, IInv, TypeOK
<1>7. TypeOK'
  BY <1>2, <1>4, <1>5, <1>6 DEF IInv, TypeOK
<1>8. Issued'
  BY <1>1, <1>2, <1>3 DEF IInv, Issued, TypeOK, Held
<1>9. Possession'
  <2>1. \A id \in Ids : \/ rows'[id] = rows[id] /\ named'[id] = named[id]
                        \/ /\ id = op.to /\ named'[id] = file[id]
                           /\ rows'[id] = [handle |-> op.handle, state |-> "Active"]
    BY <1>1, <1>3 DEF IInv, TypeOK
  <2>2. \A id \in Ids : RowTells(id)' /\ (rows'[id] # None => named'[id] # None)
    BY <2>1, <1>1, <1>2, NameFacts DEF IInv, Possession, RowTells, HoldersOwn
  <2> QED BY <2>2, <1>2 DEF IInv, Possession, HoldersOwn
<1>10. CommandInv'
  BY <1>2 DEF CommandInv, Worklist, Halfway, Ends, Underway, Relocating, Moving, Moves
<1>11. OneWholeCopy' /\ ReplicaStateIsOwn'
  BY <1>2 DEF IInv, OneWholeCopy, ReplicaStateIsOwn
<1> QED BY <1>7, <1>8, <1>9, <1>10, <1>11 DEF IInv

LEMMA RenameStep ==
  ASSUME IInv, NEW h \in Handles, NEW g \in Handles, Rename(h, g)
  PROVE  IInv'
<1>1. PICK id \in Lookup(h) :
          /\ rows' = [rows EXCEPT ![id].handle = g]
          /\ owner' = [owner EXCEPT ![named[id]] = g]
          /\ astray' = Strays(id)
  BY DEF Rename
<1>2. /\ id \in Ids /\ id \in Names /\ rows[id] # None /\ rows[id].state = "Active"
      /\ rows \in [Ids -> Rows \cup {None}] /\ rows[id] \in Rows
      /\ file \in [Names -> Names \cup {None}] /\ owner \in [Names -> Handles \cup {None}]
      /\ named[id] # None /\ named[id] \in Names
      /\ file[id] # None => named[id] = file[id]
  BY NameFacts DEF Lookup, ActiveIds, IInv, TypeOK, Possession, RowTells
<1>3. /\ op.cmd = "idle" /\ op.at = "-" /\ op.todo = {}
      /\ UNCHANGED <<minted, file, ls, wal, data, released, named, op, served, faults,
                     crashes>>
  BY DEF Rename, Idle, disk, counts
<1>4. /\ rows'[id] = [handle |-> g, state |-> "Active"]
      /\ \A i \in Ids \ {id} : rows'[i] = rows[i]
      /\ rows' \in [Ids -> Rows \cup {None}]
  BY <1>1, <1>2 DEF Rows
<1>5. /\ owner'[named[id]] = g
      /\ \A d \in Names \ {named[id]} : owner'[d] = owner[d]
      /\ astray \subseteq astray'
      /\ file[id] = None => named[id] \in astray'
      /\ astray' \subseteq Databases
  BY <1>1, <1>2, NameFacts DEF Strays, IInv, TypeOK
<1>6. \A n \in Names \ {id} : \A k : file[n] # None /\ HoldersOwn(n, k) => HoldersOwn(n, k)'
  <2> SUFFICES ASSUME NEW n \in Names \ {id}, NEW k, file[n] # None, HoldersOwn(n, k)
               PROVE  HoldersOwn(n, k)'
    OBVIOUS
  <2>1. CASE file[n] = named[id]
    <3>1. file[id] = None
      BY <2>1, <1>2 DEF IInv, OneWholeCopy
    <3> QED BY <2>1, <3>1, <1>3, <1>5 DEF HoldersOwn
  <2>2. CASE file[n] # named[id]
    BY <2>2, <1>2, <1>3, <1>5 DEF HoldersOwn
  <2> QED BY <2>1, <2>2
<1>7. \A n \in Names : file[n] # None => owner'[file[n]] # None
  BY <1>2, <1>5, NameFacts DEF IInv, Possession
<1>8. TypeOK'
  BY <1>1, <1>2, <1>3, <1>4, <1>5, NameFacts DEF IInv, TypeOK
<1>9. Issued'
  <2>1. id \in minted
    BY <1>2 DEF IInv, Issued
  <2>2. \A i \in Ids \ minted : named[id] # i
    BY <1>2 DEF IInv, Issued
  <2> QED BY <2>1, <2>2, <1>1, <1>2, <1>3, <1>4, <1>5, NameFacts
         DEF IInv, Issued, Held, Strays
<1>10. Possession'
  <2>1. \A k \in Handles : At(k) # id /\ Legacy(k) # id
    BY <1>2, NameFacts
  <2>2. file[id] # None => HoldersOwn(id, g)'
    BY <1>2, <1>3, <1>5 DEF IInv, Possession, RowTells, HoldersOwn
  <2>3. \A k \in Handles : /\ file[At(k)] # None => HoldersOwn(At(k), k)'
                           /\ file[Legacy(k)] # None => HoldersOwn(Legacy(k), k)'
    BY <2>1, <1>6, NameFacts DEF IInv, Possession
  <2>4. \A i \in Ids \ {id} : RowTells(i)'
    <3>1. \A i \in Ids \ {id} : i \in Names
      BY NameFacts
    <3> QED BY <3>1, <1>3, <1>4, <1>6 DEF IInv, Possession, RowTells
  <2>5. RowTells(id)'
    BY <2>2, <1>2, <1>3, <1>4 DEF RowTells
  <2> QED BY <2>3, <2>4, <2>5, <1>2, <1>3, <1>4, <1>7 DEF IInv, Possession
<1>11. CommandInv'
  BY <1>3 DEF CommandInv, Worklist, Halfway, Ends, Underway, Relocating, Moving, Moves
<1>12. OneWholeCopy' /\ ReplicaStateIsOwn'
  BY <1>3 DEF IInv, OneWholeCopy, ReplicaStateIsOwn
<1> QED BY <1>8, <1>9, <1>10, <1>11, <1>12 DEF IInv

LEMMA DetachStep ==
  ASSUME IInv, NEW h \in Handles, Detach(h)
  PROVE  IInv'
<1>1. PICK id \in Lookup(h) :
          /\ rows' = [rows EXCEPT ![id].state = "Detached"]
          /\ released' = released \cup {named[id]}
          /\ astray' = Strays(id)
  BY DEF Detach
<1>2. /\ id \in Ids /\ id \in Names /\ rows[id] # None
      /\ rows \in [Ids -> Rows \cup {None}] /\ rows[id] \in Rows
      /\ file \in [Names -> Names \cup {None}]
      /\ named[id] # None /\ named[id] \in Names
      /\ file[id] # None => named[id] = file[id]
  BY NameFacts DEF Lookup, ActiveIds, IInv, TypeOK, Possession, RowTells
<1>3. /\ op.cmd = "idle" /\ op.at = "-" /\ op.todo = {}
      /\ UNCHANGED <<minted, file, ls, wal, data, owner, named, op, served, faults,
                     crashes>>
  BY DEF Detach, Idle, disk, counts
<1>4. /\ rows'[id].state = "Detached"
      /\ \A i \in Ids \ {id} : rows'[i] = rows[i]
      /\ rows' \in [Ids -> Rows \cup {None}] /\ rows'[id] # None
  BY <1>1, <1>2, NoneIsNoRow DEF Rows
<1>5. /\ astray \subseteq astray' /\ released \subseteq released'
      /\ file[id] = None => named[id] \in astray'
      /\ astray' \subseteq Databases
  BY <1>1, <1>2, NameFacts DEF Strays, IInv, TypeOK
<1>6. \A n \in Names \ {id} : \A k : file[n] # None /\ HoldersOwn(n, k) => HoldersOwn(n, k)'
  <2> SUFFICES ASSUME NEW n \in Names \ {id}, NEW k, file[n] # None, HoldersOwn(n, k)
               PROVE  HoldersOwn(n, k)'
    OBVIOUS
  <2>1. CASE file[n] = named[id]
    <3>1. file[id] = None
      BY <2>1, <1>2 DEF IInv, OneWholeCopy
    <3> QED BY <2>1, <3>1, <1>3, <1>5 DEF HoldersOwn
  <2>2. CASE file[n] # named[id]
    BY <2>2, <1>1, <1>3, <1>5 DEF HoldersOwn
  <2> QED BY <2>1, <2>2
<1>7. TypeOK'
  BY <1>1, <1>2, <1>3, <1>4, <1>5, NameFacts DEF IInv, TypeOK
<1>8. Issued'
  <2>1. id \in minted
    BY <1>2 DEF IInv, Issued
  <2>2. \A i \in Ids \ minted : named[id] # i
    BY <1>2 DEF IInv, Issued
  <2> QED BY <2>1, <2>2, <1>1, <1>2, <1>3, <1>4, NameFacts DEF IInv, Issued, Held, Strays
<1>9. Possession'
  <2>1. \A k \in Handles : At(k) # id /\ Legacy(k) # id
    BY <1>2, NameFacts
  <2>2. \A k \in Handles : /\ file[At(k)] # None => HoldersOwn(At(k), k)'
                           /\ file[Legacy(k)] # None => HoldersOwn(Legacy(k), k)'
    BY <2>1, <1>6, NameFacts DEF IInv, Possession
  <2>3. \A i \in Ids \ {id} : RowTells(i)'
    <3>1. \A i \in Ids \ {id} : i \in Names
      BY NameFacts
    <3> QED BY <3>1, <1>3, <1>4, <1>5, <1>6 DEF IInv, Possession, RowTells
  <2>4. RowTells(id)'
    BY <1>1, <1>2, <1>3, <1>4 DEF RowTells
  <2> QED BY <2>2, <2>3, <2>4, <1>2, <1>3, <1>4 DEF IInv, Possession
<1>10. CommandInv'
  BY <1>3 DEF CommandInv, Worklist, Halfway, Ends, Underway, Relocating, Moving, Moves
<1>11. OneWholeCopy' /\ ReplicaStateIsOwn'
  BY <1>3 DEF IInv, OneWholeCopy, ReplicaStateIsOwn
<1> QED BY <1>7, <1>8, <1>9, <1>10, <1>11 DEF IInv

LEMMA PurgeFileStep ==
  ASSUME IInv, NEW id \in Ids, PurgeFile(id)
  PROVE  IInv'
<1>1. /\ op.cmd = "idle" /\ op.at = "-"
      /\ file' = [file EXCEPT ![id] = None] /\ wal' = wal \ {id}
      /\ op' = [cmd |-> "purge", at |-> "unlinked", handle |-> None, from |-> None,
                to |-> id, todo |-> {}]
      /\ rows[id] # None /\ rows[id].state = "Detached"
      /\ UNCHANGED <<rows, minted, ls, data, owner, released, named, astray, served,
                     faults, crashes>>
  BY DEF PurgeFile, PurgeMay, Idle, history, counts
<1>2. id \in Names /\ file \in [Names -> Names \cup {None}]
  BY NameFacts DEF IInv, TypeOK
<1>3. TypeOK'
  BY <1>1, <1>2, NameFacts DEF IInv, TypeOK, Moves
<1>4. Issued' /\ Possession'
  BY <1>1, <1>2, NameFacts DEF IInv, Issued, Possession, RowTells, HoldersOwn, Held
<1>5. CommandInv'
  BY <1>1, <1>2 DEF CommandInv, Worklist, Halfway, Ends, Underway, Relocating, Moving, Moves
<1>6. OneWholeCopy' /\ ReplicaStateIsOwn'
  BY <1>1, <1>2 DEF IInv, OneWholeCopy, ReplicaStateIsOwn
<1> QED BY <1>3, <1>4, <1>5, <1>6 DEF IInv

LEMMA PurgeStep ==
  ASSUME IInv, PurgeState \/ PurgeRow
  PROVE  IInv'
<1>1. /\ op.at \in {"unlinked", "cleared"} /\ op.cmd \notin Moves
      /\ op.to \in Ids /\ op.to \in Names /\ file[op.to] = None
      /\ op.at # "written" /\ ~Relocating /\ op.at # "next"
  BY NameFacts DEF PurgeState, PurgeRow, IInv, CommandInv, Worklist, Halfway, Relocating
<1>2. /\ UNCHANGED <<minted, file, wal, data, owner, released, astray, served, crashes>>
      /\ faults' \in 0 .. MaxFaults
  BY BoundsAreNat DEF PurgeState, PurgeRow, disk, history, counts, IInv, TypeOK
<1>3. /\ ls' = ls \/ ls' = [ls EXCEPT ![op.to] = None]
      /\ \/ /\ rows' = [rows EXCEPT ![op.to] = None]
            /\ named' = [named EXCEPT ![op.to] = None]
            /\ op'.at = "-"
         \/ UNCHANGED <<rows, named>>
  BY DEF PurgeState, PurgeRow, disk, history, Idle
<1>4. \/ op' = [op EXCEPT !.at = "cleared"]
      \/ op' = [cmd |-> "idle", at |-> "-", handle |-> None, from |-> None,
                to |-> None, todo |-> {}]
  BY DEF PurgeState, PurgeRow, Idle
<1>5. TypeOK'
  BY <1>1, <1>2, <1>3, <1>4, NameFacts DEF IInv, TypeOK
<1>6. Issued' /\ Possession'
  BY <1>1, <1>2, <1>3, NameFacts DEF IInv, Issued, Possession, RowTells, HoldersOwn, Held, TypeOK
<1>7. /\ op'.cmd \notin Moves /\ op'.at \in {"cleared", "-"}
      /\ op'.at = "cleared" => op'.to = op.to
  BY <1>1, <1>4 DEF Moves, IInv, TypeOK
<1>8. CommandInv'
  BY <1>1, <1>2, <1>3, <1>7 DEF IInv, CommandInv, Worklist, Halfway, Ends, Underway, Relocating,
     Moving, Moves
<1>9. OneWholeCopy' /\ ReplicaStateIsOwn'
  BY <1>1, <1>2, <1>3 DEF IInv, OneWholeCopy, ReplicaStateIsOwn, TypeOK
<1> QED BY <1>5, <1>6, <1>8, <1>9 DEF IInv

-----------------------------------------------------------------------------
(* Steps of a process that serves, of the sidecar, and crashes. *)

\* The command ends where it is and disk and registry stay as they are.
LEMMA EndStep ==
  ASSUME IInv, op' = Idle, UNCHANGED <<rows, minted, disk, history>>,
         served' \in {served, None},
         faults' \in 0 .. MaxFaults, crashes' \in 0 .. MaxFaults
  PROVE  IInv'
<1>1. /\ op' = [cmd |-> "idle", at |-> "-", handle |-> None, from |-> None,
                to |-> None, todo |-> {}]
      /\ UNCHANGED <<rows, minted, file, ls, wal, data, owner, released, named, astray>>
  BY DEF Idle, disk, history
<1>2. TypeOK'
  BY <1>1 DEF IInv, TypeOK
<1>3. Issued' /\ Possession'
  BY <1>1 DEF IInv, Issued, Possession, RowTells, HoldersOwn, Held
<1>4. CommandInv'
  BY <1>1 DEF CommandInv, Worklist, Halfway, Ends, Underway, Relocating, Moving, Moves
<1>5. OneWholeCopy' /\ ReplicaStateIsOwn'
  BY <1>1 DEF IInv, OneWholeCopy, ReplicaStateIsOwn
<1> QED BY <1>2, <1>3, <1>4, <1>5 DEF IInv

ServesSome == \E h \in Handles : Serve(h)

LEMMA ServingStep ==
  ASSUME IInv, ServesSome \/ Commit \/ Close
  PROVE  IInv'
<1>1. /\ UNCHANGED <<rows, minted, file, ls, owner, released, named, astray, op, faults, crashes>>
      /\ data \in SUBSET Databases => data' \in SUBSET Databases
  <2>1. CASE ServesSome
    BY <2>1 DEF ServesSome, Serve, disk, history, counts
  <2>2. CASE Commit
    BY <2>2 DEF Commit, counts, IInv, TypeOK
  <2>3. CASE Close
    BY <2>3 DEF Close, history, counts
  <2> QED BY <2>1, <2>2, <2>3
<1>2. \A n \in wal' : n \in wal \/ (served # None /\ n = served.name)
  BY DEF ServesSome, Serve, Commit, Close, disk
<1>3. /\ wal' \subseteq Names
      /\ \A n \in wal' : file[n] # None
  <2>1. CASE Commit
    <3>1. /\ served.name \in Names /\ served.db \in Names /\ file[served.name] = served.db
          /\ wal' = wal \cup {served.name}
      BY <2>1, NameFacts DEF Commit, IInv, TypeOK
    <3> QED BY <3>1, NameFacts DEF IInv, TypeOK, OneWholeCopy
  <2>2. CASE ServesSome \/ Close
    BY <2>2 DEF ServesSome, Serve, Close, disk, IInv, TypeOK, OneWholeCopy
  <2> QED BY <2>1, <2>2
<1>4. served' \in [handle : Handles, name : Names, db : Databases] \cup {None}
  <2>1. CASE ServesSome
    <3>1. PICK h \in Handles : Serve(h)
      BY <2>1 DEF ServesSome
    <3>2. PICK n \in Resolved(h) : served' = [handle |-> h, name |-> n, db |-> file[n]]
      BY <3>1 DEF Serve
    <3>3. n \in Names /\ file[n] \in Databases
      BY NameFacts DEF Resolved, Lookup, ActiveIds, IInv, TypeOK
    <3> QED BY <3>2, <3>3
  <2>2. CASE Commit \/ Close
    BY <2>2 DEF Commit, Close, IInv, TypeOK
  <2> QED BY <2>1, <2>2
<1>5. Moving => UNCHANGED <<served, wal>>
  <2>1. Moving => served = None
    BY DEF IInv, CommandInv, Worklist
  <2> QED BY <2>1 DEF ServesSome, Serve, Commit, Close
<1>6. TypeOK'
  BY <1>1, <1>3, <1>4 DEF IInv, TypeOK
<1>7. Issued' /\ Possession'
  BY <1>1 DEF IInv, Issued, Possession, RowTells, HoldersOwn, Held
<1>8. CommandInv'
  BY <1>1, <1>5 DEF IInv, CommandInv, Worklist, Halfway, Ends, Underway, Relocating,
     Moving, HoldersOwn, ActiveIds, Lookup, Moves
<1>9. OneWholeCopy' /\ ReplicaStateIsOwn'
  BY <1>1, <1>3 DEF IInv, OneWholeCopy, ReplicaStateIsOwn
<1> QED BY <1>6, <1>7, <1>8, <1>9 DEF IInv

\* A clone writes the rows of a database that stays where it is.
ClonesSome == \E h, g \in Handles, replace \in BOOLEAN : Clone(h, g, replace)

LEMMA CloneFacts ==
  ASSUME IInv, ClonesSome
  PROVE  /\ UNCHANGED <<rows, minted, file, ls, owner, released, named, astray, op, served, faults, crashes>>
         /\ op = Idle
         /\ \E dst \in ActiveIds : /\ dst \in Names /\ file[dst] \in Databases
                                  /\ data' \in {data \cup {file[dst]}, data \ {file[dst]}}
                                  /\ wal' \in {wal \cup {dst}, wal \ {dst}}
<1>1. PICK h \in Handles, g \in Handles, replace \in BOOLEAN : Clone(h, g, replace)
  BY DEF ClonesSome
<1>2. PICK dst \in Lookup(g) :
         /\ file[dst] # None
         /\ data' \in {data \cup {file[dst]}, data \ {file[dst]}}
         /\ wal' \in {wal \cup {dst}, wal \ {dst}}
  BY <1>1 DEF Clone
<1>3. dst \in ActiveIds /\ dst \in Names /\ file[dst] \in Databases
  BY <1>2, NameFacts DEF Lookup, ActiveIds, IInv, TypeOK
<1>4. UNCHANGED <<rows, minted, file, ls, owner, released, named, astray, op, served, faults, crashes>> /\ op = Idle
  BY <1>1 DEF Clone, counts
<1> QED BY <1>2, <1>3, <1>4

LEMMA CloneStep ==
  ASSUME IInv, ClonesSome
  PROVE  IInv'
<1>1. UNCHANGED <<rows, minted, file, ls, owner, released, named, astray, op, served, faults, crashes>>
  BY CloneFacts
<1>2. op = Idle
  BY CloneFacts
<1>3. /\ data' \subseteq Databases /\ wal' \subseteq Names
      /\ \A n \in wal' : file[n] # None
  BY CloneFacts, NameFacts DEF IInv, TypeOK, OneWholeCopy
<1>4. TypeOK'
  BY <1>1, <1>3 DEF IInv, TypeOK
<1>5. Issued' /\ Possession'
  BY <1>1 DEF IInv, Issued, Possession, RowTells, HoldersOwn, Held
<1>6. CommandInv'
  BY <1>1, <1>2 DEF IInv, CommandInv, Worklist, Halfway, Ends, Underway, Relocating,
     Moving, HoldersOwn, ActiveIds, Lookup, Moves, Idle
<1>7. OneWholeCopy' /\ ReplicaStateIsOwn'
  BY <1>1, <1>3 DEF IInv, OneWholeCopy, ReplicaStateIsOwn
<1> QED BY <1>4, <1>5, <1>6, <1>7 DEF IInv

LEMMA ReplicateStep ==
  ASSUME IInv, Replicate
  PROVE  IInv'
<1>1. /\ ~Moving
      /\ ls' = [n \in Names |-> IF file[n] # None /\ ls[n] = None
                                THEN [db |-> file[n], stem |-> Stem(n)] ELSE ls[n]]
      /\ UNCHANGED <<rows, minted, file, wal, data, owner, released, named, astray, op, served,
                     faults, crashes>>
  BY DEF Replicate, history, counts
<1>2. \A n \in Names : Stem(n) \in Ids \cup Handles
  BY NameFacts
<1>3. ls' \in [Names -> [db : Databases, stem : Ids \cup Handles] \cup {None}]
  BY <1>1, <1>2 DEF IInv, TypeOK
<1>4. TypeOK'
  BY <1>1, <1>3 DEF IInv, TypeOK
<1>5. Issued' /\ Possession'
  BY <1>1, NameFacts DEF IInv, Issued, Possession, RowTells, HoldersOwn, Held
<1>6. CommandInv'
  BY <1>1 DEF IInv, CommandInv, Worklist, Halfway, Ends, Underway, Relocating, Moving,
     HoldersOwn, ActiveIds, Lookup
<1>7. OneWholeCopy' /\ ReplicaStateIsOwn'
  BY <1>1 DEF IInv, OneWholeCopy, ReplicaStateIsOwn
<1> QED BY <1>4, <1>5, <1>6, <1>7 DEF IInv

-----------------------------------------------------------------------------
(* Steps of a relocate. *)

LEMMA StartMoveStep ==
  ASSUME IInv, NEW cmd \in Moves, NEW h \in Handles, StartMove(cmd, h)
  PROVE  IInv'
<1>1. /\ op.cmd = "idle" /\ served = None
      /\ op' = [cmd |-> cmd, at |-> "next", handle |-> None, from |-> None,
                to |-> None, todo |-> Selected(cmd, h)]
      /\ UNCHANGED <<rows, minted, file, ls, wal, data, owner, released, named, astray, served,
                     faults, crashes>>
  BY DEF StartMove, Idle, disk, history, counts
<1>2. /\ cmd = "adopt" => Selected(cmd, h) \subseteq {Legacy(g) : g \in Handles}
      /\ cmd \in {"revert", "migrate"} => Selected(cmd, h) \subseteq {At(g) : g \in Handles}
      /\ cmd = "unmigrate" => Selected(cmd, h) = ActiveIds
  BY DEF Selected
<1>3. Selected(cmd, h) \in SUBSET Names
  BY <1>2, NameFacts DEF Moves, ActiveIds
<1>4. TypeOK'
  BY <1>1, <1>3 DEF IInv, TypeOK
<1>5. Issued' /\ Possession'
  BY <1>1 DEF IInv, Issued, Possession, RowTells, HoldersOwn, Held
<1>6. CommandInv'
  BY <1>1, <1>2 DEF CommandInv, Worklist, Halfway, Ends, Underway, Relocating, Moving,
     ActiveIds
<1>7. OneWholeCopy' /\ ReplicaStateIsOwn'
  BY <1>1 DEF IInv, OneWholeCopy, ReplicaStateIsOwn
<1> QED BY <1>4, <1>5, <1>6, <1>7 DEF IInv

LEMMA TakeNextStep ==
  ASSUME IInv, NEW from \in Names, NEW to \in Names, TakeNext(from, to)
  PROVE  IInv'
<1> DEFINE h == IF op.cmd = "unmigrate" THEN rows[from].handle ELSE from[2]
<1>1. /\ op.at = "next" /\ from \in op.todo /\ op.cmd \in Moves
      /\ file[from] # None /\ file[to] = None /\ ls[to] = None
      /\ wal' = wal \ {from}
      /\ minted' = IF op.cmd = "migrate" THEN minted \cup {to} ELSE minted
      /\ op' = [op EXCEPT !.at = "ready", !.from = from, !.to = to, !.handle = h]
      /\ UNCHANGED <<rows, file, ls, data, owner, released, named, astray, served, faults, crashes>>
  BY DEF TakeNext, MayMove, history, counts, IInv, CommandInv, Worklist
<1>2. /\ op'.cmd = op.cmd /\ op'.at = "ready" /\ op'.todo = op.todo
      /\ op'.from = from /\ op'.to = to /\ op'.handle = h
      /\ op \in [cmd : Moves \cup {"idle", "create", "serve", "purge"},
                 at : {"-", "written", "unlinked", "cleared", "next", "ready",
                       "moved", "settled"},
                 handle : Handles \cup {None}, from : Names \cup {None},
                 to : Names \cup {None}, todo : SUBSET Names]
  BY <1>1 DEF IInv, TypeOK
<1>3. /\ op.cmd = "adopt"     => h \in Handles /\ from = Legacy(h) /\ to = At(h)
      /\ op.cmd = "revert"    => h \in Handles /\ from = At(h) /\ to = Legacy(h)
      /\ op.cmd = "migrate"   => /\ h \in Handles /\ from = At(h) /\ to \in Ids \ minted
                                 /\ Lookup(h) = {}
      /\ op.cmd = "unmigrate" => /\ h \in Handles /\ from \in ActiveIds
                                 /\ rows[from].handle = h /\ to = At(h)
  <2>1. to \in Targets(op.cmd, from)
    BY DEF TakeNext
  <2>2. CASE op.cmd = "adopt"
    BY <2>1, <2>2, <1>1, NameFacts DEF Targets, IInv, CommandInv, Worklist
  <2>3. CASE op.cmd = "revert"
    BY <2>1, <2>3, <1>1, NameFacts DEF Targets, IInv, CommandInv, Worklist
  <2>4. CASE op.cmd = "migrate"
    BY <2>1, <2>4, <1>1, NameFacts DEF Targets, Unissued, IInv, CommandInv, Worklist
  <2>5. CASE op.cmd = "unmigrate"
    <3>1. from \in ActiveIds
      BY <2>5, <1>1 DEF IInv, CommandInv, Worklist
    <3>2. rows[from] \in Rows
      BY <3>1 DEF ActiveIds, IInv, TypeOK
    <3> QED BY <3>1, <3>2, <2>1, <2>5 DEF Targets, Rows
  <2> QED BY <2>2, <2>3, <2>4, <2>5
<1>4. h \in Handles /\ HoldersOwn(from, h)
  <2>1. op.cmd = "unmigrate" => RowTells(from) /\ rows[from] # None /\ rows[from].state = "Active"
    BY <1>3 DEF IInv, Possession, ActiveIds
  <2> QED BY <2>1, <1>1, <1>3 DEF IInv, Possession, RowTells, Moves
<1>5. from \notin wal' /\ to \notin wal'
  BY <1>1 DEF IInv, OneWholeCopy
<1>6. TypeOK'
  <2>1. minted' \subseteq Ids
    BY <1>1, <1>3 DEF IInv, TypeOK
  <2>2. op' \in [cmd : Moves \cup {"idle", "create", "serve", "purge"},
                 at : {"-", "written", "unlinked", "cleared", "next", "ready",
                       "moved", "settled"},
                 handle : Handles \cup {None}, from : Names \cup {None},
                 to : Names \cup {None}, todo : SUBSET Names]
    BY <1>1, <1>2, <1>4
  <2> QED BY <2>1, <2>2, <1>1 DEF IInv, TypeOK
<1>7. Issued' /\ Possession'
  BY <1>1 DEF IInv, Issued, Possession, RowTells, HoldersOwn, Held
<1>8. Worklist' /\ Halfway'
  BY <1>1, <1>2 DEF IInv, CommandInv, Worklist, Halfway, Moving, ActiveIds
<1>9. Ends'
  <2>1. op.cmd = "migrate" => rows[to] = None /\ to \in minted'
    BY <1>1, <1>3 DEF IInv, Issued
  <2> QED BY <2>1, <1>1, <1>2, <1>3, <1>4 DEF Ends, ActiveIds, Lookup
<1>10. Underway'
  BY <1>1, <1>2, <1>4, <1>5 DEF Underway, Relocating, HoldersOwn
<1>11. OneWholeCopy' /\ ReplicaStateIsOwn'
  BY <1>1 DEF IInv, OneWholeCopy, ReplicaStateIsOwn
<1> QED BY <1>6, <1>7, <1>8, <1>9, <1>10, <1>11 DEF IInv, CommandInv

\* What holds of the two names while a relocate is between them.
LEMMA EndFacts ==
  ASSUME IInv, Relocating
  PROVE  /\ op.cmd \in Moves /\ Moving /\ served = None
         /\ op.from \in Names /\ op.to \in Names /\ op.from # op.to
         /\ op.handle \in Handles /\ op.from \in op.todo
         /\ op.from \notin wal /\ op.to \notin wal
         /\ file[op.from] # None <=> op.at = "ready"
         /\ file[op.to] # None <=> op.at # "ready"
         /\ file \in [Names -> Names \cup {None}]
         /\ op \in [cmd : Moves \cup {"idle", "create", "serve", "purge"},
                    at : {"-", "written", "unlinked", "cleared", "next", "ready",
                          "moved", "settled"},
                    handle : Handles \cup {None}, from : Names \cup {None},
                    to : Names \cup {None}, todo : SUBSET Names]
<1>1. /\ op \in [cmd : Moves \cup {"idle", "create", "serve", "purge"},
                 at : {"-", "written", "unlinked", "cleared", "next", "ready",
                       "moved", "settled"},
                 handle : Handles \cup {None}, from : Names \cup {None},
                 to : Names \cup {None}, todo : SUBSET Names]
      /\ file \in [Names -> Names \cup {None}]
  BY NameFacts DEF IInv, TypeOK
<1>2. op.cmd \in Moves /\ Moving /\ served = None
  BY DEF IInv, CommandInv, Worklist, Relocating, Moving
<1>3. /\ op.handle \in Handles /\ op.from \in op.todo
      /\ op.from \in Names /\ op.to \in Names /\ op.from # op.to
  <2>1. op.handle \in Handles /\ op.from \in op.todo
    BY DEF IInv, CommandInv, Ends
  <2>2. op.cmd \in {"adopt", "revert"} => op.to \in Names /\ op.from # op.to
    BY <2>1, NameFacts DEF IInv, CommandInv, Ends
  <2>3. op.cmd \in {"migrate", "unmigrate"} => op.to \in Names /\ op.from # op.to
    BY <2>1, NameFacts DEF IInv, CommandInv, Ends, TypeOK, ActiveIds
  <2>4. op.from \in Names
    BY <2>1, <1>1
  <2> QED BY <2>1, <2>2, <2>3, <2>4, <1>2 DEF Moves
<1> QED BY <1>1, <1>2, <1>3 DEF IInv, CommandInv, Underway, Relocating

LEMMA RenameFileStep ==
  ASSUME IInv, RenameFile
  PROVE  IInv'
<1>1. /\ op.at = "ready" /\ Relocating
      /\ file' = [file EXCEPT ![op.to] = file[op.from], ![op.from] = None]
      /\ op' = [op EXCEPT !.at = "moved"]
      /\ UNCHANGED <<rows, minted, ls, wal, data, owner, released, named, astray, served, faults, crashes>>
  BY DEF RenameFile, Relocating, history, counts
<1>2. /\ op'.cmd = op.cmd /\ op'.at = "moved" /\ op'.todo = op.todo
      /\ op'.from = op.from /\ op'.to = op.to /\ op'.handle = op.handle
      /\ Relocating'
  BY <1>1, EndFacts DEF Relocating
<1>3. /\ file'[op.to] = file[op.from] /\ file'[op.from] = None
      /\ \A n \in Names \ {op.from, op.to} : file'[n] = file[n]
      /\ file[op.from] # None /\ file[op.to] = None
  BY <1>1, EndFacts
<1>4. TypeOK'
  BY <1>1, EndFacts, NameFacts DEF IInv, TypeOK
<1>5. Issued'
  <2>1. op.to \in Ids => op.to \in minted
    BY <1>1, EndFacts, NameFacts DEF IInv, CommandInv, Ends, Moves
  <2> QED BY <2>1, <1>1, <1>3, EndFacts, NameFacts DEF IInv, Issued, Held
<1>6. Possession'
  <2>1. HoldersOwn(op.from, op.handle)
    BY <1>1 DEF IInv, CommandInv, Underway
  <2>2. HoldersOwn(op.to, op.handle)'
    BY <2>1, <1>1, <1>3 DEF HoldersOwn
  <2>3. \A n \in Names : file'[n] # None => owner'[file'[n]] # None
    BY <1>1, <1>3, EndFacts DEF IInv, Possession
  <2>4. minted \subseteq Ids
    BY DEF IInv, TypeOK
  <2>5. \A h \in Handles : /\ op.to = At(h) => h = op.handle
                           /\ op.to = Legacy(h) => h = op.handle
    BY <2>4, <1>1, EndFacts, NameFacts DEF IInv, CommandInv, Ends, Moves
  <2>6. UNCHANGED <<owner, released, named, astray, rows>>
    BY <1>1
  <2>7. \A h \in Handles : /\ file'[At(h)] # None => HoldersOwn(At(h), h)'
                           /\ file'[Legacy(h)] # None => HoldersOwn(Legacy(h), h)'
    <3> SUFFICES ASSUME NEW h \in Handles, NEW n \in {At(h), Legacy(h)}, file'[n] # None
                 PROVE  HoldersOwn(n, h)'
      OBVIOUS
    <3>1. n \in Names /\ (file[n] # None => HoldersOwn(n, h))
      BY NameFacts DEF IInv, Possession
    <3>2. CASE n = op.to
      BY <3>2, <2>2, <2>5, <1>2
    <3>3. CASE n # op.to
      <4>1. file'[n] = file[n]
        BY <3>1, <3>3, <1>3
      <4> QED BY <4>1, <3>1, <2>6 DEF HoldersOwn
    <3> QED BY <3>2, <3>3
  <2>8. op.to \in Ids => rows[op.to] = None
    BY <1>1, EndFacts, NameFacts DEF IInv, CommandInv, Ends, Moves
  <2>9. \A id \in Ids \ {op.to, op.from} : RowTells(id)'
    <3>1. \A id \in Ids \ {op.to, op.from} : file'[id] = file[id]
      BY <1>3, NameFacts
    <3> QED BY <3>1, <2>6 DEF IInv, Possession, RowTells, HoldersOwn
  <2>10. \A id \in Ids : id \in {op.to, op.from} => RowTells(id)'
    BY <2>8, <1>1, <1>3 DEF RowTells
  <2> QED BY <2>3, <2>6, <2>7, <2>9, <2>10 DEF IInv, Possession
<1>7. Worklist' /\ Halfway' /\ Ends'
  BY <1>1, <1>2 DEF IInv, CommandInv, Worklist, Halfway, Ends, Relocating, Moving, ActiveIds, Lookup
<1>8. Underway'
  <2>1. /\ op.from \notin wal /\ op.to \notin wal /\ HoldersOwn(op.from, op.handle)
        /\ ls[op.to] = None
    BY <1>1 DEF IInv, CommandInv, Underway
  <2>2. ls[op.from] # None => ls[op.from] = [db |-> file'[op.to], stem |-> Stem(op.from)]
    BY <1>3, EndFacts, <1>1 DEF IInv, ReplicaStateIsOwn
  <2>3. op.cmd = "unmigrate" => named[op.from] = file[op.from]
    BY <1>1, <1>3 DEF IInv, CommandInv, Ends, ActiveIds, Possession, RowTells
  <2> QED BY <2>1, <2>2, <2>3, <1>1, <1>2, <1>3 DEF Underway, HoldersOwn
<1>9. OneWholeCopy'
  <2>1. op.from \notin wal /\ wal \subseteq Names
    BY <1>1, EndFacts DEF IInv, TypeOK
  <2> QED BY <2>1, <1>1, <1>3, EndFacts DEF IInv, OneWholeCopy
<1>10. ReplicaStateIsOwn'
  <2>1. ls[op.to] = None
    BY <1>1 DEF IInv, CommandInv, Underway
  <2> QED BY <2>1, <1>1, <1>3 DEF IInv, ReplicaStateIsOwn
<1> QED BY <1>4, <1>5, <1>6, <1>7, <1>8, <1>9, <1>10 DEF IInv, CommandInv

LEMMA SettleStateStep ==
  ASSUME IInv, SettleState
  PROVE  IInv'
<1>1. /\ op.at = "moved" /\ Relocating /\ ls' = MovedState
      /\ wal' = wal \ {op.from} /\ op' = [op EXCEPT !.at = "settled"]
      /\ UNCHANGED <<rows, minted, file, data, owner, released, named, astray, served, faults, crashes>>
  BY DEF SettleState, Relocating, history, counts
<1>2. /\ op'.cmd = op.cmd /\ op'.at = "settled" /\ op'.todo = op.todo
      /\ op'.from = op.from /\ op'.to = op.to /\ op'.handle = op.handle
      /\ Relocating'
  BY <1>1, EndFacts DEF Relocating
<1>3. ls[op.to] = None
      /\ (ls[op.from] # None =>
            ls[op.from] = [db |-> file[op.to], stem |-> Stem(op.from)])
  BY <1>1 DEF IInv, CommandInv, Underway
<1>4. Carries(op.cmd) => Stem(op.from) = Stem(op.to)
  BY <1>1, EndFacts, NameFacts DEF Carries, IInv, CommandInv, Ends
<1>5. ls \in [Names -> [db : Databases, stem : Ids \cup Handles] \cup {None}]
  BY DEF IInv, TypeOK
<1>6. /\ ls'[op.from] = None
      /\ \A n \in Names \ {op.from, op.to} : ls'[n] = ls[n]
      /\ ls'[op.to] # None =>
            ls'[op.to] = ls[op.from] /\ Carries(op.cmd)
      /\ ls' \in [Names -> [db : Databases, stem : Ids \cup Handles] \cup {None}]
  BY <1>1, <1>3, <1>5, EndFacts DEF MovedState
<1>7. TypeOK'
  BY <1>1, <1>6, EndFacts DEF IInv, TypeOK
<1>8. Issued'
  <2>1. op.to \in Ids => op.to \in minted
    BY <1>1, EndFacts, NameFacts DEF IInv, CommandInv, Ends, Moves
  <2> QED BY <2>1, <1>1, <1>6, EndFacts, NameFacts DEF IInv, Issued, Held
<1>9. Possession'
  BY <1>1 DEF IInv, Possession, RowTells, HoldersOwn
<1>10. Worklist' /\ Halfway' /\ Ends'
  BY <1>1, <1>2 DEF IInv, CommandInv, Worklist, Halfway, Ends, Relocating, Moving, ActiveIds, Lookup
<1>11. Underway'
  BY <1>1, <1>2, <1>6 DEF IInv, CommandInv, Underway, HoldersOwn
<1>12. OneWholeCopy'
  BY <1>1 DEF IInv, OneWholeCopy
<1>13. ReplicaStateIsOwn'
  BY <1>1, <1>3, <1>4, <1>6 DEF IInv, ReplicaStateIsOwn
<1> QED BY <1>7, <1>8, <1>9, <1>10, <1>11, <1>12, <1>13 DEF IInv, CommandInv

LEMMA LandStep ==
  ASSUME IInv, Land
  PROVE  IInv'
<1>1. /\ op.at = "settled" /\ Relocating
      /\ rows' = CASE op.cmd = "migrate" ->
                        [rows EXCEPT ![op.to] = [handle |-> op.handle, state |-> "Active"]]
                   [] op.cmd = "unmigrate" -> [rows EXCEPT ![op.from] = None]
                   [] OTHER -> rows
      /\ op' = [cmd |-> op.cmd, at |-> "next", handle |-> None, from |-> None,
                to |-> None, todo |-> op.todo \ {op.from}]
      /\ named' = CASE op.cmd = "migrate"   -> [named EXCEPT ![op.to] = file[op.to]]
                    [] op.cmd = "unmigrate" -> [named EXCEPT ![op.from] = None]
                    [] OTHER -> named
      /\ UNCHANGED <<minted, file, ls, wal, data, owner, released, astray, served, faults,
                     crashes>>
  BY DEF Land, Idle, Relocating, disk, history, counts
<1>2. rows \in [Ids -> Rows \cup {None}] /\ minted \subseteq Ids
  BY DEF IInv, TypeOK
<1>3. /\ op.cmd = "migrate" => op.to \in minted /\ op.to \in Ids
      /\ op.cmd = "unmigrate" => op.from \in Ids
      /\ HoldersOwn(op.to, op.handle)
  BY <1>1, <1>2 DEF IInv, CommandInv, Ends, Underway, ActiveIds
<1>4. rows' \in [Ids -> Rows \cup {None}] /\ named' \in [Ids -> Databases \cup {None}]
  BY <1>1, <1>2, <1>3, EndFacts, NameFacts DEF Rows, IInv, TypeOK
<1>5. TypeOK'
  BY <1>1, <1>4, EndFacts DEF IInv, TypeOK
<1>6. Issued'
  <2>1. \A i \in Ids : named'[i] \in {named[i], file[op.to], None}
    BY <1>1, <1>3 DEF IInv, TypeOK
  <2>2. \A i \in Ids \ minted : file[op.to] # i
    BY <1>1, EndFacts DEF IInv, Issued, Held
  <2>3. None \notin Ids
    BY NameFacts
  <2> QED BY <2>1, <2>2, <2>3, <1>1, <1>2, <1>3 DEF IInv, Issued, Held
<1>7. Possession'
  <2>1. \A id \in Ids : \/ rows'[id] = rows[id] /\ named'[id] = named[id]
                        \/ rows'[id] = None
                        \/ /\ id = op.to /\ HoldersOwn(id, op.handle)
                           /\ named'[id] = file[id] /\ file[id] # None
                           /\ rows'[id] = [handle |-> op.handle, state |-> "Active"]
    BY <1>1, <1>2, <1>3, EndFacts DEF IInv, TypeOK
  <2>2. \A id \in Ids : RowTells(id)' /\ (rows'[id] # None => named'[id] # None)
    BY <2>1, <1>1, NoneIsNoName DEF IInv, Possession, RowTells, HoldersOwn
  <2> QED BY <2>2, <1>1 DEF IInv, Possession, HoldersOwn
<1>8. CommandInv'
  <2>1. op.cmd = "unmigrate" => op'.todo \subseteq ActiveIds'
    BY <1>1, <1>2, <1>3 DEF IInv, CommandInv, Worklist, ActiveIds
  <2>2. Worklist'
    BY <2>1, <1>1, EndFacts DEF IInv, CommandInv, Worklist, Moving
  <2> QED BY <2>2, <1>1 DEF CommandInv, Halfway, Ends, Underway, Relocating
<1>9. OneWholeCopy' /\ ReplicaStateIsOwn'
  BY <1>1 DEF IInv, OneWholeCopy, ReplicaStateIsOwn
<1> QED BY <1>5, <1>6, <1>7, <1>8, <1>9 DEF IInv

LEMMA MoveFailsStep ==
  ASSUME IInv, MoveFails
  PROVE  IInv'
<1>1. /\ Relocating /\ op' = Idle
      /\ UNCHANGED <<rows, minted, ls, wal, data, owner, released, named, astray, served, crashes>>
      /\ faults' \in 0 .. MaxFaults
  BY BoundsAreNat DEF MoveFails, RelocateFails, RegistryFails, Relocating, history, IInv, TypeOK
<1>2. CASE UNCHANGED file
  BY <1>1, <1>2, EndStep DEF disk, history, IInv, TypeOK
<1>3. CASE op.at # "ready" /\ file' = MovedBack
  <2>1. /\ file'[op.from] = file[op.to] /\ file'[op.to] = None
        /\ \A n \in Names \ {op.from, op.to} : file'[n] = file[n]
        /\ file[op.from] = None /\ file[op.to] # None
        /\ file' \in [Names -> Names \cup {None}]
    BY <1>1, <1>3, EndFacts DEF MovedBack
  <2>2. /\ HoldersOwn(op.to, op.handle)
        /\ op.cmd = "unmigrate" => named[op.from] = file[op.to]
        /\ ls[op.from] # None =>
              ls[op.from] = [db |-> file[op.to], stem |-> Stem(op.from)]
    BY <1>1, <1>3 DEF IInv, CommandInv, Underway, Relocating
  <2>3. op' = [cmd |-> "idle", at |-> "-", handle |-> None, from |-> None,
               to |-> None, todo |-> {}]
    BY <1>1 DEF Idle
  <2>4. TypeOK'
    BY <1>1, <2>1, <2>3, NameFacts DEF IInv, TypeOK
  <2>5. Issued'
    <3>1. op.from \in Ids => op.from \in minted
      BY <1>1, EndFacts, NameFacts DEF IInv, CommandInv, Ends, Moves, ActiveIds, Issued
    <3> QED BY <3>1, <1>1, <2>1, EndFacts, NameFacts DEF IInv, Issued, Held
  <2>6. Possession'
    <3>1. \A n \in Names : file'[n] # None => owner'[file'[n]] # None
      BY <1>1, <2>1, EndFacts DEF IInv, Possession
    <3>2. \A h \in Handles : /\ op.from = At(h) => h = op.handle
                             /\ op.from = Legacy(h) => h = op.handle
      BY <1>1, EndFacts, NameFacts DEF IInv, CommandInv, Ends, Moves, ActiveIds
    <3>3. UNCHANGED <<owner, released, named, astray, rows>>
      BY <1>1
    <3>4. \A h \in Handles : /\ file'[At(h)] # None => HoldersOwn(At(h), h)'
                             /\ file'[Legacy(h)] # None => HoldersOwn(Legacy(h), h)'
      <4> SUFFICES ASSUME NEW h \in Handles, NEW n \in {At(h), Legacy(h)}, file'[n] # None
                   PROVE  HoldersOwn(n, h)'
        OBVIOUS
      <4>1. n \in Names /\ (file[n] # None => HoldersOwn(n, h))
        BY NameFacts DEF IInv, Possession
      <4>2. CASE n = op.from
        BY <4>2, <2>1, <2>2, <3>2, <3>3 DEF HoldersOwn
      <4>3. CASE n # op.from
        <5>1. file'[n] = file[n]
          BY <4>1, <4>3, <2>1
        <5> QED BY <5>1, <4>1, <3>3 DEF HoldersOwn
      <4> QED BY <4>2, <4>3
    <3>5. op.from \in Ids => /\ op.cmd = "unmigrate" /\ rows[op.from] # None /\ rows[op.from].state = "Active"
                             /\ rows[op.from].handle = op.handle
      BY <1>1, EndFacts, NameFacts DEF IInv, CommandInv, Ends, Moves, ActiveIds
    <3>6. \A id \in Ids : RowTells(id)'
      <4> SUFFICES ASSUME NEW id \in Ids PROVE RowTells(id)'
        OBVIOUS
      <4>1. CASE id = op.from
        BY <4>1, <2>1, <2>2, <3>3, <3>5 DEF RowTells, HoldersOwn
      <4>2. CASE id = op.to
        BY <4>2, <2>1 DEF RowTells
      <4>3. CASE id \notin {op.from, op.to}
        <5>1. file'[id] = file[id]
          BY <4>3, <2>1, NameFacts
        <5> QED BY <5>1, <3>3 DEF IInv, Possession, RowTells, HoldersOwn
      <4> QED BY <4>1, <4>2, <4>3
    <3> QED BY <3>1, <3>3, <3>4, <3>6 DEF IInv, Possession
  <2>7. CommandInv'
    BY <2>3 DEF CommandInv, Worklist, Halfway, Ends, Underway, Relocating, Moving, Moves
  <2>8. OneWholeCopy'
    <3>1. op.to \notin wal /\ wal \subseteq Names
      BY <1>1, EndFacts DEF IInv, TypeOK
    <3> QED BY <3>1, <1>1, <2>1, EndFacts DEF IInv, OneWholeCopy
  <2>9. ReplicaStateIsOwn'
    BY <1>1, <2>1, <2>2, EndFacts DEF IInv, ReplicaStateIsOwn
  <2> QED BY <2>4, <2>5, <2>6, <2>7, <2>8, <2>9 DEF IInv
<1> QED BY <1>2, <1>3 DEF MoveFails, RelocateFails, RegistryFails

-----------------------------------------------------------------------------
(* All steps. *)

LEMMA InitInv == Init => IInv
<1> SUFFICES ASSUME Init PROVE IInv
  OBVIOUS
<1>1. PICK there \in SUBSET (Names \ Ids) :
          /\ file = [n \in Names |-> IF n \in there THEN n ELSE None]
          /\ owner = [d \in Databases |-> IF d \in there THEN d[2] ELSE None]
          /\ data = there
  BY DEF Init
<1>2. /\ rows = [id \in Ids |-> None] /\ minted = {} /\ ls = [n \in Names |-> None]
      /\ wal = {} /\ released = {} /\ served = None /\ faults = 0 /\ crashes = 0
      /\ astray = {} /\ named = [id \in Ids |-> None]
      /\ op = [cmd |-> "idle", at |-> "-", handle |-> None, from |-> None,
               to |-> None, todo |-> {}]
  BY DEF Init, Idle
<1>3. \A n \in there : /\ n \in Names /\ n \notin Ids /\ n # None
                       /\ \E h \in Handles : n[2] = h /\ (n = At(h) \/ n = Legacy(h))
  BY NameFacts
<1>4. \A n \in Names : (n[2] # None /\ n[2] \in Handles) \/ n \notin there
  BY <1>3, NameFacts
<1>5. TypeOK
  BY <1>1, <1>2, <1>4, NameFacts, BoundsAreNat DEF TypeOK
<1>6. Issued
  BY <1>1, <1>2, <1>3, NameFacts DEF Issued, Held
<1>7. Possession
  <2>1. \A n \in Names : file[n] # None => n \in there /\ file[n] = n /\ owner[n] = n[2]
    BY <1>1, NameFacts
  <2> QED BY <2>1, <1>2, <1>3, NameFacts DEF Possession, RowTells, HoldersOwn
<1>8. CommandInv
  BY <1>2 DEF CommandInv, Worklist, Halfway, Ends, Underway, Relocating, Moving, Moves
<1>9. OneWholeCopy /\ ReplicaStateIsOwn
  BY <1>1, <1>2, NameFacts DEF OneWholeCopy, ReplicaStateIsOwn
<1> QED BY <1>5, <1>6, <1>7, <1>8, <1>9 DEF IInv

LEMMA NextInv == IInv /\ [Next]_vars => IInv'
<1> SUFFICES ASSUME IInv, [Next]_vars PROVE IInv'
  OBVIOUS
<1>1. CASE Provision
  <2>1. ASSUME NEW h \in Handles, Create(h) \/ ServeFresh(h) PROVE IInv'
    BY <2>1, WriteNewStep DEF Create, ServeFresh
  <2> QED BY <1>1, <2>1, DetachStep, RenameStep, CreateEndsStep DEF Provision
<1>2. CASE Purge
  BY <1>2, PurgeFileStep, PurgeStep DEF Purge
<1>3. CASE Relocate
  <2>1. CASE Finish
    BY <2>1, EndStep DEF Finish, counts, IInv, TypeOK
  <2> QED BY <1>3, <2>1, StartMoveStep, TakeNextStep, RenameFileStep, SettleStateStep,
             LandStep, MoveFailsStep DEF Relocate
<1>4. CASE Run
  BY <1>4, ServingStep, ReplicateStep DEF Run, ServesSome
<1>5. CASE Crash
  BY <1>5, EndStep, BoundsAreNat DEF Crash, IInv, TypeOK
<1>6. CASE UNCHANGED vars
  BY <1>6 DEF vars, IInv, TypeOK, Issued, Possession, RowTells, HoldersOwn, Held,
     CommandInv, Worklist, Halfway, Ends, Underway, Relocating, Moving, ActiveIds, Lookup,
     OneWholeCopy, ReplicaStateIsOwn
<1> QED BY <1>1, <1>2, <1>3, <1>4, <1>5, <1>6, CloneStep DEF Next, ClonesSome

\* The invariant holds throughout, failures and crashes included.
THEOREM Inductive == Spec => []IInv
BY InitInv, NextInv, PTL DEF Spec

\* Every variable keeps its type.
THEOREM TypeCorrect == Spec => []TypeOK
<1>1. IInv => TypeOK
  BY DEF IInv
<1> QED BY <1>1, Inductive, PTL

\* No command, failure or crash puts one database under two names, or leaves
\* committed frames beside a name that has none.
THEOREM OneCopyWithItsFrames == Spec => []OneWholeCopy
<1>1. IInv => OneWholeCopy
  BY DEF IInv
<1> QED BY <1>1, Inductive, PTL

\* Replica state beside a database was built for it, under its present name.
THEOREM ReplicaStateNeverInherited == Spec => []ReplicaStateIsOwn
<1>1. IInv => ReplicaStateIsOwn
  BY DEF IInv
<1> QED BY <1>1, Inductive, PTL

-----------------------------------------------------------------------------
(* Where the database is that a row was made for, as long as the row's own  *)
(* rename or detach has not put it astray.                                  *)

\* A detached row has let go of its database.
LetGo ==
    \A id \in Ids : rows[id] # None /\ rows[id].state = "Detached" => named[id] \in released

\* No two rows were made for one database.
OneRowEach ==
    \A i, j \in Ids : i # j /\ rows[i] # None /\ rows[j] # None /\ named[i] = named[j]
        => named[i] \in astray

\* A row's database is under its id or, for an active row, under its handle.
Whereabouts ==
    \A id \in Ids, n \in Names :
        rows[id] # None /\ named[id] \notin astray /\ file[n] = named[id] =>
            \/ n = id
            \/ n \notin Ids /\ rows[id].state = "Active" /\ Stem(n) = rows[id].handle

\* An active row's database is somewhere.
NoneLost == \A id \in ActiveIds : named[id] \notin astray => Held(named[id])

\* One astray was let go of, or a row without a file was made for it.
Remembered ==
    \A d \in astray : \/ d \in released
                      \/ \E id \in Ids : /\ rows[id] # None /\ file[id] = None
                                         /\ named[id] = d
                                         /\ Relocating => id # op.from

Tracked == LetGo /\ OneRowEach /\ Whereabouts /\ NoneLost /\ Remembered

\* Steps that touch no file, row or custody.
LEMMA QuietTracked ==
  ASSUME IInv, Tracked, UNCHANGED <<rows, file, released, named, astray>>,
         Relocating' => file[op'.from] # None \/ (Relocating /\ op'.from = op.from)
  PROVE  Tracked'
<1>1. LetGo' /\ OneRowEach' /\ Whereabouts' /\ NoneLost'
  BY DEF Tracked, LetGo, OneRowEach, Whereabouts, NoneLost, ActiveIds, Held
<1>2. Remembered'
  BY DEF Tracked, Remembered
<1> QED BY <1>1, <1>2 DEF Tracked

LEMMA WriteNewTracked ==
  ASSUME IInv, Tracked, NEW cmd \in {"create", "serve"}, NEW h \in Handles,
         WriteNew(cmd, h)
  PROVE  Tracked'
<1>1. PICK id \in Unissued : /\ op'.at = "written"
                             /\ file' = [file EXCEPT ![id] = id]
                             /\ UNCHANGED <<rows, released, named, astray>>
  BY DEF WriteNew, Idle
<1>2. /\ id \in Ids /\ id \in Names /\ rows[id] = None /\ file[id] = None
      /\ \A i \in Ids : named[i] # id
      /\ file'[id] = id /\ \A n \in Names \ {id} : file'[n] = file[n]
  BY <1>1, NameFacts DEF Unissued, IInv, Issued, TypeOK
<1>3. LetGo' /\ OneRowEach'
  BY <1>1 DEF Tracked, LetGo, OneRowEach
<1>4. Whereabouts'
  BY <1>1, <1>2 DEF Tracked, Whereabouts
<1>5. NoneLost'
  <2>1. \A i \in Ids : Held(named[i]) => Held(named[i])' \/ named[i] = None
    BY <1>1, <1>2 DEF Held
  <2>2. \A i \in ActiveIds : i \in Ids /\ named[i] # None
    BY DEF ActiveIds, IInv, Possession
  <2> QED BY <2>1, <2>2, <1>1 DEF Tracked, NoneLost, ActiveIds
<1>6. Remembered'
  <2>1. \A i \in Ids : rows[i] # None => file'[i] = file[i]
    BY <1>2, NameFacts
  <2>2. ~Relocating'
    BY <1>1 DEF Relocating
  <2> QED BY <2>1, <2>2, <1>1 DEF Tracked, Remembered
<1> QED BY <1>3, <1>4, <1>5, <1>6 DEF Tracked

\* A row is added for the database under its id, which no other row is for.
LEMMA AddRowTracked ==
  ASSUME IInv, Tracked, NEW id \in Ids, NEW h \in Handles,
         rows[id] = None, file[id] # None, ~Relocating',
         rows' = [rows EXCEPT ![id] = [handle |-> h, state |-> "Active"]],
         named' = [named EXCEPT ![id] = file[id]],
         UNCHANGED <<file, released, astray>>
  PROVE  Tracked'
<1>1. /\ id \in Names /\ rows'[id] = [handle |-> h, state |-> "Active"]
      /\ named'[id] = file[id] /\ rows'[id] # None
      /\ \A i \in Ids \ {id} : rows'[i] = rows[i] /\ named'[i] = named[i]
  BY NameFacts, NoneIsNoRow DEF IInv, TypeOK, Rows
<1>2. \A i \in Ids \ {id} : rows[i] # None /\ named[i] = file[id] => named[i] \in astray
  BY <1>1 DEF Tracked, Whereabouts
<1>3. \A n \in Names : file[n] = file[id] => n = id
  BY <1>1 DEF IInv, OneWholeCopy
<1>4. LetGo' /\ OneRowEach'
  BY <1>1, <1>2 DEF Tracked, LetGo, OneRowEach
<1>5. Whereabouts'
  BY <1>1, <1>3 DEF Tracked, Whereabouts
<1>6. NoneLost'
  BY <1>1 DEF Tracked, NoneLost, ActiveIds, Held
<1>7. Remembered'
  BY <1>1 DEF Tracked, Remembered
<1> QED BY <1>4, <1>5, <1>6, <1>7 DEF Tracked

\* A row is dropped: one that let go of its database, or one whose database is
\* no less remembered without it.
LEMMA DropRowTracked ==
  ASSUME IInv, Tracked, NEW id \in Ids, ~Relocating',
         rows[id].state = "Detached" \/ (Relocating /\ id = op.from), rows[id] # None,
         rows' = [rows EXCEPT ![id] = None], named' = [named EXCEPT ![id] = None],
         UNCHANGED <<file, released, astray>>
  PROVE  Tracked'
<1>1. /\ rows'[id] = None
      /\ \A i \in Ids \ {id} : rows'[i] = rows[i] /\ named'[i] = named[i]
  BY DEF IInv, TypeOK
<1>2. LetGo' /\ OneRowEach' /\ Whereabouts'
  BY <1>1 DEF Tracked, LetGo, OneRowEach, Whereabouts
<1>3. NoneLost'
  BY <1>1 DEF Tracked, NoneLost, ActiveIds, Held
<1>4. Remembered'
  BY <1>1 DEF Tracked, Remembered, LetGo
<1> QED BY <1>2, <1>3, <1>4 DEF Tracked

\* rename and detach: the row changes, and its database may go astray.
LEMMA RowTracked ==
  ASSUME IInv, Tracked, NEW id \in Ids, rows[id] # None, rows'[id] # None,
         \A i \in Ids \ {id} : rows'[i] = rows[i],
         rows'[id].state = "Active" => rows[id].state = "Active",
         rows'[id].state = "Detached" => named[id] \in released',
         astray' = Strays(id), released \subseteq released', ~Relocating',
         UNCHANGED <<file, named>>
  PROVE  Tracked'
<1>1. /\ astray \subseteq astray'
      /\ file[id] = None => named[id] \in astray'
      /\ \A d \in astray' : d \in astray \/ (file[id] = None /\ d = named[id])
  BY DEF Strays
<1>2. LetGo' /\ OneRowEach'
  BY <1>1 DEF Tracked, LetGo, OneRowEach
<1>3. Whereabouts'
  <2>1. file[id] # None => named[id] = file[id] /\ \A n \in Names : file[n] = file[id] => n = id
    BY NameFacts DEF IInv, Possession, RowTells, OneWholeCopy
  <2> QED BY <2>1, <1>1 DEF Tracked, Whereabouts
<1>4. NoneLost'
  BY <1>1 DEF Tracked, NoneLost, ActiveIds, Held
<1>5. Remembered'
  <2> SUFFICES ASSUME NEW d \in astray', d \notin released'
               PROVE  \E i \in Ids : rows'[i] # None /\ file[i] = None /\ named[i] = d
    BY DEF Remembered
  <2>1. CASE d \in astray
    BY <2>1 DEF Tracked, Remembered
  <2>2. CASE d \notin astray
    BY <2>2, <1>1
  <2> QED BY <2>1, <2>2
<1> QED BY <1>2, <1>3, <1>4, <1>5 DEF Tracked

LEMMA PurgeFileTracked ==
  ASSUME IInv, Tracked, NEW id \in Ids, PurgeFile(id)
  PROVE  Tracked'
<1>1. /\ rows[id] # None /\ rows[id].state = "Detached" /\ ~Relocating'
      /\ file' = [file EXCEPT ![id] = None]
      /\ UNCHANGED <<rows, released, named, astray>>
  BY DEF PurgeFile, PurgeMay, Idle, Relocating, history
<1>2. /\ id \in Names /\ file'[id] = None
      /\ \A n \in Names \ {id} : file'[n] = file[n]
      /\ \A i \in Ids : rows[i] # None => named[i] # None
  BY <1>1, NameFacts DEF IInv, TypeOK, Possession
<1>3. LetGo' /\ OneRowEach'
  BY <1>1 DEF Tracked, LetGo, OneRowEach
<1>4. Whereabouts'
  BY <1>1, <1>2 DEF Tracked, Whereabouts
<1>5. NoneLost'
  <2> SUFFICES ASSUME NEW i \in ActiveIds, named[i] \notin astray
               PROVE  Held(named[i])'
    BY <1>1 DEF NoneLost, ActiveIds
  <2>1. i \in Ids /\ rows[i] # None /\ i # id
    BY <1>1 DEF ActiveIds
  <2>2. PICK n \in Names : file[n] = named[i]
    BY DEF Tracked, NoneLost, Held
  <2>3. n # id
    <3>1. file[id] # None => named[id] = file[id]
      BY <1>1 DEF IInv, Possession, RowTells
    <3> QED BY <3>1, <2>1, <2>2, <1>1, <1>2 DEF Tracked, OneRowEach
  <2> QED BY <2>2, <2>3, <1>1, <1>2 DEF Held
<1>6. Remembered'
  <2>1. \A i \in Ids : file[i] = None => file'[i] = None
    BY <1>2, NameFacts
  <2> QED BY <2>1, <1>1 DEF Tracked, Remembered
<1> QED BY <1>3, <1>4, <1>5, <1>6 DEF Tracked

\* A file goes from one end of a relocate to the other, or back.
LEMMA MovedTracked ==
  ASSUME IInv, Tracked, NEW m \in Names, NEW n \in Names, m # n,
         file[m] # None, file[n] = None, file'[n] = file[m], file'[m] = None,
         \A k \in Names \ {m, n} : file'[k] = file[k],
         UNCHANGED <<rows, released, named, astray>>,
         \A id \in Ids : rows[id] # None /\ named[id] \notin astray /\ file[m] = named[id] =>
            \/ n = id
            \/ n \notin Ids /\ rows[id].state = "Active" /\ Stem(n) = rows[id].handle,
         n \in Ids => rows[n] = None \/ (Relocating /\ op.from = n),
         Relocating' => Relocating /\ op'.from = op.from
  PROVE  Tracked'
<1>1. LetGo' /\ OneRowEach'
  BY DEF Tracked, LetGo, OneRowEach
<1>2. Whereabouts'
  <2>1. \A i \in Ids : rows[i] # None => named[i] # None
    BY DEF IInv, Possession
  <2> QED BY <2>1 DEF Tracked, Whereabouts
<1>3. NoneLost'
  <2>1. \A d \in Names : Held(d) => Held(d)'
    BY NameFacts DEF Held
  <2>2. \A i \in ActiveIds : named[i] \in Names
    BY NameFacts DEF ActiveIds, IInv, TypeOK, Possession
  <2> QED BY <2>1, <2>2 DEF Tracked, NoneLost, ActiveIds
<1>4. Remembered'
  <2>1. \A i \in Ids : /\ rows[i] # None /\ file[i] = None /\ (Relocating => i # op.from)
                       => file'[i] = None
    BY NameFacts
  <2> QED BY <2>1 DEF Tracked, Remembered
<1> QED BY <1>1, <1>2, <1>3, <1>4 DEF Tracked

LEMMA RenameFileTracked ==
  ASSUME IInv, Tracked, RenameFile
  PROVE  Tracked'
<1>1. /\ op.at = "ready" /\ Relocating /\ UNCHANGED <<rows, released, named, astray>>
      /\ file' = [file EXCEPT ![op.to] = file[op.from], ![op.from] = None]
      /\ op' = [op EXCEPT !.at = "moved"]
  BY DEF RenameFile, Relocating, history
<1>2. /\ op.from \in Names /\ op.to \in Names /\ op.from # op.to
      /\ file'[op.to] = file[op.from] /\ file'[op.from] = None
      /\ \A n \in Names \ {op.from, op.to} : file'[n] = file[n]
      /\ file[op.from] # None /\ file[op.to] = None /\ op'.from = op.from
  BY <1>1, EndFacts
<1>3. op.to \in Ids => rows[op.to] = None
  BY <1>1, EndFacts, NameFacts DEF IInv, CommandInv, Ends, Moves
<1>4. ASSUME NEW id \in Ids, rows[id] # None, named[id] \notin astray,
             file[op.from] = named[id]
      PROVE  op.to \notin Ids /\ rows[id].state = "Active" /\ Stem(op.to) = rows[id].handle
  <2>1. \/ op.from = id
        \/ op.from \notin Ids /\ rows[id].state = "Active" /\ Stem(op.from) = rows[id].handle
    BY <1>2, <1>4 DEF Tracked, Whereabouts
  <2>2. CASE Carries(op.cmd)
    BY <2>1, <2>2, <1>1, EndFacts, NameFacts DEF Carries, IInv, CommandInv, Ends
  <2>3. CASE op.cmd = "migrate"
    BY <2>1, <2>3, <1>1, <1>4, EndFacts, NameFacts
       DEF IInv, CommandInv, Ends, Lookup, ActiveIds
  <2>4. CASE op.cmd = "unmigrate"
    BY <2>1, <2>4, <1>1, EndFacts, NameFacts DEF IInv, CommandInv, Ends, ActiveIds
  <2> QED BY <2>2, <2>3, <2>4, <1>1, EndFacts DEF Moves, Carries
<1> QED BY <1>1, <1>2, <1>3, <1>4, MovedTracked

LEMMA MoveFailsTracked ==
  ASSUME IInv, Tracked, MoveFails
  PROVE  Tracked'
<1>1. Relocating /\ ~Relocating' /\ UNCHANGED <<rows, released, named, astray>>
  BY DEF MoveFails, RelocateFails, RegistryFails, Relocating, Idle, history
<1>2. CASE UNCHANGED file
  BY <1>1, <1>2, QuietTracked
<1>3. CASE op.at # "ready" /\ file' = MovedBack
  <2>1. /\ op.from \in Names /\ op.to \in Names /\ op.from # op.to
        /\ file'[op.from] = file[op.to] /\ file'[op.to] = None
        /\ \A n \in Names \ {op.from, op.to} : file'[n] = file[n]
        /\ file[op.from] = None /\ file[op.to] # None
    BY <1>1, <1>3, EndFacts DEF MovedBack
  <2>2. ASSUME NEW id \in Ids, rows[id] # None, named[id] \notin astray,
               file[op.to] = named[id]
        PROVE  \/ op.from = id
               \/ /\ op.from \notin Ids /\ rows[id].state = "Active"
                  /\ Stem(op.from) = rows[id].handle
    <3>1. \/ op.to = id
          \/ op.to \notin Ids /\ rows[id].state = "Active" /\ Stem(op.to) = rows[id].handle
      BY <2>1, <2>2 DEF Tracked, Whereabouts
    <3>2. CASE Carries(op.cmd)
      BY <3>1, <3>2, <1>1, EndFacts, NameFacts DEF Carries, IInv, CommandInv, Ends
    <3>3. CASE op.cmd = "migrate"
      BY <3>1, <3>3, <2>2, <1>1, EndFacts, NameFacts DEF IInv, CommandInv, Ends, TypeOK
    <3>4. CASE op.cmd = "unmigrate"
      <4>1. named[op.from] = file[op.to] /\ op.from \in Ids /\ rows[op.from] # None
        BY <3>4, <1>1, <1>3 DEF IInv, CommandInv, Ends, Underway, Relocating, ActiveIds
      <4> QED BY <4>1, <2>2 DEF Tracked, OneRowEach
    <3> QED BY <3>2, <3>3, <3>4, <1>1, EndFacts DEF Moves, Carries
  <2> QED BY <2>1, <2>2, <1>1, MovedTracked
<1> QED BY <1>2, <1>3 DEF MoveFails, RelocateFails, RegistryFails

LEMMA LandTracked ==
  ASSUME IInv, Tracked, Land
  PROVE  Tracked'
<1>1. /\ op.at = "settled" /\ Relocating /\ ~Relocating'
      /\ UNCHANGED <<file, released, astray>>
  BY DEF Land, Relocating, Idle, disk
<1>2. CASE op.cmd = "migrate"
  <2>1. /\ op.to \in Ids /\ op.handle \in Handles /\ rows[op.to] = None /\ file[op.to] # None
    BY <1>1, <1>2, EndFacts DEF IInv, CommandInv, Ends, TypeOK
  <2>2. /\ rows' = [rows EXCEPT ![op.to] = [handle |-> op.handle, state |-> "Active"]]
        /\ named' = [named EXCEPT ![op.to] = file[op.to]]
    BY <1>2 DEF Land
  <2> QED BY <2>1, <2>2, <1>1, AddRowTracked
<1>3. CASE op.cmd = "unmigrate"
  <2>1. op.from \in Ids /\ rows[op.from] # None
    BY <1>1, <1>3 DEF IInv, CommandInv, Ends, ActiveIds
  <2>2. /\ rows' = [rows EXCEPT ![op.from] = None]
        /\ named' = [named EXCEPT ![op.from] = None]
    BY <1>3 DEF Land
  <2> QED BY <2>1, <2>2, <1>1, DropRowTracked
<1>4. CASE op.cmd \notin {"migrate", "unmigrate"}
  <2>1. UNCHANGED <<rows, named>>
    BY <1>4 DEF Land
  <2> QED BY <2>1, <1>1, QuietTracked
<1> QED BY <1>2, <1>3, <1>4

LEMMA ProvisionTracked ==
  ASSUME IInv, Tracked, Provision \/ Purge
  PROVE  Tracked'
<1>1. ASSUME NEW h \in Handles, Create(h) \/ ServeFresh(h) PROVE Tracked'
  BY <1>1, WriteNewTracked DEF Create, ServeFresh
<1>2. ASSUME NEW h \in Handles, NEW g \in Handles, Rename(h, g) PROVE Tracked'
  <2>1. PICK id \in Lookup(h) : rows' = [rows EXCEPT ![id].handle = g] /\ astray' = Strays(id)
    BY <1>2 DEF Rename
  <2>2. ~Relocating' /\ UNCHANGED <<file, released, named>>
    BY <1>2 DEF Rename, Idle, disk, Relocating
  <2>3. /\ id \in Ids /\ rows[id] \in Rows /\ rows[id] # None /\ rows[id].state = "Active"
        /\ rows \in [Ids -> Rows \cup {None}]
    BY DEF IInv, TypeOK, Lookup, ActiveIds
  <2>4. /\ rows'[id] = [handle |-> g, state |-> "Active"]
        /\ \A i \in Ids \ {id} : rows'[i] = rows[i]
    BY <2>1, <2>3 DEF Rows
  <2>5. rows'[id] # None
    BY <2>4, NoneIsNoRow DEF Rows
  <2> QED BY <2>1, <2>2, <2>3, <2>4, <2>5, RowTracked
<1>3. ASSUME NEW h \in Handles, Detach(h) PROVE Tracked'
  <2>1. PICK id \in Lookup(h) : /\ rows' = [rows EXCEPT ![id].state = "Detached"]
                                /\ released' = released \cup {named[id]}
                                /\ astray' = Strays(id)
    BY <1>3 DEF Detach
  <2>2. ~Relocating' /\ UNCHANGED <<file, named>>
    BY <1>3 DEF Detach, Idle, disk, Relocating
  <2>3. /\ id \in Ids /\ rows[id] \in Rows /\ rows[id] # None
        /\ rows \in [Ids -> Rows \cup {None}]
    BY DEF IInv, TypeOK, Lookup, ActiveIds
  <2>4. /\ rows'[id] = [handle |-> rows[id].handle, state |-> "Detached"]
        /\ rows[id].handle \in Handles
        /\ \A i \in Ids \ {id} : rows'[i] = rows[i]
    BY <2>1, <2>3 DEF Rows
  <2>5. rows'[id] # None
    BY <2>4, NoneIsNoRow DEF Rows
  <2> QED BY <2>1, <2>2, <2>3, <2>4, <2>5, RowTracked
<1>4. CASE CreateCommits
  <2>1. /\ op.to \in Ids /\ op.handle \in Handles /\ rows[op.to] = None /\ file[op.to] # None
    BY <1>4, NameFacts DEF CreateCommits, IInv, CommandInv, Halfway, TypeOK
  <2>2. /\ rows' = [rows EXCEPT ![op.to] = [handle |-> op.handle, state |-> "Active"]]
        /\ named' = [named EXCEPT ![op.to] = file[op.to]]
        /\ UNCHANGED <<file, released, astray>> /\ ~Relocating'
    BY <1>4 DEF CreateCommits, disk, Idle, Relocating
  <2> QED BY <2>1, <2>2, AddRowTracked
<1>5. CASE CreateFails \/ PurgeState
  <2>1. ~Relocating' /\ UNCHANGED <<rows, file, released, named, astray>>
    BY <1>5 DEF CreateFails, PurgeState, disk, history, Idle, Relocating, IInv, TypeOK
  <2> QED BY <2>1, QuietTracked
<1>6. CASE PurgeRow
  <2>1. op.to \in Ids /\ rows[op.to] # None /\ rows[op.to].state = "Detached"
    BY <1>6 DEF PurgeRow, IInv, CommandInv, Halfway
  <2>2. /\ rows' = [rows EXCEPT ![op.to] = None] /\ named' = [named EXCEPT ![op.to] = None]
        /\ UNCHANGED <<file, released, astray>> /\ ~Relocating'
    BY <1>6 DEF PurgeRow, disk, Idle, Relocating
  <2> QED BY <2>1, <2>2, DropRowTracked
<1> QED BY <1>1, <1>2, <1>3, <1>4, <1>5, <1>6, PurgeFileTracked DEF Provision, Purge

LEMMA NextTracked ==
  ASSUME IInv, Tracked, [Next]_vars
  PROVE  Tracked'
<1>1. CASE Relocate
  <2>1. ASSUME NEW cmd \in Moves, NEW h \in Handles, StartMove(cmd, h) PROVE Tracked'
    <3>1. ~Relocating' /\ UNCHANGED <<rows, file, released, named, astray>>
      BY <2>1 DEF StartMove, disk, history, Idle, Relocating
    <3> QED BY <3>1, QuietTracked
  <2>2. ASSUME NEW from \in Names, NEW to \in Names, TakeNext(from, to) PROVE Tracked'
    <3>1. /\ file[from] # None /\ op'.from = from
          /\ UNCHANGED <<rows, file, released, named, astray>>
      BY <2>2 DEF TakeNext, MayMove, history, IInv, TypeOK
    <3> QED BY <3>1, QuietTracked
  <2>3. CASE Finish
    <3>1. ~Relocating' /\ UNCHANGED <<rows, file, released, named, astray>>
      BY <2>3 DEF Finish, disk, history, Idle, Relocating
    <3> QED BY <3>1, QuietTracked
  <2>4. CASE SettleState
    <3>1. /\ Relocating /\ op'.from = op.from
          /\ UNCHANGED <<rows, file, released, named, astray>>
      BY <2>4 DEF SettleState, history, Relocating, IInv, TypeOK
    <3> QED BY <3>1, QuietTracked
  <2> QED BY <1>1, <2>1, <2>2, <2>3, <2>4, RenameFileTracked, LandTracked,
             MoveFailsTracked DEF Relocate
<1>2. CASE Run \/ ClonesSome \/ UNCHANGED vars
  <2>1. UNCHANGED <<rows, file, released, named, astray, op>>
    BY <1>2, CloneFacts DEF Run, Serve, Commit, Close, Replicate, disk, history, vars
  <2> QED BY <2>1, QuietTracked DEF Relocating
<1>3. CASE Crash
  <2>1. ~Relocating' /\ UNCHANGED <<rows, file, released, named, astray>>
    BY <1>3 DEF Crash, disk, history, Idle, Relocating
  <2> QED BY <2>1, QuietTracked
<1> QED BY <1>1, <1>2, <1>3, ProvisionTracked DEF Next, ClonesSome

LEMMA InitTracked == Init => Tracked
<1> SUFFICES ASSUME Init PROVE Tracked
  OBVIOUS
<1>1. rows = [id \in Ids |-> None] /\ astray = {}
  BY DEF Init
<1> QED BY <1>1 DEF Tracked, LetGo, OneRowEach, Whereabouts, NoneLost, Remembered, ActiveIds

\* Whatever fails or is cut off, a row and the database it was made for stay
\* known to each other, or the database is astray.
THEOREM RowsTrackTheirDatabases == Spec => [](IInv /\ Tracked)
<1>1. IInv /\ Tracked /\ [Next]_vars => IInv' /\ Tracked'
  BY NextInv, NextTracked
<1> QED BY <1>1, InitInv, InitTracked, PTL DEF Spec

\* The database of an active row is its holder's, and nobody let go of it.
LEMMA ActiveKept ==
  ASSUME IInv, Tracked, NEW id \in ActiveIds, named[id] \notin astray
  PROVE  /\ named[id] \in Databases /\ Held(named[id])
         /\ owner[named[id]] = rows[id].handle /\ named[id] \notin released
<1>1. id \in Ids /\ rows[id] # None /\ rows[id].state = "Active" /\ rows[id].handle \in Handles
  BY DEF ActiveIds, IInv, TypeOK, Rows
<1>2. named[id] \in Databases /\ named[id] # None
  BY <1>1 DEF IInv, TypeOK, Possession
<1>3. PICK n \in Names : file[n] = named[id]
  BY DEF Tracked, NoneLost, Held
<1>4. CASE n = id
  BY <1>1, <1>2, <1>3, <1>4 DEF IInv, Possession, RowTells, HoldersOwn, Held
<1>5. CASE n # id
  <2>1. n \notin Ids /\ Stem(n) = rows[id].handle
    BY <1>1, <1>3, <1>5 DEF Tracked, Whereabouts
  <2>2. n \in {At(rows[id].handle), Legacy(rows[id].handle)}
    BY <2>1, <1>1, NameFacts
  <2> QED BY <2>2, <1>1, <1>2, <1>3 DEF IInv, Possession, HoldersOwn, Held
<1> QED BY <1>4, <1>5

-----------------------------------------------------------------------------
(* What a process opens. *)

LEMMA ResolvedHolder ==
  ASSUME IInv, NEW h \in Handles, NEW n \in Resolved(h)
  PROVE  HoldersOwn(n, h)
<1>1. CASE Lookup(h) # {}
  <2>1. n \in Lookup(h) /\ file[n] # None
    BY <1>1 DEF Resolved
  <2>2. n \in Ids /\ rows[n] # None /\ rows[n].state = "Active" /\ rows[n].handle = h
    BY <2>1 DEF Lookup, ActiveIds
  <2> QED BY <2>1, <2>2 DEF IInv, Possession, RowTells
<1>2. CASE Lookup(h) = {}
  <2>1. n = At(h) /\ file[n] # None
    BY <1>2 DEF Resolved
  <2> QED BY <2>1 DEF IInv, Possession
<1> QED BY <1>1, <1>2

\* The collection a process opens for a handle is its present holder's, one
\* astray excepted.
THEOREM HandlesOpenTheirOwn == Spec => ServesItsHolder
<1> DEFINE Opened == served = None /\ served' # None /\ served'.db \notin astray' =>
                        /\ owner'[served'.db] = served'.handle
                        /\ served'.db \notin released'
<1>1. IInv /\ [Next]_vars => Opened
  <2> SUFFICES ASSUME IInv, [Next]_vars, served = None, served' # None,
                      served'.db \notin astray'
               PROVE  /\ owner'[served'.db] = served'.handle
                      /\ served'.db \notin released'
    OBVIOUS
  <2>1. CASE CreateCommits
    <3>1. /\ served' = [handle |-> op.handle, name |-> op.to, db |-> op.to]
          /\ UNCHANGED <<owner, released, astray>>
      BY <2>1 DEF CreateCommits
    <3>2. HoldersOwn(op.to, op.handle) /\ file[op.to] = op.to
      BY <2>1 DEF CreateCommits, IInv, CommandInv, Halfway
    <3> QED BY <3>1, <3>2 DEF HoldersOwn
  <2>2. CASE \E h \in Handles : Serve(h)
    <3>1. PICK h \in Handles : Serve(h)
      BY <2>2
    <3>2. PICK n \in Resolved(h) : served' = [handle |-> h, name |-> n, db |-> file[n]]
      BY <3>1 DEF Serve
    <3>3. UNCHANGED <<owner, released, astray>>
      BY <3>1 DEF Serve, history
    <3> QED BY <3>2, <3>3, ResolvedHolder DEF HoldersOwn
  <2>3. CASE ~CreateCommits /\ ~(\E h \in Handles : Serve(h))
    <3>1. UNCHANGED served \/ served' = None
      BY <2>3 DEF Next, vars, Provision, Purge, Relocate, Run, Create, ServeFresh, WriteNew,
         CreateFails, Rename, Detach, PurgeFile, PurgeState, PurgeRow, StartMove, TakeNext,
         Finish, RenameFile, SettleState, Land, MoveFails, Commit, Close, Replicate, Clone, Crash
    <3> QED BY <3>1
  <2> QED BY <2>1, <2>2, <2>3
<1> QED BY <1>1, Inductive, PTL DEF Spec, ServesItsHolder

\* resolve never provisions an empty collection over one its handle still has.
THEOREM NoEmptyOverALostOne == Spec => NeverComesUpEmpty
<1> DEFINE Alone == op.cmd # "serve" /\ op'.cmd = "serve" =>
                       \A d \in data : Held(d) => owner[d] # op'.handle \/ d \in released
<1>1. IInv /\ Tracked /\ [Next]_vars => Alone
  <2> SUFFICES ASSUME IInv, Tracked, [Next]_vars, op.cmd # "serve", op'.cmd = "serve",
                      NEW d \in data, Held(d)
               PROVE  owner[d] # op'.handle \/ d \in released
    OBVIOUS
  <2>1. PICK h \in Handles : ServeFresh(h)
    <3>1. op.cmd \in Moves \cup {"idle", "create", "purge"}
      BY DEF IInv, TypeOK
    <3>2. CASE Provision
      <4>1. ASSUME NEW h \in Handles, Create(h) PROVE FALSE
        <5>1. op'.cmd = "create"
          BY <4>1 DEF Create, WriteNew, Idle
        <5> QED BY <5>1
      <4>2. ASSUME CreateCommits \/ CreateFails PROVE FALSE
        BY <4>2 DEF CreateCommits, CreateFails, Idle
      <4>3. ASSUME NEW h \in Handles, NEW g \in Handles, Detach(h) \/ Rename(h, g)
            PROVE  FALSE
        BY <4>3 DEF Detach, Rename
      <4> QED BY <3>2, <4>1, <4>2, <4>3 DEF Provision
    <3>3. CASE Purge
      <4>1. ASSUME NEW id \in Ids, PurgeFile(id) PROVE op'.cmd = "purge"
        BY <4>1 DEF PurgeFile, Idle
      <4>2. ASSUME PurgeState PROVE op'.cmd = op.cmd
        BY <4>2 DEF PurgeState, IInv, TypeOK
      <4>3. ASSUME PurgeRow PROVE op'.cmd = "idle"
        BY <4>3 DEF PurgeRow, Idle
      <4> QED BY <3>3, <4>1, <4>2, <4>3 DEF Purge
    <3>4. CASE Relocate
      <4>1. op'.cmd = op.cmd \/ op'.cmd \in Moves \/ op' = Idle
        BY <3>4 DEF Relocate, StartMove, TakeNext, Finish, RenameFile, SettleState, Land,
           MoveFails, RelocateFails, RegistryFails, IInv, TypeOK, Idle
      <4> QED BY <4>1 DEF Idle, Moves
    <3>5. CASE Run \/ Crash \/ UNCHANGED vars
      BY <3>1, <3>5 DEF Run, Serve, Commit, Close, Replicate, Crash, Idle, vars
    <3>6. CASE ClonesSome
      BY <3>6 DEF ClonesSome, Clone
    <3> QED BY <3>2, <3>3, <3>4, <3>5, <3>6 DEF Next, ClonesSome
  <2>2. /\ op'.handle = h /\ file[Legacy(h)] = None
        /\ \A n \in InTenants : file[n] = None
        /\ \A id \in Ids : rows[id] = None
    BY <2>1 DEF ServeFresh, Fresh, DatabasesOnDisk, WriteNew, Idle
  <2>3. PICK n \in Names : file[n] = d
    BY DEF Held
  <2>4. d # None
    BY NameFacts DEF IInv, TypeOK
  <2>5. PICK g \in Handles : n = Legacy(g)
    BY <2>2, <2>3, <2>4, NameFacts DEF InTenants
  <2>6. g # h /\ HoldersOwn(n, g)
    BY <2>2, <2>3, <2>4, <2>5 DEF IInv, Possession
  <2>7. d \in astray => d \in released
    BY <2>2 DEF Tracked, Remembered
  <2> QED BY <2>2, <2>3, <2>6, <2>7 DEF HoldersOwn
<1> QED BY <1>1, RowsTrackTheirDatabases, PTL DEF Spec, NeverComesUpEmpty

-----------------------------------------------------------------------------
(* Tenants implements Custody. *)

\* Where a database stands, by the substitution of Custodian.
StageOf ==
    [d \in Databases |->
        IF d \in astray THEN "astray"
        ELSE CASE Held(d) /\ d \notin released -> "kept"
               [] Held(d) /\ d \in released    -> "released"
               [] OTHER -> IF owner[d] = None THEN "unmade" ELSE "gone"]

\* A step that moves databases about, and neither makes, hands over, mislays,
\* releases nor destroys one, is a stutter.
LEMMA MovesStutter ==
  ASSUME UNCHANGED <<owner, released, astray>>, \A d \in Databases : Held(d)' <=> Held(d)
  PROVE  UNCHANGED <<StageOf, owner>>
BY DEF StageOf

LEMMA OthersStay ==
  ASSUME IInv, [Next]_vars,
         \A h \in Handles : ~Create(h) /\ ~ServeFresh(h) /\ ~Detach(h),
         \A g, h \in Handles : ~Rename(h, g),
         \A id \in Ids : ~PurgeFile(id)
  PROVE  UNCHANGED <<StageOf, owner>>
<1>1. UNCHANGED <<owner, released, astray>>
  BY DEF Next, vars, Provision, Purge, Relocate, Run, CreateCommits, CreateFails, PurgeState,
     PurgeRow, StartMove, TakeNext, Finish, RenameFile, SettleState, Land, MoveFails,
     RelocateFails, RegistryFails,
     Serve, Commit, Close, Replicate, Clone, Crash, history
<1>2. \/ UNCHANGED file
      \/ RenameFile
      \/ MoveFails /\ op.at # "ready" /\ file' = MovedBack
  BY DEF Next, vars, Provision, Purge, Relocate, Run, CreateCommits, CreateFails, PurgeState,
     PurgeRow, StartMove, TakeNext, Finish, SettleState, Land, MoveFails,
     RelocateFails, RegistryFails,
     Serve, Commit, Close, Replicate, Clone, Crash, disk
<1>3. \A d \in Databases : Held(d)' <=> Held(d)
  <2>1. CASE UNCHANGED file
    BY <2>1 DEF Held
  <2>2. CASE RenameFile
    <3>1. /\ op.at = "ready" /\ Relocating
          /\ file' = [file EXCEPT ![op.to] = file[op.from], ![op.from] = None]
      BY <2>2 DEF RenameFile, Relocating
    <3>2. /\ file'[op.to] = file[op.from] /\ file'[op.from] = None
          /\ \A n \in Names \ {op.from, op.to} : file'[n] = file[n]
          /\ file[op.to] = None /\ op.from \in Names /\ op.to \in Names
      BY <3>1, EndFacts
    <3> QED BY <3>2, NameFacts DEF Held
  <2>3. CASE MoveFails /\ op.at # "ready" /\ file' = MovedBack
    <3>1. Relocating
      BY <2>3 DEF MoveFails, RelocateFails, RegistryFails, Relocating
    <3>2. /\ file'[op.from] = file[op.to] /\ file'[op.to] = None
          /\ \A n \in Names \ {op.from, op.to} : file'[n] = file[n]
          /\ file[op.from] = None /\ op.from \in Names /\ op.to \in Names
      BY <2>3, <3>1, EndFacts DEF MovedBack
    <3> QED BY <3>2, NameFacts DEF Held
  <2> QED BY <1>2, <2>1, <2>2, <2>3
<1> QED BY <1>1, <1>3, MovesStutter

LEMMA NewDatabaseIsMade ==
  ASSUME IInv, NEW h \in Handles, Create(h) \/ ServeFresh(h)
  PROVE  \E d \in Databases :
            /\ StageOf[d] = "unmade"
            /\ StageOf' = [StageOf EXCEPT ![d] = "kept"]
            /\ owner' = [owner EXCEPT ![d] = h]
<1>1. PICK id \in Unissued : /\ file' = [file EXCEPT ![id] = id]
                             /\ owner' = [owner EXCEPT ![id] = h]
                             /\ released' = released /\ astray' = astray
  BY DEF Create, ServeFresh, WriteNew
<1>2. /\ id \in Databases /\ ~Held(id) /\ owner[id] = None /\ id \notin released
      /\ id \notin astray
      /\ file[id] = None /\ file \in [Names -> Names \cup {None}]
      /\ owner \in [Databases -> Handles \cup {None}]
  BY NameFacts DEF Unissued, IInv, Issued, TypeOK
<1>3. /\ Held(id)' /\ \A d \in Databases \ {id} : Held(d)' <=> Held(d)
  BY <1>1, <1>2, NameFacts DEF Held
<1>4. \A d \in Databases \ {id} : owner'[d] = owner[d]
  BY <1>1, <1>2
<1>5. StageOf[id] = "unmade" /\ StageOf'[id] = "kept"
  BY <1>1, <1>2, <1>3 DEF StageOf
<1>6. \A d \in Databases \ {id} : StageOf'[d] = StageOf[d]
  BY <1>1, <1>3, <1>4 DEF StageOf
<1>7. StageOf' = [StageOf EXCEPT ![id] = "kept"]
  BY <1>5, <1>6, <1>2 DEF StageOf
<1> QED BY <1>1, <1>2, <1>5, <1>7

LEMMA RenameHandsOver ==
  ASSUME IInv, Tracked, NEW h \in Handles, NEW g \in Handles, Rename(h, g)
  PROVE  \E d \in Databases :
            /\ owner' = [owner EXCEPT ![d] = g]
            /\ \/ StageOf[d] \in {"kept", "astray"} /\ StageOf' = StageOf
               \/ StageOf[d] = "kept" /\ StageOf' = [StageOf EXCEPT ![d] = "astray"]
<1>1. PICK id \in Lookup(h) : /\ owner' = [owner EXCEPT ![named[id]] = g]
                              /\ astray' = Strays(id)
  BY DEF Rename
<1>2. /\ id \in ActiveIds /\ named[id] \in Databases
      /\ owner \in [Databases -> Handles \cup {None}]
      /\ released' = released /\ file' = file
  BY DEF Lookup, ActiveIds, IInv, TypeOK, Possession, Rename, disk
<1>3. \A d \in Databases : Held(d)' <=> Held(d)
  BY <1>2 DEF Held
<1>4. /\ \A d \in Databases \ {named[id]} : owner'[d] = owner[d]
      /\ \A d \in Databases \ {named[id]} : d \in astray' <=> d \in astray
      /\ astray \subseteq astray'
  BY <1>1, <1>2 DEF Strays
<1>5. \A d \in Databases \ {named[id]} : StageOf'[d] = StageOf[d]
  BY <1>2, <1>3, <1>4 DEF StageOf
<1>6. CASE named[id] \in astray
  <2>1. StageOf[named[id]] = "astray" /\ StageOf'[named[id]] = "astray"
    BY <1>2, <1>4, <1>6 DEF StageOf
  <2>2. StageOf' = StageOf
    BY <2>1, <1>5 DEF StageOf
  <2> QED BY <2>1, <2>2, <1>1, <1>2
<1>7. CASE named[id] \notin astray
  <2>1. Held(named[id]) /\ named[id] \notin released
    BY <1>2, <1>7, ActiveKept
  <2>2. StageOf[named[id]] = "kept"
    BY <2>1, <1>2, <1>7 DEF StageOf
  <2>3. StageOf'[named[id]] = IF named[id] \in astray' THEN "astray" ELSE "kept"
    BY <2>1, <1>2, <1>3 DEF StageOf
  <2>4. StageOf' = StageOf \/ StageOf' = [StageOf EXCEPT ![named[id]] = "astray"]
    BY <2>2, <2>3, <1>5 DEF StageOf
  <2> QED BY <2>2, <2>4, <1>1, <1>2
<1> QED BY <1>6, <1>7

LEMMA DetachReleases ==
  ASSUME IInv, Tracked, NEW h \in Handles, Detach(h)
  PROVE  \/ UNCHANGED <<StageOf, owner>>
         \/ \E d \in Databases : /\ StageOf[d] = "kept" /\ owner' = owner
                                 /\ owner[d] \in Handles
                                 /\ \E to \in {"released", "astray"} :
                                       StageOf' = [StageOf EXCEPT ![d] = to]
<1>1. PICK id \in Lookup(h) : released' = released \cup {named[id]} /\ astray' = Strays(id)
  BY DEF Detach
<1>2. /\ id \in ActiveIds /\ named[id] \in Databases /\ rows[id].handle \in Handles
      /\ owner' = owner /\ file' = file
  BY DEF Lookup, ActiveIds, IInv, TypeOK, Possession, Detach, disk, Rows
<1>3. \A d \in Databases : Held(d)' <=> Held(d)
  BY <1>2 DEF Held
<1>4. /\ \A d \in Databases \ {named[id]} : d \in astray' <=> d \in astray
      /\ astray \subseteq astray'
  BY <1>1 DEF Strays
<1>5. \A d \in Databases \ {named[id]} : StageOf'[d] = StageOf[d]
  BY <1>1, <1>2, <1>3, <1>4 DEF StageOf
<1>6. CASE named[id] \in astray
  <2>1. StageOf[named[id]] = "astray" /\ StageOf'[named[id]] = "astray"
    BY <1>2, <1>4, <1>6 DEF StageOf
  <2>2. StageOf' = StageOf
    BY <2>1, <1>5 DEF StageOf
  <2> QED BY <2>2, <1>2
<1>7. CASE named[id] \notin astray
  <2>1. /\ Held(named[id]) /\ named[id] \notin released
        /\ owner[named[id]] \in Handles
    BY <1>2, <1>7, ActiveKept
  <2>2. StageOf[named[id]] = "kept"
    BY <2>1, <1>2, <1>7 DEF StageOf
  <2>3. StageOf'[named[id]] \in {"astray", "released"}
    BY <2>1, <1>1, <1>2, <1>3 DEF StageOf
  <2>4. StageOf' = [StageOf EXCEPT ![named[id]] = StageOf'[named[id]]]
    BY <1>5 DEF StageOf
  <2> QED BY <2>1, <2>2, <2>3, <2>4, <1>2
<1> QED BY <1>6, <1>7

LEMMA PurgeDestroys ==
  ASSUME IInv, NEW id \in Ids, PurgeFile(id)
  PROVE  \/ UNCHANGED <<StageOf, owner>>
         \/ \E d \in Databases : /\ StageOf[d] = "released" /\ owner' = owner
                                 /\ StageOf' = [StageOf EXCEPT ![d] = "gone"]
<1>1. /\ rows[id] # None /\ rows[id].state = "Detached"
      /\ file' = [file EXCEPT ![id] = None]
      /\ owner' = owner /\ released' = released /\ astray' = astray
  BY DEF PurgeFile, PurgeMay, history
<1>2. id \in Names /\ file \in [Names -> Databases \cup {None}]
  BY NameFacts DEF IInv, TypeOK
<1>3. CASE file[id] = None
  <2>1. file' = file
    BY <1>1, <1>2, <1>3
  <2>2. \A d \in Databases : Held(d)' <=> Held(d)
    BY <2>1 DEF Held
  <2> QED BY <2>2, <1>1, MovesStutter
<1>4. CASE file[id] # None
  <2>1. PICK d \in Databases : /\ d = file[id] /\ Held(d) /\ d \in released
                               /\ owner[d] # None
    BY <1>1, <1>2, <1>4 DEF Held, IInv, Possession, RowTells
  <2>2. \A n \in Names \ {id} : file'[n] = file[n] /\ file[n] # d
    BY <2>1, <1>1, <1>2, <1>4 DEF IInv, OneWholeCopy
  <2>3. ~Held(d)'
    BY <2>1, <2>2, <1>1, <1>2, NameFacts DEF Held
  <2>4. \A e \in Databases : e # d => (Held(e)' <=> Held(e))
    BY <2>1, <2>2, <1>1, <1>2, NameFacts DEF Held
  <2>5. \A e \in Databases : e # d => StageOf'[e] = StageOf[e]
    BY <2>4, <1>1 DEF StageOf
  <2>6. CASE d \in astray
    <3>1. StageOf[d] = "astray" /\ StageOf'[d] = "astray"
      BY <2>1, <2>6, <1>1 DEF StageOf
    <3>2. StageOf' = StageOf
      BY <3>1, <2>5 DEF StageOf
    <3> QED BY <3>2, <1>1
  <2>7. CASE d \notin astray
    <3>1. StageOf[d] = "released" /\ StageOf'[d] = "gone"
      BY <2>1, <2>3, <2>7, <1>1 DEF StageOf
    <3>2. StageOf' = [StageOf EXCEPT ![d] = "gone"]
      BY <3>1, <2>5 DEF StageOf
    <3> QED BY <2>1, <3>1, <3>2, <1>1
  <2> QED BY <2>6, <2>7
<1> QED BY <1>3, <1>4

LEMMA InitCustody == Init => Custodian!Init
<1> SUFFICES ASSUME Init PROVE Custodian!Init
  OBVIOUS
<1>1. PICK there \in SUBSET (Names \ Ids) :
          /\ file = [n \in Names |-> IF n \in there THEN n ELSE None]
          /\ owner = [d \in Databases |-> IF d \in there THEN d[2] ELSE None]
  BY DEF Init
<1>2. /\ released = {} /\ astray = {} /\ IInv
      /\ \A d \in Databases : owner[d] # None => d \in there
  BY <1>1, InitInv DEF Init
<1>3. \A d \in Databases : Held(d) <=> d \in there
  BY <1>1, NameFacts DEF Held
<1>4. \A d \in there : owner[d] # None
  BY <1>1, <1>2, NameFacts DEF IInv, Possession
<1>5. /\ StageOf \in [Databases -> {"unmade", "kept"}]
      /\ \A d \in Databases : (owner[d] = None) <=> (StageOf[d] = "unmade")
  BY <1>1, <1>2, <1>3, <1>4, NameFacts DEF StageOf
<1> QED BY <1>2, <1>5 DEF Custodian!Init, StageOf, IInv, TypeOK

LEMMA StepCustody == IInv /\ Tracked /\ [Next]_vars => [Custodian!Next]_(Custodian!custodyVars)
<1> SUFFICES ASSUME IInv, Tracked, [Next]_vars
             PROVE  Custodian!Next \/ UNCHANGED <<StageOf, owner>>
  BY DEF Custodian!custodyVars, StageOf
<1>1. ASSUME NEW h \in Handles, Create(h) \/ ServeFresh(h) PROVE Custodian!Next
  <2>1. PICK d \in Databases : /\ StageOf[d] = "unmade"
                               /\ StageOf' = [StageOf EXCEPT ![d] = "kept"]
                               /\ owner' = [owner EXCEPT ![d] = h]
    BY <1>1, NewDatabaseIsMade
  <2>2. Custodian!Make(d, h)
    BY <2>1 DEF Custodian!Make, StageOf
  <2> QED BY <2>2 DEF Custodian!Next
<1>2. ASSUME NEW h \in Handles, NEW g \in Handles, Rename(h, g)
      PROVE  Custodian!Next
  <2>1. ASSUME NEW d \in Databases, StageOf[d] \in {"kept", "astray"}, StageOf' = StageOf,
               owner' = [owner EXCEPT ![d] = g]
        PROVE  Custodian!HandOver(d, g)
    BY <2>1 DEF Custodian!HandOver, StageOf
  <2>2. ASSUME NEW d \in Databases, StageOf[d] = "kept",
               StageOf' = [StageOf EXCEPT ![d] = "astray"],
               owner' = [owner EXCEPT ![d] = g]
        PROVE  Custodian!Mislay(d, g)
    BY <2>2 DEF Custodian!Mislay, StageOf
  <2> QED BY <1>2, <2>1, <2>2, RenameHandsOver DEF Custodian!Next
<1>3. ASSUME NEW h \in Handles, Detach(h)
      PROVE  Custodian!Next \/ UNCHANGED <<StageOf, owner>>
  <2>1. ASSUME NEW d \in Databases, StageOf[d] = "kept", owner' = owner,
               StageOf' = [StageOf EXCEPT ![d] = "released"]
        PROVE  Custodian!Release(d)
    BY <2>1 DEF Custodian!Release, StageOf
  <2>2. ASSUME NEW d \in Databases, StageOf[d] = "kept", owner' = owner,
               NEW k \in Handles, k = owner[d],
               StageOf' = [StageOf EXCEPT ![d] = "astray"]
        PROVE  Custodian!Mislay(d, k)
    <3>1. owner' = [owner EXCEPT ![d] = k]
      BY <2>2 DEF IInv, TypeOK
    <3> QED BY <2>2, <3>1 DEF Custodian!Mislay, StageOf
  <2>3. ASSUME NEW d \in Databases, StageOf[d] = "kept", owner' = owner, owner[d] \in Handles,
               NEW to \in {"released", "astray"}, StageOf' = [StageOf EXCEPT ![d] = to]
        PROVE  Custodian!Next
    <3>1. CASE to = "released"
      <4>1. Custodian!Release(d)
        BY <2>1, <2>3, <3>1
      <4> QED BY <4>1 DEF Custodian!Next
    <3>2. CASE to = "astray"
      <4>1. PICK k \in Handles : k = owner[d]
        BY <2>3
      <4>2. Custodian!Mislay(d, k)
        BY <2>2, <2>3, <3>2, <4>1
      <4> QED BY <4>2 DEF Custodian!Next
    <3> QED BY <3>1, <3>2
  <2>4. CASE ~UNCHANGED <<StageOf, owner>>
    <3>1. PICK d \in Databases : /\ StageOf[d] = "kept" /\ owner' = owner
                                 /\ owner[d] \in Handles
                                 /\ \E to \in {"released", "astray"} :
                                       StageOf' = [StageOf EXCEPT ![d] = to]
      BY <1>3, <2>4, DetachReleases
    <3>2. PICK to \in {"released", "astray"} : StageOf' = [StageOf EXCEPT ![d] = to]
      BY <3>1
    <3> QED BY <3>1, <3>2, <2>3
  <2> QED BY <2>4
<1>4. ASSUME NEW id \in Ids, PurgeFile(id)
      PROVE  Custodian!Next \/ UNCHANGED <<StageOf, owner>>
  <2>1. ASSUME NEW d \in Databases, StageOf[d] = "released", owner' = owner,
               StageOf' = [StageOf EXCEPT ![d] = "gone"]
        PROVE  Custodian!Destroy(d)
    BY <2>1 DEF Custodian!Destroy, StageOf
  <2> QED BY <1>4, <2>1, PurgeDestroys DEF Custodian!Next
<1> QED BY <1>1, <1>2, <1>3, <1>4, OthersStay

\* Whatever names it has, whatever fails or is cut off, a database is made,
\* handed over, mislaid, released and destroyed as Custody allows, and in no
\* other way.
THEOREM TenantsImplementCustody == Spec => DatabasesAreKept
BY InitCustody, StepCustody, RowsTrackTheirDatabases, PTL DEF Spec, DatabasesAreKept, Custodian!Spec

-----------------------------------------------------------------------------
(* Without a crash, also the two halves of a command stay together: what is *)
(* on disk, and what the registry says.                                     *)

MovedFrom(n) == op.at \in {"moved", "settled"} /\ op.from = n
MovedTo(n) == op.at \in {"moved", "settled"} /\ op.to = n

\* An active row lacks its file only while unmigrate has it in hand.
FilesForRows ==
    \A id \in ActiveIds : file[id] # None \/ (op.cmd = "unmigrate" /\ MovedFrom(id))

\* Rows of a collection lie under an id no row names only while migrate has it
\* in hand.
RowsForFiles ==
    /\ \A id \in Ids : file[id] \in data =>
          rows[id] # None \/ (op.cmd = "migrate" /\ MovedTo(id))
    /\ data \cap Ids \subseteq minted

\* A process that has the database of an id open found a row for it.
ServedByRow ==
    served # None /\ served.name \in Ids =>
        /\ served.name \in minted
        /\ file[served.name] = served.db => rows[served.name] # None

\* Replica state is beside its database, or is being moved after it, or what
\* it replicated is gone.
StateFollows ==
    \A n \in Names : ls[n] # None =>
        /\ ls[n].db \in Ids => ls[n].db \in minted
        /\ \/ file[n] = ls[n].db
           \/ ~Held(ls[n].db)
           \/ op.at = "moved" /\ op.from = n

Together == FilesForRows /\ RowsForFiles /\ ServedByRow /\ StateFollows

Busy == op.at \in {"moved", "settled"}

\* Steps that touch no file and drop no row.
LEMMA QuietStep ==
  ASSUME IInv, Together, ~Busy, ~Busy', UNCHANGED <<file, data>>,
         minted \subseteq minted', ActiveIds' \subseteq ActiveIds,
         \A id \in Ids : rows[id] # None => rows'[id] # None,
         \A n \in Names : ls'[n] \in {ls[n], None},
         served' \in {served, None}
  PROVE  Together'
<1>1. FilesForRows' /\ RowsForFiles'
  BY DEF Together, FilesForRows, RowsForFiles, MovedFrom, MovedTo, Busy
<1>2. ServedByRow'
  BY DEF Together, ServedByRow
<1>3. StateFollows'
  BY DEF Together, StateFollows, Busy, Held
<1> QED BY <1>1, <1>2, <1>3 DEF Together

LEMMA WriteNewTogether ==
  ASSUME IInv, Together, NEW cmd \in {"create", "serve"}, NEW h \in Handles,
         WriteNew(cmd, h)
  PROVE  Together'
<1>1. PICK id \in Unissued : /\ op.at = "-" /\ op'.at = "written"
                             /\ minted' = minted \cup {id}
                             /\ file' = [file EXCEPT ![id] = id]
                             /\ UNCHANGED <<rows, ls, data, served>>
  BY DEF WriteNew, Idle
<1>2. /\ id \in Ids /\ id \in Names /\ id \notin minted /\ ~Held(id)
      /\ rows[id] = None /\ file[id] = None /\ ls[id] = None
      /\ file \in [Names -> Names \cup {None}]
  BY <1>1, NameFacts DEF Unissued, IInv, Issued, TypeOK
<1>3. file'[id] = id /\ \A n \in Names \ {id} : file'[n] = file[n]
  BY <1>1, <1>2
<1>4. FilesForRows'
  BY <1>1, <1>2, <1>3, NameFacts DEF Together, FilesForRows, ActiveIds, MovedFrom
<1>5. RowsForFiles'
  BY <1>1, <1>2, <1>3, NameFacts DEF Together, RowsForFiles, MovedTo
<1>6. ServedByRow'
  <2>1. served # None => served.name \in Names
    BY DEF IInv, TypeOK
  <2> QED BY <2>1, <1>1, <1>2, <1>3 DEF Together, ServedByRow
<1>7. StateFollows'
  <2>1. \A d \in Names \ {id} : Held(d)' <=> Held(d)
    BY <1>2, <1>3, NameFacts DEF Held
  <2>2. \A n \in Names : ls[n] # None => ls[n].db \in Names
    BY NameFacts DEF IInv, TypeOK
  <2> QED BY <2>1, <2>2, <1>1, <1>2, <1>3 DEF Together, StateFollows
<1> QED BY <1>4, <1>5, <1>6, <1>7 DEF Together

LEMMA CreateCommitsTogether ==
  ASSUME IInv, Together, CreateCommits
  PROVE  Together'
<1>1. /\ op.at = "written" /\ op'.at = "-"
      /\ rows' = [rows EXCEPT ![op.to] = [handle |-> op.handle, state |-> "Active"]]
      /\ \/ served' = [handle |-> op.handle, name |-> op.to, db |-> op.to]
         \/ served' = served
      /\ UNCHANGED <<minted, file, ls, data>>
  BY DEF CreateCommits, Idle, disk, history
<1>2. /\ op.to \in minted /\ op.to \in Ids /\ file[op.to] = op.to /\ op.to # None
      /\ rows \in [Ids -> Rows \cup {None}]
  BY <1>1, NameFacts DEF IInv, TypeOK, CommandInv, Halfway
<1>3. rows'[op.to] # None /\ \A id \in Ids \ {op.to} : rows'[id] = rows[id]
  <2>1. [handle |-> op.handle, state |-> "Active"] \in Rows
    BY <1>1 DEF Rows, IInv, CommandInv, Halfway
  <2> QED BY <2>1, <1>1, <1>2, NoneIsNoRow
<1>4. FilesForRows'
  BY <1>1, <1>2, <1>3 DEF Together, FilesForRows, ActiveIds, MovedFrom
<1>5. RowsForFiles'
  BY <1>1, <1>3 DEF Together, RowsForFiles, MovedTo
<1>6. ServedByRow'
  BY <1>1, <1>2, <1>3 DEF Together, ServedByRow
<1>7. StateFollows'
  BY <1>1 DEF Together, StateFollows, Held
<1> QED BY <1>4, <1>5, <1>6, <1>7 DEF Together

LEMMA PurgeTogether ==
  ASSUME IInv, Together, (\E id \in Ids : PurgeFile(id)) \/ PurgeRow
  PROVE  Together'
<1>1. /\ UNCHANGED <<minted, data, ls, served>> /\ ~Busy /\ ~Busy'
      /\ rows \in [Ids -> Rows \cup {None}] /\ file \in [Names -> Names \cup {None}]
  <2>1. rows \in [Ids -> Rows \cup {None}] /\ file \in [Names -> Names \cup {None}]
    BY NameFacts DEF IInv, TypeOK
  <2>2. CASE \E id \in Ids : PurgeFile(id)
    <3>1. PICK id \in Ids : PurgeFile(id)
      BY <2>2
    <3>2. op'.at = "unlinked" /\ op.at = "-" /\ UNCHANGED <<minted, data, ls, served>>
      BY <3>1 DEF PurgeFile, Idle, history
    <3> QED BY <3>2, <2>1 DEF Busy
  <2>3. CASE PurgeRow
    BY <2>1, <2>3 DEF PurgeRow, Idle, Busy, disk, history
  <2> QED BY <2>2, <2>3
<1>2. CASE \E id \in Ids : PurgeFile(id)
  <2>1. PICK id \in Ids : PurgeFile(id)
    BY <1>2
  <2>2. /\ rows' = rows /\ file'[id] = None /\ id \in Names
        /\ \A n \in Names \ {id} : file'[n] = file[n]
        /\ id \notin ActiveIds
    BY <2>1, <1>1, NameFacts DEF PurgeFile, PurgeMay, ActiveIds
  <2>3. FilesForRows'
    BY <2>2, <1>1, NameFacts DEF Together, FilesForRows, ActiveIds, MovedFrom, Busy
  <2>4. RowsForFiles'
    <3>1. None \notin data
      BY NameFacts DEF IInv, TypeOK
    <3> QED BY <3>1, <2>2, <1>1, NameFacts DEF Together, RowsForFiles, MovedTo, Busy
  <2>5. ServedByRow'
    <3>1. served # None => served.name \in Names /\ served.db # None
      BY NameFacts DEF IInv, TypeOK
    <3> QED BY <3>1, <2>2, <1>1 DEF Together, ServedByRow
  <2>6. StateFollows'
    <3>1. \A d \in Names : Held(d)' => Held(d)
      BY <2>2, NameFacts DEF Held
    <3>2. \A n \in Names : ls[n] # None => ls[n].db \in Names
      BY NameFacts DEF IInv, TypeOK
    <3>3. file[id] # None => \A n \in Names : file'[n] # file[id]
      BY <2>2 DEF IInv, OneWholeCopy
    <3>4. \A d \in Names : d = file[id] => ~Held(d)'
      BY <3>3, NameFacts DEF Held
    <3> QED BY <3>1, <3>2, <3>4, <2>2, <1>1 DEF Together, StateFollows, Busy
  <2> QED BY <2>3, <2>4, <2>5, <2>6 DEF Together
<1>3. CASE PurgeRow
  <2>1. /\ rows' = [rows EXCEPT ![op.to] = None] /\ file' = file
        /\ op.to \in Ids /\ op.to \in Names /\ file[op.to] = None
    BY <1>3, NameFacts DEF PurgeRow, disk, IInv, CommandInv, Halfway
  <2>2. FilesForRows'
    BY <2>1, <1>1 DEF Together, FilesForRows, ActiveIds, MovedFrom, Busy
  <2>3. RowsForFiles'
    <3>1. None \notin data
      BY NameFacts DEF IInv, TypeOK
    <3> QED BY <3>1, <2>1, <1>1 DEF Together, RowsForFiles, MovedTo, Busy
  <2>4. ServedByRow'
    <3>1. served # None => served.name \in Names /\ served.db # None
      BY NameFacts DEF IInv, TypeOK
    <3> QED BY <3>1, <2>1, <1>1 DEF Together, ServedByRow
  <2>5. StateFollows'
    BY <2>1, <1>1 DEF Together, StateFollows, Busy, Held
  <2> QED BY <2>2, <2>3, <2>4, <2>5 DEF Together
<1> QED BY <1>2, <1>3

LEMMA ServingTogether ==
  ASSUME IInv, Together, ServesSome \/ Commit \/ Replicate
  PROVE  Together'
<1>1. CASE ServesSome
  <2>1. PICK h \in Handles : Serve(h)
    BY <1>1 DEF ServesSome
  <2>2. PICK n \in Resolved(h) : served' = [handle |-> h, name |-> n, db |-> file[n]]
    BY <2>1 DEF Serve
  <2>3. UNCHANGED <<rows, minted, file, ls, data, op>>
    BY <2>1 DEF Serve, disk, history
  <2>4. n \in Ids => n \in minted /\ rows[n] # None
    <3>1. n \in Ids => n \in Lookup(h)
      BY NameFacts DEF Resolved
    <3> QED BY <3>1 DEF Lookup, ActiveIds, IInv, Issued
  <2>5. ServedByRow'
    BY <2>2, <2>3, <2>4 DEF ServedByRow
  <2> QED BY <2>3, <2>5 DEF Together, FilesForRows, RowsForFiles, StateFollows, ActiveIds,
             MovedFrom, MovedTo, Held
<1>2. CASE Commit
  <2>1. /\ UNCHANGED <<rows, minted, file, ls, op, served>>
        /\ served # None /\ file[served.name] = served.db /\ served.name \in Names
        /\ data' = data \cup {served.db} /\ served.db # None
    BY <1>2, NameFacts DEF Commit, IInv, TypeOK
  <2>2. RowsForFiles'
    <3>1. \A id \in Ids : file[id] = served.db => id = served.name
      BY <2>1, NameFacts DEF IInv, OneWholeCopy
    <3>2. \A id \in Ids : file[id] = served.db => rows[id] # None
      BY <3>1, <2>1 DEF Together, ServedByRow
    <3>3. served.db \in Ids => served.db \in minted
      BY <2>1 DEF IInv, Issued, Held
    <3> QED BY <3>2, <3>3, <2>1 DEF Together, RowsForFiles, MovedTo
  <2> QED BY <2>1, <2>2 DEF Together, FilesForRows, ServedByRow, StateFollows, ActiveIds,
             MovedFrom, Held
<1>3. CASE Replicate
  <2>1. /\ UNCHANGED <<rows, minted, file, data, op, served>>
        /\ ls' = [n \in Names |-> IF file[n] # None /\ ls[n] = None
                                  THEN [db |-> file[n], stem |-> Stem(n)] ELSE ls[n]]
    BY <1>3 DEF Replicate, history
  <2>2. StateFollows'
    <3>1. \A n \in Names : file[n] \in Ids => file[n] \in minted
      BY DEF IInv, Issued, Held
    <3>2. \A n \in Names : ls'[n] = ls[n] \/ ls'[n] = [db |-> file[n], stem |-> Stem(n)]
      BY <2>1
    <3> QED BY <3>1, <3>2, <2>1 DEF Together, StateFollows, Held
  <2> QED BY <2>1, <2>2 DEF Together, FilesForRows, RowsForFiles, ServedByRow, ActiveIds,
             MovedFrom, MovedTo
<1> QED BY <1>1, <1>2, <1>3

LEMMA RenameFileTogether ==
  ASSUME IInv, Together, RenameFile
  PROVE  Together'
<1>1. /\ op.at = "ready" /\ Relocating
      /\ file' = [file EXCEPT ![op.to] = file[op.from], ![op.from] = None]
      /\ op' = [op EXCEPT !.at = "moved"]
      /\ UNCHANGED <<rows, minted, ls, data, served>>
  BY DEF RenameFile, Relocating, history
<1>2. /\ op'.cmd = op.cmd /\ op'.at = "moved" /\ op'.from = op.from /\ op'.to = op.to
      /\ op.from \in Names /\ op.to \in Names /\ op.from # op.to /\ served = None
      /\ op.cmd \in Moves /\ op.handle \in Handles
  BY <1>1, EndFacts
<1>3. /\ file'[op.to] = file[op.from] /\ file'[op.from] = None
      /\ \A n \in Names \ {op.from, op.to} : file'[n] = file[n]
      /\ file[op.from] # None /\ file[op.to] = None /\ ls[op.to] = None
  BY <1>1, EndFacts DEF IInv, CommandInv, Underway
<1>4. /\ op.from \in Ids => op.cmd = "unmigrate"
      /\ op.to \in Ids => op.cmd = "migrate"
  BY <1>1, <1>2, NameFacts DEF IInv, CommandInv, Ends, Moves
<1>5. FilesForRows'
  <2> SUFFICES ASSUME NEW id \in ActiveIds, file'[id] = None
               PROVE  op.cmd = "unmigrate" /\ id = op.from
    BY <1>1, <1>2 DEF FilesForRows, ActiveIds, MovedFrom
  <2>1. id \in Ids /\ id \in Names /\ file[id] # None
    BY <1>1, NameFacts DEF Together, FilesForRows, ActiveIds, MovedFrom
  <2> QED BY <2>1, <1>3, <1>4
<1>6. RowsForFiles'
  <2>1. None \notin data
    BY NameFacts DEF IInv, TypeOK
  <2> SUFFICES ASSUME NEW id \in Ids, file'[id] \in data, rows[id] = None
               PROVE  op.cmd = "migrate" /\ id = op.to
    BY <1>1, <1>2 DEF Together, RowsForFiles, MovedTo
  <2>2. file[id] \notin data
    BY <1>1 DEF Together, RowsForFiles, MovedTo
  <2> QED BY <2>1, <2>2, <1>3, <1>4, NameFacts
<1>7. ServedByRow'
  BY <1>1, <1>2 DEF ServedByRow
<1>8. StateFollows'
  <2>1. \A d \in Names : Held(d)' <=> Held(d)
    BY <1>2, <1>3, NameFacts DEF Held
  <2>2. \A n \in Names : ls[n] # None => ls[n].db \in Names
    BY NameFacts DEF IInv, TypeOK
  <2> QED BY <2>1, <2>2, <1>1, <1>2, <1>3 DEF Together, StateFollows
<1> QED BY <1>5, <1>6, <1>7, <1>8 DEF Together

LEMMA SettleStateTogether ==
  ASSUME IInv, Together, SettleState
  PROVE  Together'
<1>1. /\ op.at = "moved" /\ Relocating /\ ls' = MovedState
      /\ op' = [op EXCEPT !.at = "settled"]
      /\ UNCHANGED <<rows, minted, file, data, served>>
  BY DEF SettleState, Relocating, history
<1>2. /\ op'.cmd = op.cmd /\ op'.at = "settled" /\ op'.from = op.from /\ op'.to = op.to
      /\ op.from \in Names /\ op.to \in Names /\ op.from # op.to
      /\ ls \in [Names -> [db : Databases, stem : Ids \cup Handles] \cup {None}]
  BY <1>1, EndFacts DEF IInv, TypeOK
<1>3. /\ ls[op.to] = None
      /\ ls[op.from] # None =>
            ls[op.from] = [db |-> file[op.to], stem |-> Stem(op.from)]
  BY <1>1 DEF IInv, CommandInv, Underway
<1>4. /\ ls'[op.from] = None
      /\ \A n \in Names \ {op.from, op.to} : ls'[n] = ls[n]
      /\ ls'[op.to] # None => ls'[op.to] = ls[op.from] /\ ls[op.from] # None
  BY <1>1, <1>2, <1>3 DEF MovedState
<1>5. FilesForRows' /\ RowsForFiles' /\ ServedByRow'
  BY <1>1, <1>2 DEF Together, FilesForRows, RowsForFiles, ServedByRow, ActiveIds,
     MovedFrom, MovedTo
<1>6. StateFollows'
  BY <1>1, <1>2, <1>3, <1>4 DEF Together, StateFollows, Held
<1> QED BY <1>5, <1>6 DEF Together

LEMMA LandTogether ==
  ASSUME IInv, Together, Land
  PROVE  Together'
<1>1. /\ op.at = "settled" /\ Relocating /\ op'.at = "next"
      /\ rows' = CASE op.cmd = "migrate" ->
                        [rows EXCEPT ![op.to] = [handle |-> op.handle, state |-> "Active"]]
                   [] op.cmd = "unmigrate" -> [rows EXCEPT ![op.from] = None]
                   [] OTHER -> rows
      /\ UNCHANGED <<minted, file, ls, data, served>>
  BY DEF Land, Idle, Relocating, disk, history
<1>2. /\ served = None /\ op.handle \in Handles /\ op.cmd \in Moves
      /\ file[op.from] = None /\ file[op.to] # None
      /\ rows \in [Ids -> Rows \cup {None}]
  BY <1>1, EndFacts DEF IInv, TypeOK
<1>3. /\ op.from \in Ids => op.cmd = "unmigrate"
      /\ op.to \in Ids => op.cmd = "migrate"
      /\ op.cmd = "migrate" => op.to \in Ids
      /\ op.cmd = "unmigrate" => op.from \in Ids
  BY <1>1, <1>2, NameFacts DEF IInv, TypeOK, CommandInv, Ends, Moves, ActiveIds
<1>4. [handle |-> op.handle, state |-> "Active"] # None
  BY <1>2, NoneIsNoRow DEF Rows
<1>5. /\ op.cmd = "migrate" => rows'[op.to] # None
      /\ op.cmd = "unmigrate" => rows'[op.from] = None
      /\ \A id \in Ids \ {op.from, op.to} : rows'[id] = rows[id]
  BY <1>1, <1>2, <1>3, <1>4
<1>6. FilesForRows'
  BY <1>1, <1>2, <1>3, <1>5 DEF Together, FilesForRows, ActiveIds, MovedFrom
<1>7. RowsForFiles'
  <2>1. None \notin data
    BY NameFacts DEF IInv, TypeOK
  <2> QED BY <2>1, <1>1, <1>2, <1>3, <1>5 DEF Together, RowsForFiles, MovedTo
<1>8. ServedByRow' /\ StateFollows'
  BY <1>1, <1>2 DEF Together, ServedByRow, StateFollows, Held
<1> QED BY <1>6, <1>7, <1>8 DEF Together

LEMMA MoveFailsTogether ==
  ASSUME IInv, Together, MoveFails, op.at # "ready"
  PROVE  Together'
<1>1. /\ op.at \in {"moved", "settled"} /\ Relocating /\ op'.at = "-"
      /\ file' = MovedBack
      /\ UNCHANGED <<rows, minted, ls, data, served>>
  BY DEF MoveFails, RelocateFails, RegistryFails, Relocating, Idle, history
<1>2. /\ op.from \in Names /\ op.to \in Names /\ op.from # op.to /\ served = None
      /\ op.handle \in Handles /\ op.cmd \in Moves
      /\ file'[op.from] = file[op.to] /\ file'[op.to] = None
      /\ \A n \in Names \ {op.from, op.to} : file'[n] = file[n]
      /\ file[op.from] = None /\ file[op.to] # None
  BY <1>1, EndFacts DEF MovedBack
<1>3. /\ op.from \in Ids => rows[op.from] # None
      /\ op.to \in Ids => op.to \notin ActiveIds
  BY <1>1, <1>2, NameFacts DEF IInv, CommandInv, Ends, Moves, ActiveIds
<1>4. FilesForRows'
  BY <1>1, <1>2, <1>3, NameFacts DEF Together, FilesForRows, ActiveIds, MovedFrom
<1>5. RowsForFiles'
  <2>1. None \notin data
    BY NameFacts DEF IInv, TypeOK
  <2> QED BY <2>1, <1>1, <1>2, <1>3, NameFacts DEF Together, RowsForFiles, MovedTo
<1>6. ServedByRow'
  BY <1>1, <1>2 DEF ServedByRow
<1>7. StateFollows'
  <2>1. \A d \in Names : Held(d)' <=> Held(d)
    BY <1>2, NameFacts DEF Held
  <2>2. \A n \in Names : ls[n] # None => ls[n].db \in Names
    BY NameFacts DEF IInv, TypeOK
  <2>3. ls[op.from] # None => op.at = "moved" /\ ls[op.from].db = file[op.to]
    BY <1>1 DEF IInv, CommandInv, Underway
  <2>4. ls[op.to] = None
    BY <1>1 DEF MoveFails, RelocateFails, RegistryFails, IInv, CommandInv, Underway
  <2> QED BY <2>1, <2>2, <2>3, <2>4, <1>1, <1>2 DEF Together, StateFollows
<1> QED BY <1>4, <1>5, <1>6, <1>7 DEF Together

LEMMA OperatorTogether ==
  ASSUME IInv, Together, Provision \/ Purge
  PROVE  Together'
<1>1. ASSUME NEW h \in Handles, Create(h) \/ ServeFresh(h) PROVE Together'
  BY <1>1, WriteNewTogether DEF Create, ServeFresh
<1>2. ASSUME NEW h \in Handles, NEW g \in Handles, Rename(h, g) PROVE Together'
  <2>1. PICK id \in Lookup(h) : rows' = [rows EXCEPT ![id].handle = g]
    BY <1>2 DEF Rename
  <2>2. op.at = "-" /\ UNCHANGED <<minted, file, ls, data, op, served>>
    BY <1>2 DEF Rename, Idle, disk
  <2>3. rows \in [Ids -> Rows \cup {None}] /\ id \in Ids /\ rows[id] \in Rows
    BY DEF IInv, TypeOK, Lookup, ActiveIds
  <2>4. /\ rows'[id] \in Rows /\ rows'[id].state = rows[id].state
        /\ \A i \in Ids \ {id} : rows'[i] = rows[i]
    BY <2>1, <2>3 DEF Rows
  <2> QED BY <2>2, <2>3, <2>4, QuietStep, NoneIsNoRow DEF Busy, ActiveIds
<1>3. ASSUME NEW h \in Handles, Detach(h) PROVE Together'
  <2>1. PICK id \in Lookup(h) : rows' = [rows EXCEPT ![id].state = "Detached"]
    BY <1>3 DEF Detach
  <2>2. op.at = "-" /\ UNCHANGED <<minted, file, ls, data, op, served>>
    BY <1>3 DEF Detach, Idle, disk
  <2>3. rows \in [Ids -> Rows \cup {None}] /\ id \in Ids /\ rows[id] \in Rows
    BY DEF IInv, TypeOK, Lookup, ActiveIds
  <2>4. /\ rows'[id] \in Rows /\ rows'[id].state = "Detached"
        /\ \A i \in Ids \ {id} : rows'[i] = rows[i]
    BY <2>1, <2>3 DEF Rows
  <2> QED BY <2>2, <2>3, <2>4, QuietStep, NoneIsNoRow DEF Busy, ActiveIds
<1>4. CASE CreateFails
  <2>1. /\ op.at = "written" /\ op'.at = "-"
        /\ UNCHANGED <<rows, minted, file, ls, data, served>>
    BY <1>4 DEF CreateFails, Idle, disk, history
  <2> QED BY <2>1, QuietStep DEF Busy, ActiveIds
<1>5. CASE PurgeState
  <2>1. /\ op.at = "unlinked" /\ op'.at = "cleared"
        /\ UNCHANGED <<rows, minted, file, data, served>>
        /\ ls' = [ls EXCEPT ![op.to] = None] \/ ls' = ls
    BY <1>5 DEF PurgeState, history, IInv, TypeOK
  <2>2. \A n \in Names : ls'[n] \in {ls[n], None}
    BY <2>1 DEF IInv, TypeOK
  <2> QED BY <2>1, <2>2, QuietStep DEF Busy, ActiveIds
<1> QED BY <1>1, <1>2, <1>3, <1>4, <1>5, CreateCommitsTogether, PurgeTogether
       DEF Provision, Purge

LEMMA RelocateTogether ==
  ASSUME IInv, Together, Relocate
  PROVE  Together'
<1>1. ASSUME NEW cmd \in Moves, NEW h \in Handles, StartMove(cmd, h) PROVE Together'
  <2>1. /\ op.at = "-" /\ op'.at = "next"
        /\ UNCHANGED <<rows, minted, file, ls, data, served>>
    BY <1>1 DEF StartMove, Idle, disk, history
  <2> QED BY <2>1, QuietStep DEF Busy, ActiveIds
<1>2. ASSUME NEW from \in Names, NEW to \in Names, TakeNext(from, to) PROVE Together'
  <2>1. /\ op.at = "next" /\ op'.at = "ready" /\ minted \subseteq minted'
        /\ UNCHANGED <<rows, file, ls, data, served>>
    BY <1>2 DEF TakeNext, history, IInv, TypeOK
  <2> QED BY <2>1, QuietStep DEF Busy, ActiveIds
<1>3. ASSUME Finish \/ (MoveFails /\ op.at = "ready") PROVE Together'
  <2>1. /\ op.at \in {"next", "ready"} /\ op'.at = "-"
        /\ UNCHANGED <<rows, minted, file, ls, data, served>>
    BY <1>3 DEF Finish, MoveFails, RelocateFails, RegistryFails, Idle, disk, history
  <2> QED BY <2>1, QuietStep DEF Busy, ActiveIds
<1> QED BY <1>1, <1>2, <1>3, RenameFileTogether, SettleStateTogether, LandTogether,
           MoveFailsTogether DEF Relocate

\* Only a crash counts as one.
LEMMA CrashesCount ==
  ASSUME IInv, [Next]_vars, ~Crash
  PROVE  crashes' = crashes
<1>1. CASE Provision
  <2>1. ASSUME NEW h \in Handles, Create(h) \/ ServeFresh(h) \/ Detach(h)
        PROVE  crashes' = crashes
    BY <2>1 DEF Create, ServeFresh, WriteNew, Detach, counts
  <2>2. ASSUME NEW h \in Handles, NEW g \in Handles, Rename(h, g)
        PROVE  crashes' = crashes
    BY <2>2 DEF Rename, counts
  <2>3. ASSUME CreateCommits \/ CreateFails
        PROVE  crashes' = crashes
    BY <2>3 DEF CreateCommits, CreateFails, counts
  <2> QED BY <1>1, <2>1, <2>2, <2>3 DEF Provision
<1>2. CASE Purge
  BY <1>2 DEF Purge, PurgeFile, PurgeState, PurgeRow, counts
<1>3. CASE Relocate
  <2>1. ASSUME NEW cmd \in Moves, NEW h \in Handles, StartMove(cmd, h)
        PROVE  crashes' = crashes
    BY <2>1 DEF StartMove, counts
  <2>2. ASSUME NEW from \in Names, NEW to \in Names, TakeNext(from, to)
        PROVE  crashes' = crashes
    BY <2>2 DEF TakeNext, counts
  <2>3. ASSUME Finish \/ RenameFile \/ SettleState \/ Land \/ MoveFails
        PROVE  crashes' = crashes
    BY <2>3 DEF Finish, RenameFile, SettleState, Land, MoveFails, counts
  <2> QED BY <1>3, <2>1, <2>2, <2>3 DEF Relocate
<1>4. CASE Run
  BY <1>4 DEF Run, Serve, Commit, Close, Replicate, counts
<1>5. CASE UNCHANGED vars
  BY <1>5 DEF vars
<1> QED BY <1>1, <1>2, <1>3, <1>4, <1>5, CloneFacts DEF Next, ClonesSome

\* What a clone fills belongs to an active row.
LEMMA CloneTogether ==
  ASSUME IInv, Together, ClonesSome
  PROVE  Together'
<1>1. /\ UNCHANGED <<rows, minted, file, ls, op, served>> /\ op = Idle
  BY CloneFacts
<1>2. PICK dst \in ActiveIds : /\ dst \in Names /\ file[dst] \in Databases
                              /\ data' \in {data \cup {file[dst]}, data \ {file[dst]}}
  BY CloneFacts
<1>3. \A id \in Ids : file[id] = file[dst] => rows[id] # None
  <2>1. \A id \in Ids : file[id] = file[dst] => id = dst
    BY <1>2, NameFacts DEF IInv, OneWholeCopy
  <2> QED BY <2>1, <1>2 DEF ActiveIds
<1>4. file[dst] \in Ids => file[dst] \in minted
  BY <1>2 DEF IInv, Issued, Held
<1>5. RowsForFiles'
  BY <1>1, <1>2, <1>3, <1>4 DEF Together, RowsForFiles, MovedTo
<1> QED BY <1>1, <1>5 DEF Together, FilesForRows, ServedByRow, StateFollows, ActiveIds,
           MovedFrom, Held

LEMMA NextTogether ==
  ASSUME IInv, Together, [Next]_vars, ~Crash
  PROVE  Together'
<1>1. ~Crash
  OBVIOUS
<1>2. CASE Run
  <2>1. CASE Close
    <3>1. UNCHANGED <<rows, minted, file, ls, data, op>> /\ served' = None
      BY <2>1 DEF Close, history
    <3> QED BY <3>1 DEF Together, FilesForRows, RowsForFiles, ServedByRow, StateFollows,
               ActiveIds, MovedFrom, MovedTo, Held
  <2> QED BY <1>2, <2>1, ServingTogether DEF Run, ServesSome
<1>3. CASE UNCHANGED vars
  BY <1>3 DEF vars, Together, FilesForRows, RowsForFiles, ServedByRow, StateFollows,
     ActiveIds, MovedFrom, MovedTo, Held
<1> QED BY <1>1, <1>2, <1>3, OperatorTogether, RelocateTogether, CloneTogether DEF Next, ClonesSome

LEMMA InitTogether == Init => Together
<1> SUFFICES ASSUME Init PROVE Together
  OBVIOUS
<1>1. PICK there \in SUBSET (Names \ Ids) :
          /\ file = [n \in Names |-> IF n \in there THEN n ELSE None]
          /\ data = there
  BY DEF Init
<1>2. /\ rows = [id \in Ids |-> None] /\ ls = [n \in Names |-> None] /\ served = None
  BY DEF Init
<1> QED BY <1>1, <1>2, NameFacts DEF Together, FilesForRows, RowsForFiles, ServedByRow,
           StateFollows, ActiveIds

THEOREM TogetherWithoutCrashes == Spec => [](crashes = 0 => Together)
<1>1. IInv /\ (crashes = 0 => Together) /\ [Next]_vars => (crashes = 0 => Together)'
  <2> SUFFICES ASSUME IInv, crashes = 0 => Together, [Next]_vars, crashes' = 0
               PROVE  Together'
    OBVIOUS
  <2>1. ~Crash
    BY DEF Crash, IInv, TypeOK
  <2>2. Together
    BY <2>1, CrashesCount
  <2> QED BY <2>1, <2>2, NextTogether
<1>2. Init => (crashes = 0 => Together)
  BY InitTogether
<1> QED BY <1>1, <1>2, Inductive, PTL DEF Spec

\* No failure leaves, between commands, a user pointing at a file that is not
\* there, as long as no command is cut off by a crash.
THEOREM UsersKeepTheirFiles == Spec => []ActiveRowHasItsFile
<1>1. (crashes = 0 => Together) => ActiveRowHasItsFile
  BY DEF Together, FilesForRows, MovedFrom, ActiveRowHasItsFile, Idle
<1> QED BY <1>1, TogetherWithoutCrashes, PTL

\* Nor a collection under an id no row names.
THEOREM CollectionsKeepTheirRows == Spec => []Attributable
<1>1. (crashes = 0 => Together) => Attributable
  BY DEF Together, RowsForFiles, MovedTo, Attributable, Idle
<1> QED BY <1>1, TogetherWithoutCrashes, PTL

\* Registry and disk tell of the same collections.
THEOREM RegistryMatchesDisk == Spec => []RowsMatchFiles
<1>1. ActiveRowHasItsFile /\ Attributable => RowsMatchFiles
  BY DEF RowsMatchFiles
<1> QED BY <1>1, UsersKeepTheirFiles, CollectionsKeepTheirRows, PTL

\* Nor replica state at the other of the two places adopt and revert move between.
THEOREM StateFollowsItsDatabase == Spec => []StateTravelsAlong
<1>1. IInv /\ (crashes = 0 => Together) => StateTravelsAlong
  <2> SUFFICES ASSUME IInv, Together, op = Idle, NEW m \in Names, NEW n \in Names,
                      m # n, file[n] # None, ls[m] # None
               PROVE  ls[m].db # file[n]
    BY NameFacts DEF StateTravelsAlong
  <2>1. file[m] = ls[m].db \/ ~Held(ls[m].db)
    BY DEF Together, StateFollows, Idle
  <2> QED BY <2>1 DEF Held, IInv, OneWholeCopy
<1> QED BY <1>1, Inductive, TogetherWithoutCrashes, PTL
=============================================================================
