------------------------------ MODULE Tenants ------------------------------
(* crates/pkdump-db/src/tenants.rs: the user registry (handle ->            *)
(* database_id) and the collection databases it names.  A database is a     *)
(* file under one of three names: an issued id or a handle in tenants/, or  *)
(* a handle at the root of the data directory (the layout before tenants/). *)
(* Beside it may sit Litestream's state directory and a WAL with frames not *)
(* yet in the file.                                                         *)
(*                                                                          *)
(* One operator command runs at a time (op); the process that serves a      *)
(* collection (served) is stopped before a migration starts, as adopt's and *)
(* migrate's docs require.  Every command is as many steps as it has        *)
(* effects on disk, and a crash may fall between any two.                   *)
EXTENDS FiniteSets, Naturals

CONSTANTS Handles,     \* names users are known by
          Ids,         \* database ids the registry may issue
          None,
          MaxOld,      \* bound: databases of the old layouts lying there at the start
          MaxFaults    \* bound: operations of the file system or registry that fail,
                       \* and times the machine stops mid-command, together

ASSUME BoundsAreNat == MaxFaults \in Nat /\ MaxOld \in Nat

VARIABLES
    rows,     \* registry.sqlite: id -> None or the row of that database_id
    minted,   \* ids issued so far; a ULID is never issued twice
    file,     \* name -> the database whose bytes are there
    ls,       \* name -> Litestream's state directory beside it
    wal,      \* names whose -wal holds committed frames
    data,     \* databases that hold somebody's rows
    owner,    \* database -> the handle whose collection it is (history)
    released, \* databases whose holder was detached (history)
    named,    \* id -> the database its row was made for, wherever that is (history)
    astray,   \* databases whose row was renamed or detached while they lay under
              \* another name than the row's (history)
    op,       \* the operator command in progress
    served,   \* the collection a process has open
    faults, crashes

disk == <<file, ls, wal>>
history == <<data, owner, released, named, astray>>
counts == <<faults, crashes>>
vars == <<rows, minted, file, ls, wal, data, owner, released, named, astray,
          op, served, faults, crashes>>

At(h) == <<"tenants", h>>
Legacy(h) == <<"root", h>>
Names == Ids \cup {At(h) : h \in Handles} \cup {Legacy(h) : h \in Handles}
Stem(n) == IF n \in Ids THEN n ELSE n[2]
InTenants == Ids \cup {At(h) : h \in Handles}

ASSUME NoneIsNoName == None \notin Handles \cup Names
ASSUME IdsAreNoHandles == \A h \in Handles : At(h) \notin Ids /\ Legacy(h) \notin Ids

(* A database is called by the name it was first written under. *)
Databases == Names

Rows == [handle : Handles, state : {"Active", "Detached"}]
ASSUME NoneIsNoRow == None \notin Rows

Idle == [cmd |-> "idle", at |-> "-", handle |-> None, from |-> None,
         to |-> None, todo |-> {}]
Moves == {"adopt", "revert", "migrate", "unmigrate"}
Moving == op.cmd \in Moves

ActiveIds == {id \in Ids : rows[id] # None /\ rows[id].state = "Active"}
(* Mutant: detached rows are found too. *)
LookupAny(h) == {id \in Ids : rows[id] # None /\ rows[id].handle = h}

Lookup(h) == {id \in ActiveIds : rows[id].handle = h}
DatabasesOnDisk == {n \in InTenants : file[n] # None}
Held(d) == \E n \in Names : file[n] = d
Unissued == Ids \ minted

Init ==
    /\ rows = [id \in Ids |-> None]
    /\ minted = {}
    /\ \E there \in {t \in SUBSET (Names \ Ids) : Cardinality(t) <= MaxOld} :
          /\ file = [n \in Names |-> IF n \in there THEN n ELSE None]
          /\ owner = [d \in Databases |-> IF d \in there THEN d[2] ELSE None]
          /\ data = there
    /\ ls = [n \in Names |-> None]
    /\ wal = {}
    /\ released = {} /\ astray = {}
    /\ named = [id \in Ids |-> None]
    /\ op = Idle
    /\ served = None
    /\ faults = 0 /\ crashes = 0

-----------------------------------------------------------------------------
(* create: the row is inserted in a transaction that stays open while the   *)
(* database is written, then committed.  cmd says who asked: the operator   *)
(* ("create"), or resolve on a data directory that holds nobody ("serve").  *)

WriteNew(cmd, h) ==
    /\ op = Idle /\ Lookup(h) = {}
    /\ \E id \in Unissued :
          /\ minted' = minted \cup {id}
          /\ file' = [file EXCEPT ![id] = id]
          /\ owner' = [owner EXCEPT ![id] = h]
          /\ op' = [Idle EXCEPT !.cmd = cmd, !.at = "written", !.handle = h,
                                !.to = id]
    /\ UNCHANGED <<rows, ls, wal, data, released, named, astray, served, counts>>

Create(h) == WriteNew("create", h)

CreateCommits ==
    /\ op.at = "written"
    /\ rows' = [rows EXCEPT ![op.to] = [handle |-> op.handle, state |-> "Active"]]
    /\ named' = [named EXCEPT ![op.to] = file[op.to]]
    /\ served' = IF op.cmd = "serve"
                 THEN [handle |-> op.handle, name |-> op.to, db |-> op.to]
                 ELSE served
    /\ op' = Idle
    /\ UNCHANGED <<minted, disk, data, owner, released, astray, counts>>

CreateFails ==
    /\ op.at = "written"
    /\ faults + crashes < MaxFaults /\ faults' = faults + 1
    /\ op' = Idle
    /\ UNCHANGED <<rows, minted, disk, history, served, crashes>>

(* rename and detach: one UPDATE of the registry; nothing on disk moves.    *)
(* Neither asks for the file, which a cut-off unmigrate has left under the  *)
(* handle: whoever the row tells of, it is their collection all the same.   *)
Strays(id) == IF file[id] = None THEN astray \cup {named[id]} ELSE astray

Rename(h, g) ==
    /\ op = Idle /\ h # g /\ Lookup(g) = {}
    /\ \E id \in Lookup(h) :
          /\ rows' = [rows EXCEPT ![id].handle = g]
          /\ owner' = [owner EXCEPT ![named[id]] = g]
          /\ astray' = Strays(id)
    /\ UNCHANGED <<minted, disk, data, released, named, op, served, counts>>

Detach(h) ==
    /\ op = Idle
    /\ \E id \in Lookup(h) :
          /\ rows' = [rows EXCEPT ![id].state = "Detached"]
          /\ released' = released \cup {named[id]}
          /\ astray' = Strays(id)
    /\ UNCHANGED <<minted, disk, data, owner, named, op, served, counts>>

(* purge: the file and its sidecars, then the Litestream directory (an      *)
(* error there is ignored), then the row.                                   *)
PurgeMay(id) == rows[id] # None /\ rows[id].state = "Detached"

PurgeFile(id) ==
    /\ op = Idle /\ PurgeMay(id)
    /\ file' = [file EXCEPT ![id] = None]
    /\ wal' = wal \ {id}
    /\ op' = [Idle EXCEPT !.cmd = "purge", !.at = "unlinked", !.to = id]
    /\ UNCHANGED <<rows, minted, ls, history, served, counts>>

PurgeState ==
    /\ op.at = "unlinked"
    /\ \/ ls' = [ls EXCEPT ![op.to] = None] /\ UNCHANGED faults
       \/ faults + crashes < MaxFaults /\ faults' = faults + 1 /\ UNCHANGED ls
    /\ op' = [op EXCEPT !.at = "cleared"]
    /\ UNCHANGED <<rows, minted, file, wal, history, served, crashes>>

PurgeRow ==
    /\ op.at = "cleared"
    /\ rows' = [rows EXCEPT ![op.to] = None]
    /\ named' = [named EXCEPT ![op.to] = None]
    /\ op' = Idle
    /\ UNCHANGED <<minted, disk, data, owner, released, astray, served, counts>>

-----------------------------------------------------------------------------
(* adopt, revert, migrate, unmigrate: one relocate for each database the    *)
(* command selects when it starts.                                          *)

Selected(cmd, h) ==
    CASE cmd = "adopt"     -> {Legacy(h)}
      [] cmd = "revert"    -> {At(h)}
      [] cmd = "migrate"   -> {At(g) : g \in {x \in Handles : file[At(x)] # None}}
      [] cmd = "unmigrate" -> ActiveIds

StartMove(cmd, h) ==
    /\ op = Idle /\ served = None
    /\ Selected(cmd, h) # {}
    /\ op' = [Idle EXCEPT !.cmd = cmd, !.at = "next", !.todo = Selected(cmd, h)]
    /\ UNCHANGED <<rows, minted, disk, history, served, counts>>

Targets(cmd, n) ==
    CASE cmd = "adopt"     -> {At(n[2])}
      [] cmd = "revert"    -> {Legacy(n[2])}
      [] cmd = "migrate"   -> IF Lookup(n[2]) = {} THEN Unissued ELSE {}
      [] cmd = "unmigrate" -> {At(rows[n].handle)}

MayMove(from, to) == file[from] # None /\ file[to] = None /\ ls[to] = None

(* Mutant: the file is moved without a checkpoint. *)
TakeNextUnfolded(from, to) ==
    /\ op.at = "next" /\ from \in op.todo
    /\ to \in Targets(op.cmd, from)
    /\ MayMove(from, to)
    /\ minted' = IF op.cmd = "migrate" THEN minted \cup {to} ELSE minted
    /\ op' = [op EXCEPT !.at = "ready", !.from = from, !.to = to,
                        !.handle = IF op.cmd = "unmigrate" THEN rows[from].handle
                                   ELSE from[2]]
    /\ UNCHANGED <<rows, disk, history, served, counts>>

(* The guards of relocate, and the checkpoint that folds the WAL in. *)
TakeNext(from, to) ==
    /\ op.at = "next" /\ from \in op.todo
    /\ to \in Targets(op.cmd, from)
    /\ MayMove(from, to)
    /\ wal' = wal \ {from}
    /\ minted' = IF op.cmd = "migrate" THEN minted \cup {to} ELSE minted
    /\ op' = [op EXCEPT !.at = "ready", !.from = from, !.to = to,
                        !.handle = IF op.cmd = "unmigrate" THEN rows[from].handle
                                   ELSE from[2]]
    /\ UNCHANGED <<rows, file, ls, history, served, counts>>

(* The command ends when nothing is left, or stops at what it refuses to    *)
(* move: what is done stays done.                                           *)
Finish ==
    /\ op.at = "next"
    /\ \/ op.todo = {}
       \/ \E n \in op.todo : \A to \in Targets(op.cmd, n) : ~MayMove(n, to)
    /\ op' = Idle
    /\ UNCHANGED <<rows, minted, disk, history, served, counts>>

RenameFile ==
    /\ op.at = "ready"
    /\ file' = [file EXCEPT ![op.to] = file[op.from], ![op.from] = None]
    /\ op' = [op EXCEPT !.at = "moved"]
    /\ UNCHANGED <<rows, minted, ls, wal, history, served, counts>>

Carries(cmd) == cmd \in {"adopt", "revert"}

(* Mutants: the directory always travels (pd-1717); it never does. *)
MovedStateAlways == [ls EXCEPT ![op.to] = ls[op.from], ![op.from] = None]
MovedStateNever == IF Carries(op.cmd) THEN ls ELSE [ls EXCEPT ![op.from] = None]

MovedState ==
    IF Carries(op.cmd) THEN [ls EXCEPT ![op.to] = ls[op.from], ![op.from] = None]
    ELSE [ls EXCEPT ![op.from] = None]

SettleState ==
    /\ op.at = "moved"
    /\ ls' = MovedState
    /\ wal' = wal \ {op.from}
    /\ op' = [op EXCEPT !.at = "settled"]
    /\ UNCHANGED <<rows, minted, file, history, served, counts>>

(* The registry half: the row migrate inserted is committed, the row        *)
(* unmigrate rolls back is dropped; adopt and revert have none.             *)
Land ==
    /\ op.at = "settled"
    /\ rows' = CASE op.cmd = "migrate" ->
                      [rows EXCEPT ![op.to] = [handle |-> op.handle, state |-> "Active"]]
                 [] op.cmd = "unmigrate" -> [rows EXCEPT ![op.from] = None]
                 [] OTHER -> rows
    /\ named' = CASE op.cmd = "migrate"   -> [named EXCEPT ![op.to] = file[op.to]]
                  [] op.cmd = "unmigrate" -> [named EXCEPT ![op.from] = None]
                  [] OTHER -> named
    /\ op' = [Idle EXCEPT !.cmd = op.cmd, !.at = "next", !.todo = op.todo \ {op.from}]
    /\ UNCHANGED <<minted, disk, data, owner, released, astray, served, counts>>

(* Mutant: the file stays where it was moved. *)
MovedBackNot == file

MovedBack == [file EXCEPT ![op.from] = file[op.to], ![op.to] = None]

(* A failed rename ends the command; a failed Litestream step or registry   *)
(* step puts the file back first.                                           *)
RelocateFails == \/ op.at = "ready" /\ UNCHANGED file
                 \/ op.at = "moved" /\ ls[op.from] # None /\ file' = MovedBack

RegistryFails == op.at = "settled" /\ ~Carries(op.cmd) /\ file' = MovedBack

(* The row of an open transaction was never there.                          *)
MoveFails ==
    /\ RelocateFails \/ RegistryFails
    /\ faults + crashes < MaxFaults /\ faults' = faults + 1
    /\ op' = Idle
    /\ UNCHANGED <<rows, minted, ls, wal, history, served, crashes>>

-----------------------------------------------------------------------------
(* Mutant: only the registry is asked whether anyone is here. *)
FreshByRows == \A id \in Ids : rows[id] = None

(* resolve: the collection a process opens for handle h.                    *)
Fresh == /\ \A id \in Ids : rows[id] = None
         /\ DatabasesOnDisk = {}

Resolved(h) ==
    IF Lookup(h) # {} THEN {id \in Lookup(h) : file[id] # None}
    ELSE {n \in {At(h)} : file[n] # None}

Serve(h) ==
    /\ served = None /\ ~Moving
    /\ \E n \in Resolved(h) : served' = [handle |-> h, name |-> n, db |-> file[n]]
    /\ UNCHANGED <<rows, minted, disk, history, op, counts>>

ServeFresh(h) ==
    /\ served = None
    /\ Lookup(h) = {} /\ file[At(h)] = None /\ file[Legacy(h)] = None
    /\ Fresh
    /\ WriteNew("serve", h)

(* The serving process commits a change; its WAL holds it until the process *)
(* closes the database.                                                     *)
Commit ==
    /\ served # None /\ file[served.name] = served.db
    /\ data' = data \cup {served.db}
    /\ wal' = wal \cup {served.name}
    /\ UNCHANGED <<rows, minted, file, ls, owner, released, named, astray, op, served, counts>>

Close ==
    /\ served # None
    /\ wal' = wal \ {served.name}
    /\ served' = None
    /\ UNCHANGED <<rows, minted, file, ls, history, op, counts>>

(* The Litestream sidecar comes up and starts a state directory beside every *)
(* database that has none; it is stopped during a migration.                *)
Replicate ==
    /\ ~Moving /\ \E n \in Names : file[n] # None /\ ls[n] = None
    /\ ls' = [n \in Names |-> IF file[n] # None /\ ls[n] = None
                              THEN [db |-> file[n], stem |-> Stem(n)] ELSE ls[n]]
    /\ UNCHANGED <<rows, minted, file, wal, history, op, served, counts>>

(* clone: one snapshot of a user's collection replaces another's, in one    *)
(* transaction read back before it commits.  A target that holds rows is    *)
(* refused unless --replace names it; a read-back that differs, or a crash, *)
(* leaves it as it was.  Its WAL outlives the clone if it is being served.  *)
Clone(h, g, replace) ==
    /\ op = Idle /\ h # g
    /\ \E src \in Lookup(h), dst \in Lookup(g) :
          /\ file[src] # None /\ file[dst] # None
          /\ replace \/ file[dst] \notin data
          /\ data' = IF file[src] \in data THEN data \cup {file[dst]} ELSE data \ {file[dst]}
          /\ wal' = IF served # None /\ served.name = dst THEN wal \cup {dst} ELSE wal \ {dst}
    /\ UNCHANGED <<rows, minted, file, ls, owner, released, named, astray, op, served, counts>>

Crash ==
    /\ op # Idle \/ served # None
    /\ faults + crashes < MaxFaults /\ crashes' = crashes + 1
    /\ op' = Idle /\ served' = None
    /\ UNCHANGED <<rows, minted, disk, history, faults>>

Provision == \/ \E h \in Handles : Create(h) \/ ServeFresh(h) \/ Detach(h)
             \/ \E h, g \in Handles : Rename(h, g)
             \/ CreateCommits \/ CreateFails

Purge == (\E id \in Ids : PurgeFile(id)) \/ PurgeState \/ PurgeRow

Relocate == \/ \E cmd \in Moves, h \in Handles : StartMove(cmd, h)
            \/ \E from, to \in Names : TakeNext(from, to)
            \/ Finish \/ RenameFile \/ SettleState \/ Land \/ MoveFails

Run == \/ \E h \in Handles : Serve(h)
       \/ Commit \/ Close
       \/ Replicate

Next == Provision \/ Purge \/ Relocate \/ Run \/ Crash
        \/ \E h, g \in Handles, replace \in BOOLEAN : Clone(h, g, replace)

Spec == Init /\ [][Next]_vars

-----------------------------------------------------------------------------
(* Types of every variable. *)
TypeOK ==
    /\ rows \in [Ids -> Rows \cup {None}]
    /\ minted \subseteq Ids
    /\ file \in [Names -> Databases \cup {None}]
    /\ ls \in [Names -> [db : Databases, stem : Ids \cup Handles] \cup {None}]
    /\ wal \subseteq Names
    /\ data \subseteq Databases
    /\ owner \in [Databases -> Handles \cup {None}]
    /\ released \subseteq Databases /\ astray \subseteq Databases
    /\ named \in [Ids -> Databases \cup {None}]
    /\ op \in [cmd : Moves \cup {"idle", "create", "serve", "purge"},
               at : {"-", "written", "unlinked", "cleared", "next", "ready",
                     "moved", "settled"},
               handle : Handles \cup {None}, from : Names \cup {None},
               to : Names \cup {None}, todo : SUBSET Names]
    /\ served \in [handle : Handles, name : Names, db : Databases] \cup {None}
    /\ faults \in 0..MaxFaults /\ crashes \in 0..MaxFaults

(* No command, failure or crash puts one database under two names, or       *)
(* leaves committed frames in the WAL of a name that has no database: every *)
(* relocate folds the WAL in before the file leaves it behind.              *)
OneWholeCopy ==
    /\ \A m, n \in Names : file[m] # None /\ file[m] = file[n] => m = n
    /\ \A n \in wal : file[n] # None

(* Litestream's state beside a database is that database's own, built       *)
(* against the replica prefix its present name gives it: never a            *)
(* predecessor's, never carried across a change of name (pd-1717), crashes  *)
(* between the rename and the move of the directory included.               *)
ReplicaStateIsOwn ==
    \A n \in Names : file[n] # None /\ ls[n] # None =>
        ls[n] = [db |-> file[n], stem |-> Stem(n)]

(* A process that opens a collection for a handle opens one that belongs to *)
(* that handle's present holder: not a database renamed away, nor one its   *)
(* detached predecessor left behind.  The databases astray are let off: an  *)
(* unmigrate cut off between the rename of the file and the end of the row  *)
(* leaves the file under the handle, rename and detach go by the row alone, *)
(* and resolve then serves that file to whoever asks for the old handle.    *)
ServesItsHolder ==
    [][served = None /\ served' # None /\ served'.db \notin astray' =>
          /\ owner'[served'.db] = served'.handle
          /\ served'.db \notin released']_vars

(* resolve provisions an empty collection under a handle only when no       *)
(* database holding that handle's rows is left on the box, under any name,  *)
(* whatever was interrupted before.                                         *)
NeverComesUpEmpty ==
    [][op.cmd # "serve" /\ op'.cmd = "serve" =>
          \A d \in data : Held(d) => owner[d] # op'.handle \/ d \in released]_vars

(* As long as no command was cut off by a crash:                           *)
(* between commands every active row names a database that is there:        *)
(* create's, migrate's and unmigrate's failure paths keep the two halves    *)
(* together ("no user pointing at a file that does not exist").             *)
ActiveRowHasItsFile ==
    op = Idle /\ crashes = 0 => \A id \in ActiveIds : file[id] # None

(* Likewise, between commands no database that holds anyone's rows sits under an id   *)
(* no row names ("the state this whole design exists to prevent").          *)
Attributable ==
    op = Idle /\ crashes = 0 => \A id \in Ids : file[id] \in data => rows[id] # None

(* The two together: the registry and the disk tell of the same collections. *)
RowsMatchFiles == ActiveRowHasItsFile /\ Attributable

(* Likewise, between commands a database's Litestream state is never left at the      *)
(* other location adopt and revert move between: the two renames go         *)
(* together ("it cannot half-finish").                                      *)
StateTravelsAlong ==
    op = Idle /\ crashes = 0 => \A h \in Handles :
        /\ file[At(h)] # None /\ ls[Legacy(h)] # None => ls[Legacy(h)].db # file[At(h)]
        /\ file[Legacy(h)] # None /\ ls[At(h)] # None => ls[At(h)].db # file[Legacy(h)]

(* Every step is one of the five things that may happen to a database.      *)
Custodian == INSTANCE Custody WITH
    stage <- [d \in Databases |->
                IF d \in astray THEN "astray"
                ELSE CASE Held(d) /\ d \notin released -> "kept"
                       [] Held(d) /\ d \in released    -> "released"
                       [] OTHER -> IF owner[d] = None THEN "unmade" ELSE "gone"],
    holder <- owner

DatabasesAreKept == Custodian!Spec
=============================================================================
