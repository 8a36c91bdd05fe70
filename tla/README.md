# PokeDumpster in TLA+

PokeDumpster is a collection manager for Pokémon cards: a Rust server over one
SQLite file per user and one shared catalog, and beside it a set of offline
jobs that carry ownership changes into an object store, build the catalog from
landed upstream bytes, value collections, and back everything up. Very little
of it is concurrent inside one process. What is hard lies between processes and
between transactions: handlers that are several transactions long, jobs that
are killed half way and run again, logs that are replayed, files that are
renamed under a registry, nights that land short.

This directory models those parts, checks them with TLC on small instances, and
proves the ones that matter most with TLAPS for every value of the constants.

Contents: [inventory](#inventory) · [modules](#modules) · [runs](#runs) ·
[bounds](#bounds) · [fairness](#fairness) · [proofs](#proofs) ·
[what the runs found](#what-the-runs-found) ·
[what was seen besides](#seen-and-not-run) · [not modelled](#not-modelled) ·
[plan](#plan) · [running it](#running-it)

## Inventory

| component (code) | state it keeps | operations | what is hard about it | correct when |
|---|---|---|---|---|
| **Ownership outbox** (`pkdump-db/src/outbox.rs`, triggers in `schema_user.sql`) | `ownership_outbox`, `ownership_emit_log`, AUTOINCREMENT position | triggers on insert/update/delete; `emit` (backfill, redrive by seq or by row); `project` | events of one transaction share a millisecond; backfills arrive after live events; a check before the transaction it guards | reducing the events gives the rows, whichever arrived when; a live change is never outranked; the ledger says what was emitted |
| **JSON envelope** (`json_backup.rs`) | the holdings of one database | `import` replaces every row in one transaction, after a look that the target is empty; export | rows come back under their old ids; the look is outside the transaction | the log still reduces to the rows |
| **Outbox shipper** (`pkdump-ship`; steps in the library `dumpster_kit_ship`) | cursor, gap ledger, parts in the tenant zone, staging tables | run: read, record gaps, put parts, advance the cursor; read back | killed anywhere; rows lost before they ship; files restored | no number is passed unaccounted for, also after a restore; the zone reads back as the collection |
| **Tenants** (`tenants.rs`, `paths.rs`, `registry.rs`) | registry rows, database files under three kinds of name, Litestream directories, WALs | create, rename, detach, purge, adopt, revert, migrate, unmigrate, resolve, clone | disk and registry change in separate steps; either can fail or be cut off | no collection is lost, doubled, or served to another holder |
| **Collection** (`collection.rs`, `binders.rs`, `decks.rs`, `deck_groups.rs`, `orders.rs`, `batches.rs`) | copies, containers, orders, `status_log`, `movement_log` | add, delete, set status, move; make and delete containers; order and receive | handlers of several transactions, ended between any two, retried | both logs tell the truth; deletions succeed on a retry |
| **Unresolved queue** (`unresolved.rs`) | parked import rows | park, resolve, dismiss | the copy is made before the row is marked | a parked row becomes one copy |
| **Nightly landing** (`pkdump data refresh`, `pkdump_derive::land`, `landing.rs`, `retry.rs`) | runs in `raw/`, each with manifests | sets, cards, TCGCSV groups, bulk corpus | any request may fail; it reads the catalog the derivation writes | a run that says it is whole is whole |
| **Nightly derivation** (`pkdump-lake-derive shared`, `pkdump_derive::derive`, `partition.rs`, `tcgcsv.rs`, `set_discovery.rs`, `overrides.rs`, `latest_prices.rs`) | `shared.sqlite` | choose a run, bulk, tail, link groups, load, discover, bridges, expand, latest prices, seeds, provenance | ten phases in many transactions; partial runs; overlap with the landing | upstream's rows stand, provenance is true, a second derivation changes nothing |
| **Database opening** (`connection.rs`, `convergence.rs`, `schema_version.rs`) | `user_version`, convergence fingerprint, seeds, WALs | gate, probe, converge, open for serving, reclaim, snapshot, restore | eight transactions that anything may cut off or run beside; a derivation that holds the write lock; writer against writer with a busy timeout | a matching fingerprint tells the truth; an ordinary restart comes up beside a derivation |
| **Lake tables** (`pkdump-lakehouse`) | two Iceberg tables, snapshots | replace one date, compare with SQLite, read as of a date | two commits; optimistic concurrency; two reductions of the same bytes | no date is doubled or taken back; both reductions agree |
| **Nessie backup** (`pkdump-lakejobs`, `nessie-backup.sh`) | backups in a bucket, the catalog's unit | stop, export, start, put, read back, prune, check, drill, re-register | manifest last; prune beside an upload; a script that is killed with the catalog stopped | the newest complete backup is always restorable; the catalog comes back |
| **Collection value** (`pkdump-value-snapshots`, `value_history.rs`, `prices.rs`) | `collection_value_snapshot` and the row that explains it | daily snapshot, backfill | two tables read one after the other while they are rebuilt; a look before the transaction | the commit named explains the prices; status 0 means everybody |
| **Keys and deletion** (`keys.rs`, `pkdump-erase`) | master key, key registry, a tenant's partition | register, tombstone, list, drop, prove, verify, restore | a deletion beside a shipping run and a read-back; keys lost, registries put back | what is proven gone stays gone |
| **Server** (`pkdump-server`) | one connection per tenant behind a mutex, sessions | routes; identity → tenant | handlers hold the connection for a whole request | one tenant's request never reaches another's file |
| **Imports and exports** (`import.rs`, `sealed_import.rs`, `pkdump-core/src/import`) | – | parse, resolve, commit | matching rules | a row resolves to the printing it names or is parked |
| **Search** (`pkdump-core/src/query`, `search.rs`) | – (a cursor the client carries) | lex, parse, compile, read a page by offset or by cursor | a context-sensitive grammar; NULLs in the order; a result that changes between two pages | a text has the one tree the grammar gives it; a walk serves every unchanged row once |
| **Catalog reading, CLI, frontend, deploy scripts, infrastructure** | – | queries, callers, timers | – | – |

How they interact. The server and the CLI write a tenant's file; the triggers
write the outbox in the same transaction. The shipper reads the outbox and
writes the tenant zone and, back in the tenant's file, the cursor, the gaps and
the staged holdings; the value job reads the staged holdings, the lake and the
catalog, and writes the tenant's file. The refresh reads which sets the catalog
has and writes `raw/`; the derivation and the lake build read `raw/` and write
`shared.sqlite` and Iceberg; every tenant's file attaches `shared.sqlite`
read-only. Tenant commands move the files all of them open. The only shared
memory is the server's map of open tenants; everything else meets in files and
objects.

## Modules

| module | models | extends |
|---|---|---|
| `Outbox` | the outbox of one database: triggers, `project`, `emit`, the envelope's restore | – |
| `Replica` | *abstract*: a copy of the holdings that learns of every change in the step that makes it and is never wrong about a row it knows | – |
| `Shipper` | one tenant's shipping runs beside everything `Outbox` does | `Outbox` |
| `Tenants` | registry, files, Litestream state and WALs under every tenant command | – |
| `Custody` | *abstract*: a database is made, handed over, released, destroyed, or mislaid by a rename or detach that goes by the row alone | – |
| `Collection` | copies, containers, orders, parked rows and the two logs | – |
| `Partition` | one date of `raw/`: runs, requirements, the choice of the run to replay | – |
| `Nightly` | the refresh and the derivation as two processes | `Partition` |
| `Lake` | builds of the two price tables, derivations of the same nights into SQLite, the comparison of both and the prices as of a date | – |
| `PriceTable` | *abstract*: a table of days, each empty or what one build wrote, replaced one at a time | – |
| `Opening` | servers, derivations and other opens of several builds on one `shared.sqlite` | – |
| `Deletion` | keys and tombstones, `pkdump-erase`, the shipping run and the read-back over all tenants | – |
| `NessieBackup` | overlapping runs of `nessie-backup.sh`, the unit they stop, the bucket they prune | – |
| `Valuation` | the daily valuation beside builds, shipping, read-backs and the backfill | – |
| `Query` | lexer, parser and grammar of the search language, as operators | – |
| `Walk` | a compiled query's result walked page by page beside changes of other processes | – |
| `Search` | a query compiled; the condition, order and text that `Walk` leaves open | `Query`, `Walk` |
| `TenantsProofs`, `NightlyProofs`, `DeletionProofs`, `NessieBackupProofs`, `OpeningProofs` | theorems | the module named |
| `CollectionProofs` | theorems, the last section those of `Walk` | `Collection`, `Walk` |
| `OutboxProofs` | theorems about `Outbox` and `Shipper` | `Shipper` |
| `LakeProofs` | theorems about `Lake` and `Valuation` | `Lake`, `Valuation` |
| `MC*` | instances for TLC (symmetry sets, sample bodies), one per component | the module named |

An operator introduced as a *mutant* in a comment is the definition that
follows it with one plausible bug in it; no specification uses it.

### Outbox

`holdings` are the rows of the two holdings tables, keyed by (table, id);
`outbox` the set of events, `seqHigh` SQLite's AUTOINCREMENT position,
`emitLog` the ledger. `Insert`, `Update`, `Delete` are a row change with what
its trigger appends; `Import` is the envelope's restore (every old row's delete
and every new row's insert in one transaction, hence at one instant), which
without `--replace` has looked for rows before that transaction (`ImportCheck`;
`vacant` is who believes there are none) and may die between (`ImportAbort`).
`EmitCommit(scope, force)` is an emit run (snapshot, `emit_current_rows`,
`emit_missing_rows` and the ledger row, one transaction); an unforced backfill
has looked at the ledger before its transaction (`EmitCheck`; `checked` is what an
emitter believes in the meantime), and `EmitAbort` is a run that dies between.
`clock` is the wall clock `strftime('now')` reads; `Undated` is the floor a
malformed date falls to. A draft is an event before it is numbered:
`WrittenBefore` is the order of the statements in the transaction, then of ids
within a statement.

### Shipper

The shipping loop belongs to a library outside the repository; its steps are
taken from the tables `schema_user.sql` declares for it, from the bindings and
from the tests in `pkdump-ship/tests`. `RunBegin` reads what lies past the
cursor and records the holes it sees; `PutPart` writes the next part (at most
`MaxRows` events, one day) under a key of day and range; `AdvanceCursor`
records it. `RunDies` is a kill between any two, `WindBack` the operator's
re-ship, `Lose` the disappearance of an unshipped row. `BackUp` marks a point of the
file (`File`: holdings, log, ledger, cursor and gaps, all that Litestream replicates)
and `Restore` puts the file back to it, as `restore-litestream.sh` does with
`-timestamp`: everything in the file goes back together and the zone does not.
`forgotten`, a history variable, holds the lost numbers whose entry in the gap ledger
a restore took away. One backup is kept at a time, so a file is not restored to a point
of a history that an earlier restore gave up.

### Tenants

`file` maps a name (an issued id, a handle in `tenants/`, a handle at the root)
to the database whose bytes are there; a database is called by the name it was
first written under, so that a copy or a swap shows. `ls` is the Litestream
directory beside a name, with the database and the stem it was built for.
Commands are step machines in `op`: `WriteNew`/`CreateCommits`/`CreateFails`;
`PurgeFile`/`PurgeState`/`PurgeRow`; and for adopt, revert, migrate and
unmigrate `StartMove`, then per database `TakeNext` (guards and checkpoint),
`RenameFile`, `SettleState`, `Land`, or `MoveFails` with the code's undo.
`Serve`, `ServeFresh`, `Commit`, `Close` are a process opening a collection
through `resolve` and writing to it; `Clone` is `clone_collection`, which puts one
collection's rows for another's in one transaction of the target. `owner`, `released`,
`named` (the database each row was made for) and `astray` are history variables: no
command reads them. `Rename` and `Detach` are one UPDATE of the row and never ask for
its file; a database whose row they change while it lies under another name is `astray`
from then on. Two documented preconditions are kept: one
operator command at a time, and the serving process stopped before a migration
(`tenants.rs:578`, `deploy/TENANTS.md:420`).

### Collection

The server holds a tenant's connection for a whole request, so handlers do not
interleave; but a handler is several transactions, and an error or a crash may
end it between any two (`Interrupt`). `op` is the handler in progress:
`decks::delete` is `ForgetSource`, `ForgetTarget`, `DropDeck`; a group's
deletion is `ReleaseAll`, then that per deck, then `DropGroup`; receiving an
order is one transaction per copy; resolving a parked row adds the copy, then
marks the row. A `DELETE` a foreign key refuses leaves everything as it was
(`Drop`).

### Nightly

The refresh: `LandBegin`, `LandSets`, `LandCards` (only for the sets the
catalog lacks at that moment), `LandTcgcsv`, `LandBulk`, or `LandCut` when TCGCSV or
the corpus fails. Upstreams publish when they like and withdraw nothing; what
one holds is chosen when it is asked (`Grown`). The derivation goes through
`Phases` in the order `derive` and `acquire` call them, set by set or group by
group where the code commits one at a time: `ImportBulk`, `StampSet` and
`ImportCards` (one set of the tail, its row and then its cards), `LinkGroups`,
`LoadGroup`, `Discover`, `FillBridges`, `Expand`, `RefreshLatest`, `Reseed`,
`Record`. `DeriveCrash` falls between any two. A set's cards and a group's products
and prices are one unit each; a set and its TCGCSV group share a name; a bulk
set always has its card file; the Japanese groups take the English path.

### Lake

`landed` holds the runs of each date, oldest first, each complete or not, each
with a *body*: the products it lists as sealed and the entries that quote
prices, in the order of the file. A builder is `ReadProducts`, `ReadPrices` (two
listings, two choices of runs), `LoadTables`, `CommitPrices`, `CommitSealed`,
and `Refused` or `Die` between any two. A table at the head of main is its data
files and its snapshot; a file is the day and the runs it was read from, and
`RowsOf` what `read_date` and `read_sealed` reduce these to. `Derive` imports
the same night into `sqlite` entry by entry, as `tcgcsv.rs` does. `Compare` is
`verify_prices`; `market_prices`/`sealed_market_prices` and
`prices_asof`/`sealed_prices_asof` are the two ways a date is priced.

### Opening

A process is a build and a place in its program, one name per transaction:
`converge` for any read-write open, `<<"probe">> \o converge` for a server,
`converge \o derive` for the nightly derivation. A part of the catalog is named by
the build that last wrote it. `BeginIngest` takes the write lock, `Ingest` lets it
go; everybody else waits (`Mine`) or gives up (`GiveUp`). `Columns` and `Shape` are
`add_missing_columns`, which asks before it adds. `mixed`, `beside` and `owed`
record whose convergence ran beside or was cut off, which the properties except.

### Deletion

`registry` is the key state of each tenant, `master` whether the master key is on
the box; `tenant_key` answers from both, the tombstone first. The jobs of
`pkdump-ship` take the tenants one at a time: `TakeKey`, then `ship_one`, or `read`
and `materialize_one`; `Unreadable` skips. A deletion is `Tombstone`, `List`,
`Drop` object by object and `Prove`. `LoseMaster`, `RestoreRegistry`, `Kill` and
`Interrupted` are the faults. `due` is what the zone held when a read-back began.

### NessieBackup

One action per command of the script: `inventory`, `Stop`, `Mark`
(`NESSIE_STOPPED=1`), `Export`, `Start`, `wait_answering`, `PutExport`,
`ReadBack`, `PutManifest`, `ListComplete`, `prune`, `Delete` (one key), `check`.
`Fail` ends a script through its trap (`cleanup`), `Kill` without it; `Systemd`
brings up what is starting, `Crash` takes the unit down. What an export holds is
left out: a backup is an id and two keys.

### Valuation

The content of a price table is the number of commits that have touched it, the
holdings of a tenant how far through the outbox they were read. A run is `pin`,
`read_market_prices`, `read_sealed_market_prices`, then per tenant `Look` (the check that
what is staged is not behind the cursor, before the transaction) and
`write_snapshot` (rows and the row that explains them, one transaction), then
`report`. Beside it: `build_prices`, `Put`, `Advance`, `WindBack`, `read` and
`materialize`, `backfill_one_date`.

### Query, Search and Walk

A text is a sequence of characters, a run of letters that is never split being one
of them. `tokenize` and `parse` are the lexer and the parser by recursive descent;
`AsQuery` is the grammar, as the set of trees a sequence of tokens can be read as;
`Write` a tree written out with everything quoted and grouped. `Search` is the compiler:
truth is SQL's, 0, 1 (NULL) and 2, and one keyword stands for each way a column is
compared. `Walk` types texts piece by piece (`Type`), and asks and walks requests (`Ask`):
`BeginByCursor`, `TurnByCursor` are `search_page_after`, `TurnByOffset` is `search_page`,
and a page is one step. `order_keys` and `seek_predicate` are the ORDER BY and the chain of
comparisons a cursor stands for; `Row` is a printing joined with its price and its copies.
`Reprice`, `AddCopy`, `RemoveCopy`, `Publish`, `Withdraw` are what others do between two
pages. What a condition says of a row (`Holds`), how a request is compiled (`Compile`) and
written (`Written`) are parameters of `Walk`, for which the run takes `Search`'s
`compile_node`, `compile` and `typed`: so `Walk` has no recursive operator, and what is
proved of it holds for every condition.

## Runs

Every property of a passing run is also shown to fail on a mutated definition.

| run | what it asks | properties |
|---|---|---|
| `outbox` | two tables of one row, two emitters, an importer, two instants: projection, backfills, ledger, refinement (0.98 million states) | `ProjectionExact`, `LiveMutationWins`, `BackfillCompletes`, `LedgerExact`, `ImplementsReplica` |
| `shipper` | two of: a row lost, a run killed, the file restored, beside a backfill; a restore to any point of a log without one; or two rows over two days and a kill; fairness of the timer (0.64 million states) | `LedgerIsTrue`, `PassedIsShipped`, `ReconciledInPlace`, `ZoneIsACut`, `Delivered` |
| `tenants` | every old layout of up to two databases, two handles, two ids, clones, one crash between any two steps or one operation that fails (5.4 million states) | `OneWholeCopy`, `ReplicaStateIsOwn`, `RowsMatchFiles`, `StateTravelsAlong`, `ServesItsHolder`, `NeverComesUpEmpty` |
| `collection` | two copies, two decks in a group, a binder, an order, a parked row, one handler ended half way | `StatusTrail`, `PlaceTrail`, `DecksCanGo`, `OneCopyPerTicket` |
| `nightly` | two refreshes over two dates, short or cut at any request; two derivations, overlapping them, one dying anywhere | `WholeReplays`, `ProvenanceHolds`, `UpstreamStands`, `FixedPoint` |
| `nightly_tail` | *violated*: what a short tail left out, the next whole night brings | `TailSupersedes` |
| `lake` | two builds beside landings and derivations, refused, killed and overlapping | `SplitsAreReported`, `VerifyAgrees`, `AsOfAgrees`, `ImplementsTables` |
| `opening` | three builds, a server that is restarted, a derivation that may never let go of the lock | `FingerprintTells`, `SeedsReachTheirTargets`, `ComesUp` |
| `deletion` | a tenant that leaves beside one that stays, both jobs at any step, two faults (0.63 million states) | `WhatIsTakenStaysGone`, `CleanMeansRead`, `DeletionFinishes` |
| `backup` | two overlapping scripts, four backups of which two are kept, two faults (0.30 million states) | `NewestStands`, `NessieReturns` |
| `search` | every text of up to five pieces; eight requests walked by offset and by cursor, in pages of none, one and two rows, beside two changes (0.59 million states) | `Understood`, `WalkIsWhole` |
| `valuation` | two tenants valued again and again while prices are rebuilt and holdings shipped and staged, one fault (2.9 million states) | `RefExplainsRows`, `StatusTells` |

What the passing runs show:

- **Outbox.** For every key the log has ever mentioned, last-write-wins by
  (time, seq) gives the row (`ProjectionExact`); a backfill event is dated by the
  row's last known change, so a live change after it wins. A backfill makes the
  projection the whole collection, for good, even when a second emitter believed
  there was none and writes another. The ledger's ranges hold exactly the emitted
  events. As an implementation of `Replica`: no writer, not even the envelope's
  restore, changes a row behind the log's back.
- **Shipper.** A zone read always gives the collection as it stood at *some*
  point of its log (`ZoneIsACut`), although events may have been shipped twice and
  split differently; the cursor never passes a number that is neither landed nor on
  record as lost, and nothing is on record as lost that is still there (`LedgerIsTrue`).
  A restore allocates numbers again that the zone has seen. As cursor and log go back
  together, no event written afterwards is below the cursor: what the log holds up to
  the cursor is in the zone as that very event, never only as the one of the lost future
  that bore its number (`PassedIsShipped`). A cursor kept outside the file would break this.
  Without a restore, a log shipped to its end beside a backfill reads back as the
  collection (`ReconciledInPlace`).
- **Tenants.** No crash doubles a database, strips it of committed frames, puts
  another's replica state beside it, or lets `resolve` come up with an empty
  collection over a lost one. A collection is served to its holder alone
  (`ServesItsHolder`), with crashes, but for the databases `astray`: those that a
  rename or a detach of the row passed by after a cut-off `unmigrate` (G below).
  Without a crash the undo paths also keep registry and disk together (`RowsMatchFiles`).
- **Collection.** `status_log` and `movement_log` tell an unbroken story that
  ends at the copy's present state, also across deck and group deletions that
  were interrupted and retried; no deck deletion is refused.
- **Nightly.** A whole run answers every request its derivation makes, although
  the refresh decided from a catalog that has changed since; provenance is
  written only for what is there; upstream's rows are never replaced by synthesized
  ones; a second derivation of a whole run changes nothing, with one exception
  (stated in `FixedPoint`, see B below).
- **Lake.** Optimistic commits implement two tables of days: none is doubled, and
  none is put back by a commit planned from an older snapshot. A day whose two
  tables come from two builds is a build at work or one that ended in an error.
  A night read into SQLite entry by entry and one reduced as a whole agree, and so
  do the prices of every later date.
- **Opening.** A fingerprint that matches means the seeds are the build's own,
  wherever earlier convergences died; a derivation leaves nothing for a second one
  to reconcile; a server of the converged build comes up though the lock is held
  for ever.
- **Deletion.** No interleaving with the jobs, no kill and no loss of the master
  key makes a proven deletion untrue; a deletion repeated ends proven; a read-back
  that reports no skipped tenant has staged everything.
- **Backup.** The newest complete backup verifies at all times and is only ever
  replaced by a newer one; the catalog is started again after every script that
  reaches its trap.
- **Search.** The parser and the grammar agree on every text up to the bound, the
  grammar is unambiguous, and a tree fully quoted and grouped reads back as itself.
  Between pages read by cursor anything may change: every row that matched and has not
  changed is served once, in the order asked for, unless a page of none, which is a
  count and carries no cursor on, ends the walk; by offset this holds of a result
  that stands still.
- **Valuation.** The commit a day's rows name is the one both their prices came
  from, and status 0 means everybody was valued at holdings not behind the cursor.

## Bounds

Every bound is a named constant. What each instance must be able to reach:

- `Outbox`: `MaxTime = 2`, `MaxSeq = 3`: two changes of one row at one instant and
  one before it, and an emitted event among them; that is what the (time, seq)
  order can be wrong about. `NumTables = 2`, `MaxId = 1`: two rows that share
  an id and differ in table. Two emitters and `MaxRuns = 2`: both may have looked
  before either writes. Numbers run out before runs do, so every action is taken.
- `Shipper`: parts of up to two events (`MaxRows`) and a log of two: parts that split,
  and that split differently on the next run because rows were appended. Two kinds of
  behaviour (`Bounded`): two rows over two days with no backfill and no fault but a kill,
  or one row in one day with two faults of three kinds, a loss before and after a
  restore, a kill and a loss, and there either a backfill in the log and a restore to the
  beginning of the file, or a log of live changes alone and a restore to any point of it:
  before or after a part was shipped, with or without a gap on record. The proofs have no
  such limit. One kill is enough for the zone: a run carries
  nothing over from before the last kill, except what is in the zone, the gaps and the
  cursor. `MCSpec` is fair to the runs' own steps and never cuts one of them off, so
  `Delivered` is not lost to the bound.
- `Tenants`: two handles and two ids are what a swap, a reuse of a handle and a
  migration of two databases take; three names per holder cover every old layout, of
  which at most two databases lie there at the start (`MaxOld`).
  One crash or failure: commands take up from disk what it left, and none
  remembers more.
- `Collection`: two copies, two decks, one group: a release that touches several
  copies, a group deletion that has done one deck of two. `MaxLog = 4` gives a copy
  an addition and moves in, between and out of the decks.
- `Nightly`: one bridged and one discoverable set, each with its group, cards and
  prices; two dates (a derivation of the older after the newer), two refreshes (two
  runs of one date, or one of each), two derivations (first and second, of one run or
  two), one death. `MaxRuns` counts refreshes started before the last derivation.
- `Lake`: two dates, two landings, two derivations, two builders; two bodies that between
  them quote a product twice, by nulls, under two sub-types, unlisted, and for a card
  that becomes sealed. `MaxHead = 4`: both builders commit to both tables.
- `Opening`: two releases that differ in seeds and one with a newer schema; three
  starts or kills: a convergence cut off, another build's, and the restart that must
  come up.
- `Deletion`: one part, which is shipped before, during or after the deletion; two faults,
  which is a restored registry and a kill, or two kills of one deletion.
- `NessieBackup`: four ids and `Keep = 2`: two complete backups, one doomed, one
  uploading, by scripts that overlap.
- `Search`, `Walk`: five pieces of text, two of them `or` and `and` with their spaces: a group,
  a negated group, a chain of alternatives, a comparison, an unterminated quote. Four
  printings of which two tie in everything but their number, prices and types that are
  NULL, pages of none, one and two rows, two changes: one before and one after a page, or
  both before it.
- `Valuation`: one date, three commits (a build, and half of the next), one event per
  tenant, one run at a time (two runs differ from one run twice only in the order of
  their writes of a date, which replace each other whole).

`CHECK_DEADLOCK FALSE` in every run but `valuation`: each instance stops when its
bounds are used up, and a collection nobody touches is a legal system. In
`Valuation` a new run can always begin.

The runs hold the clock of `Outbox` monotonic and dates no later than it
(`ClockMayStepBack = FALSE`, `DatesMayLead = FALSE`); with either allowed,
properties fail, as described in A below.

## Fairness

- `Shipper`'s `FairSpec`: weak fairness of `RunBegin`, `PutPart` and
  `AdvanceCursor`. `pkdump-ship.timer` fires daily and is `Persistent`, so a
  run begins while there is something to ship; a run that is not killed executes
  its loop to the end; kills are bounded. Nothing is assumed of the collection,
  the emitters or the operator.
- `Opening`'s: a server's own steps, its giving up after `busy_timeout`, and its
  restart by systemd (`Restart=on-failure`; a wait is 90 seconds, so
  `StartLimitBurst` in 300 seconds is not reached). Nothing is assumed of the
  derivation, which may hold the lock for ever.
- `Deletion`'s: a deletion that is not killed goes on (weak); a lost master key is
  restored (weak); the operator runs an unproven deletion again and again (strong:
  the documents call re-running the normal repair). Nothing is assumed of the jobs.
- `NessieBackup`'s: systemd brings up a unit it is starting, and a script that is
  not killed runs on (weak). No timer and no operator is assumed.

## Proofs

`tlapm` checks every theorem below for all values of the constants, from the
named assumptions beside the constants and, for the theorems about what a log reduces to
(`ProjectionIsExact`, `BackfillIsComplete`, `LiveMutationsWin`,
`OutboxImplementsReplica`, `ZoneReconciles`, and `TypeCorrect` of `Outbox`), from
`Steady`: the clock does not step back and no row's date lies in the future (both are
constants of `Outbox`). Ledgers, gaps and `ZoneStaysACut` do not depend on
clocks.

| module | theorem | property | argument |
|---|---|---|---|
| `OutboxProofs` | `LedgerStaysExact` | `LedgerExact` | `RunsWithin`: every run of the ledger lies within the numbers given out |
| | `TypeCorrect` | `TypeOK` | |
| | `ProjectionIsExact` | `ProjectionExact` | see below |
| | `BackfillIsComplete` | `BackfillCompletes` | `Covered`: after a backfill every row has an event |
| | `LiveMutationsWin` | `LiveMutationWins` | `Chronology` |
| | `OutboxImplementsReplica` | `ImplementsReplica` | every step publishes the keys whose events it adds, or stutters |
| | `LedgerStaysTrue` | `LedgerIsTrue` | `CursorAccountsForAll` and `GapsAreRealLosses`, see below |
| | `PassedStaysShipped` | `PassedIsShipped` | `PInv`: the backup is as true as the file, see below |
| | `ZoneStaysACut` | `ZoneIsACut` | `Beginning`, see below |
| | `ZoneReconciles` | `ReconciledInPlace` | `Beginning` and `ProjectionExact` |
| `TenantsProofs` | `Inductive`, `TypeCorrect` | `TypeOK` | the inductive invariant itself |
| | `OneCopyWithItsFrames` | `OneWholeCopy` | see below |
| | `ReplicaStateNeverInherited` | `ReplicaStateIsOwn` | |
| | `HandlesOpenTheirOwn` | `ServesItsHolder` | `Possession`, in which astray databases are let off |
| | `RowsTrackTheirDatabases` | `Tracked` | a row and the database it was made for stay known to each other |
| | `NoEmptyOverALostOne` | `NeverComesUpEmpty` | `Possession` of what lies at the root |
| | `TenantsImplementCustody` | `DatabasesAreKept` | five actions are steps of `Custody`, told apart by `Tracked`; the others keep what is held and whose it is |
| | `RegistryMatchesDisk`, `StateFollowsItsDatabase` | `RowsMatchFiles`, `StateTravelsAlong` | `TogetherWithoutCrashes`: `Together` while nothing has crashed |
| `CollectionProofs` | `TypeCorrect` | `TypeOK` | |
| | `StatusTrailUnbroken` | `StatusTrail` | |
| | `PlaceTrailUnbroken` | `PlaceTrail` | see below |
| | `DeckDeletionsSucceed` | `DecksCanGo` | `Cleared`: at the third statement nothing mentions the deck |
| | `TicketsBecomeOneCopy` | `OneCopyPerTicket` | `Told`, see below |
| | `WalkTypeCorrect` | `WalkTypeOK` | |
| | `WalksAreWhole` | `WalkIsWhole` | `Current`, `CursorTells`, `OffsetCuts`, see below |
| `NightlyProofs` | `TypeCorrect` | `TypeOK` | |
| | `UpstreamWins` | `UpstreamStands` | no action takes a stamp or a real card back |
| | `WholeNightsReplay` | `WholeReplays` | see below |
| | `ProvenanceIsTrue` | `ProvenanceHolds` | see below |
| | `SecondDeriveIsFixed` | `FixedPoint` | `Attained`, `Closed`, `Settled`, see below |
| `DeletionProofs` | `DeletionTyped` | `DeletionTypeOK` | |
| | `TakenStaysGone` | `WhatIsTakenStaysGone` | see below |
| | `CleanReadBackReadAll` | `CleanMeansRead` | `Forward`, see below |
| `NessieBackupProofs` | `NewestBackupStands` | `NewestStands` | see below |
| `LakeProofs` | `LakeTypeCorrect` | `LakeTypeOK` | |
| | `SplitsStayReported` | `SplitsAreReported` | see below |
| | `TablesReplaceDays` | `ImplementsTables` | a commit is a step of `PriceTable` for one table and a stutter for the other; a day has one file (`OneFileADay`) |
| | `VerifyIsTrue` | `VerifyAgrees` | `Derived`, see below |
| | `ValuesAgree` | `AsOfAgrees` | `Derived`, see below |
| | `RefsExplainRows` | `RefExplainsRows` | `Priced`, see below |
| | `StatusIsTrue` | `StatusTells` | `Staged` and `Current`, see below |
| `OpeningProofs` | `OpeningTypeCorrect` | `OpeningTypeOK` | |
| | `FingerprintIsTrue` | `FingerprintTells` | `SoFar` and `Told`, see below |
| | `SeedsAreReached` | `SeedsReachTheirTargets` | `Underway`, see below |

**Outbox.** The ledger's exactness needs only that every run in it
lies within the numbers already given out, so that a later event is in none, whatever
the clock does. `ProjectionExact` is not inductive: it says nothing of why the
winner by (time, seq) is the last event written. `IInv` adds that events of one
key are dated in the order they are numbered (`Chronology`), that nothing is
dated after the clock (`Past`), that the last event of a key says what the table
holds (`Described`), and that AUTOINCREMENT gave out 1..n (`GapFree`, which the model
puts in and the proof carries along: it is no promise of the code). Every transaction writes through
`AppendEvents`; the argument is made once for a set of drafts that is `Sound`,
and each action's drafts are shown to be.

**Shipper.** The cursor moves to the end of a part; what lies below it was seen
when the run began or put since. So `SInv` speaks of the batch: what precedes an
event of it is in the zone, in the ledger or in the batch (`Preceding`), and
between two of its events there is nothing but the batch and the ledger
(`Between`), which is why putting a part over an older one of the same key
forgets no number. `ZoneIsACut` is about what a read of the zone gives, and the
invariant behind it about the zone as a set: as long as nothing was lost and the file
not taken back, the zone is a beginning of the log (`Beginning`): whatever precedes an
event of the zone is in it. Put parts keep that because of `Preceding`; and what
`project` makes of the zone is then what it makes of that beginning. When the
beginning is the whole log, `ProjectionExact` says that it is the collection.

After a restore the zone is no beginning of the log, and `PassedIsShipped` must hold
all the same. Its invariant (`PInv`) says of outbox, backup and batch that they agree on every
number they share (`SameEvents`) and of the batch that what the log has before one of its
events is in the zone or in it (`BatchFollows`); so a part put over an older one of the
same key, of this history or of a lost one, brings the present events. And it says of the
backup what it says of the file (`BackupAccounted`, `BackupIsShipped`): the zone only gains,
or has a part replaced by one with the same numbers, so what was true of the file when the
backup was taken still is when it comes back, but for the lost numbers the ledger no
longer names.

**Tenants.** A relocate is in the middle of something nearly always, so the
invariant says what is under its two names at each stage (`Ends`, `Underway`):
until the rename the old name has the file and the new one neither file nor
Litestream state; after it the new name has the file, and the state left behind
still fits it. `Issued` (an id never issued names nothing) is why a purge may leave
state behind that nobody finds, and `Possession` (whose a database is can be read
off its name or its row, unless it is astray) why `resolve` is right. `Tracked` follows
the database a row was made for: it lies under the row's id or, for an active row, under
its handle; no two rows were made for one; and what is astray was let go of, or its row
has no file. Three properties hold while no
command has been cut off (the two halves of `RowsMatchFiles`, and
`StateTravelsAlong`, through `TogetherWithoutCrashes`): G below says what a
crash does to the first. That every step is one of `Custody`'s
(`DatabasesAreKept`) is proved and not run.

**Collection.** Between the statements of a deck's deletion the log says moves
began nowhere, which breaks the trail read literally. `PlaceTrail` is stated of the
log as the finished deletion will leave it (`Settled`), and `PlaceInv` adds how far
the statements in progress have come (`Cleared`). A parked row's replay adds its copy
before it marks the row, so what `OneCopyPerTicket` bounds is counted: `Told` says that
a row has cost at most a copy for each interruption, and one more only once its replay
is marked or about to be, which is when no other replay of it can begin.

**Walk** (in `CollectionProofs`). `WalksAreWhole` rests on three facts. The ORDER BY is a
strict total order of the printings, NULLs and ties included, because its last key is the
printing (`BeforeOrders`), and the chain a cursor adds to the WHERE selects exactly the
rows after the cursor's key (`SeekIs`); a cursor keeps the key as it was, so nothing that
becomes of the row it came from matters. A printing that has not changed is in the result
now if it was when the walk began (`Current`). And the unchanged rows served are those up to the
cursor's key (`CursorTells`), which each page moves forward. A walk by offset asks for the
whole result anew: as it has served a beginning of the result (`OffsetCuts`), and a set has one
enumeration in a total order, it finds those rows again where it left them
(`OffsetPage`). A request is any with the fingerprint of the cursor; the assumptions are
that the catalog is finite and that a column holds values that compare, or NULL.

**Nightly.** `WholeReplays` rests on one observation: the refresh skips a set's
cards only because the catalog has the set, and the catalog never loses one.
`Covering` carries it from the moment the refresh reads the catalog, through
every run of the zone, to the derivation. `ProvenanceHolds` needs what a
derivation has brought so far (`Brought`): prices group by group, stamped sets
set by set, `latest_prices` not older than the date after its phase. `FixedPoint`
compares two derivations, so its invariant has three parts: what each phase leaves true
of the catalog for good (`Attained`: links match rows, discoverable groups are
discovered, printings fit, newest prices are newest), that the catalog recorded last is
therefore closed under all of them (`Closed`), and that a derivation of the same run,
phase by phase, has changed nothing of it but the set of the products already loaded
again (`Settled`, `Resumed`). `Discover` needs the last part's care: linking a group's
products for the first time must not make another set due.

**Deletion.** `WhatIsTakenStaysGone` is kept by the jobs only because none of them
holds a tombstoned key (`NoLateKey`): a job puts a part while it holds the key, and
takes the key only where it still derives. `TombstoneFirst` says that a deletion past
its first step finds its tombstone in the registry. Jobs that held a key when the
tombstone fell, and tenants whose registry came back from before it, are the
exception, until a deletion is proven with nobody holding the key (N below).
`CleanMeansRead` rests on the read-back going forward only (`Forward`): what is due to a
tenant was in the zone when the read-back began, the zone loses nothing of a tenant
who has not left, and a tenant is off the list only as skipped or with all of it staged.

**Backup.** A script deletes by a listing that is stale by the time it does. What saves
the newest backup is that a key is doomed only under a complete backup that is newer,
and that complete backups go away only in the same way: so the invariant says of every
key that may yet be deleted that a newer complete backup is there now, and of every
complete backup that it has its export or a newer complete one.

**Lake.** A commit goes through only on the snapshot it was planned from. So a snapshot
that a builder still finds at the head has the files it had when it was loaded
(`Snapshots`), and a commit planned on it changes one day. `Halves` is about a build
between its two commits whose second can still succeed: the first table holds what it
wrote, or the day is reported torn, or another build stands between its own commits on
that day. That is what makes `SplitsAreReported` inductive: the second commit of the
last such build mends the day, or its failure reports it.

`VerifyIsTrue` compares two reductions of a night's entries. `shared.sqlite` takes them
one by one and ignores a row it has; the lake keeps the first row of each key in one
pass. Both are recursive functions on the length of a prefix, and what each holds after n
entries is shown without the library's induction theorems: of the entries at which a
statement would fail there is a least one (`LeastOf`), and the step before it shows that
it does not fail there (`EntryImported`, `BodyImported`; `FirstMention` for the lake).
`Derived` then says of every row of `shared.sqlite`, for any number of derivations, that
some derivation of its date asked for it and wrote what the first of its entries quotes,
and that every row asked for is there. If all derivations and both builds of a date read
one run, the two tables are the same rows. `ValuesAgree` carries that from day to day: a
day up to the date quotes a product on both sides or on neither, so the newest day that
does is the same one, and so is its price.

**Valuation.** Both prices of a run are read at the commit it pinned (`Priced`), which
gives the first property at once for the rows it writes; `write_snapshot` replaces rows
and their explanation together. For the second: the holdings staged never outrun the
zone (`Staged`), the shipped position a run began with is never ahead of what it then
finds, and the holdings looked at before the transaction only get newer (`Current`).

**Opening.** A convergence is eleven transactions and others write between them, so the
invariant follows every process through its program (`SoFar`): a seed it has passed is
its own build's, or of a build that wrote beside it since it passed the gate. The
fingerprint, recorded last, inherits that (`Told`); every program writes every seed
before it (`SeedsLieBetween`). `Underway` says that a seed row whose target an ingest
has brought is ahead of a derivation that is past its ingest, or owed by one that ended
there. The programs are sequences; `Programs` and `Places` say where in them the steps
are that the argument turns on.

Only model-checked, and why:

- `Delivered`, `ComesUp`, `DeletionFinishes`, `NessieReturns` are liveness under
  fairness, which the prover cannot do, as it cannot do ENABLED.
- `Understood`: the lexer, parser and compiler are recursive operators. `WalksAreWhole` is
  about any condition, so it needs nothing of them but that a request says which way it is
  ordered.

## What the runs found

**A set whose cards were missing from a partial night never gets them**
(`nightly_tail`; `pkdump-derive/src/lib.rs:616`): the tail stamps the set's row before
it asks for its cards, and `missing_sets` counts a stamped set as present from then
on, in the refresh and in the derivation. `derive.sh:188-189` and `partition.rs:46`
say the next night supersedes it. The bulk corpus heals it if and when the set
appears there.

## Seen and not run

Disagreements between code and comments met while modelling, which no run here
demonstrates:

- **A.** With the wall clock set back between two changes of one row, `project`
  orders them by `occurred_at` before `seq` (`outbox.rs:384`), so the *earlier*
  change stands, although `schema_user.sql:222` calls `seq` "the ordering
  authority". A row whose own date lies in the future outranks live changes until
  that date, through a backfill event.
- **B.** A group discovered in a derivation was loaded before its set was
  made, so its sealed products have no set until the second derivation; a test in
  `row_identical.rs` (about line 826) calls a first derive a fixed point.
- **C.** A discovered set is linked by name the next night, so discovery does not
  visit it again and new cards of its group are not synthesized ("re-links and
  re-heals", `set_discovery.rs:217`).
- **D.** Prices are `INSERT OR IGNORE`: a date landed and derived a second time
  keeps the first run's prices under the second run's provenance
  (`raw_derivation.rs:15-22`).
- **E.** `partition.rs:69-70` says a refresh never fetches the bulk corpus and its
  absence is fine; the landing fetches it, and a derivation without it fails. When the
  fetch fails every dataset of the run is incomplete, so the night's prices are refused.
- **F.** A second refresh of one date whose tail is short, or that lands no cards
  after the first did, makes the date underivable: its datasets choose different
  runs (`partition.rs:162`). The comment at `partition.rs:326` says a retry must
  not poison a good night. A failed derivation of a partial night, run again,
  exits 0.
- **G.** A crash of `migrate` between its rename and its commit (`tenants.rs:609`)
  leaves a database under an id no row names; the comment at `tenants.rs:572-574` calls
  that the state the design exists to prevent. Nothing is lost or doubled
  (`OneWholeCopy` is checked with crashes); the registry and the disk tell of the same
  collections without one (`RowsMatchFiles`). A crash of
  `unmigrate` between rename and row deletion leaves a handle that `resolve` sends to
  unmigrate, unmigrate refuses, and migrate refuses (`tenants.rs:159`, `:650`). If that
  handle is then renamed or detached (`tenants.rs:277-297`), which asks the registry
  alone, no row knows the old handle any more, and `resolve` takes the file left at
  `tenants/<handle>.sqlite` for a collection that was never migrated (`tenants.rs:171-177`):
  whoever asks for the old handle is served the collection renamed away, or the one a
  detached holder left. `ServesItsHolder` and `Custody` name these databases (`astray`)
  and except them, and nothing else.
- **H.** Two emitters may both find no prior backfill and both write one
  (`outbox.rs:480`); the `outbox` run has two emitters and shows that the events of
  the second change nothing in the projection.
- **I.** `resolve` provisions an empty collection for one handle while another
  handle's un-adopted database lies at the root of the data directory
  (`tenants.rs:186`); it counts only rows and `tenants/`.
- **J.** An emit after the database was restored to an earlier point does not
  reconcile the zone (`outbox.rs:54`, `:501`): the zone keeps the rows of the lost
  future and prefers their later-dated events; a backfill emits no deletes. A gap that
  was recorded after the point restored is no longer on record (`forgotten`).
  `ReconciledInPlace` therefore speaks of databases that were not restored.
- **K.** A binder that a copy was ever moved into or out of cannot be deleted
  (`binders.rs:136-139`): `movement_log` references binders without `ON DELETE`, and
  `binders::delete`, unlike `decks::delete`, does not clear it first. A comment in a
  test already notes the refusal (pd-hj2w).
- **L.** "One build writes both price tables or neither" (`freshness.rs:5-6`,
  `build_prices.rs:6-8`) fails for a build that ends between its two commits;
  `SplitsAreReported` is what does hold. `AsOfAgrees` speaks of nights both sides have
  read: it leaves out products quoted by nulls alone, products a night quotes and does
  not list, and products that became sealed after a derivation read them for cards,
  where the two sides differ.
- **M.** `convergence.rs:36-38` claims more than `FingerprintTells`: another build's
  convergence that dies half way, or runs beside, leaves its seeds under the old
  fingerprint; an older derivation already past the gate stamps a lower version again.
  `pkdump data expand-only` (`data.rs:160-200`) runs `discover_new_sets` without the
  reconcile that follows it elsewhere. A serving start never makes the aliases that a
  derivation died owing. A server probing a database nobody else has open finds no
  `-shm`, converges, and can lose to a derivation: it is the restart that brings it up.
- **N.** "Nothing new arrives in the zone" (DELETION.md §6) fails for a run that took
  the key before the tombstone: no lock is shared by `ship.sh` and `erase.sh`. "No
  restore of any backup reverses it" (`keys.rs:269`, KEYS.md §5) fails for a
  `registry.sqlite` restored from before the tombstone. Staged holdings of a revoked
  tenant stay in its database and go on being valued. A read-back of one revoked
  tenant and otherwise skipped ones reports `Partial`, not `Failed`.
- **O.** "Restarted … by a trap that runs however this script ends"
  (`nessie-backup.sh:17-18`) fails for a stop of the script between `systemctl stop`
  (243) and `NESSIE_STOPPED=1` (244), and under SIGKILL; the next run then fails at its
  inventory and nothing starts Nessie. An older complete backup can lack its export,
  when a prune is killed or overlaps an upload; never the newest. A commit of another
  project between inventory and stop makes a sound backup fail the drill. `put_backup`
  accepts an empty inventory that `verify_backup` refuses.
- **P.** `backfill_one_date` (`value_history.rs:434`) rewrites a date's rows and leaves
  `collection_value_snapshot_run`, although `schema_user.sql:729-734` says the pair
  cannot drift apart; `RefExplainsRows` lets such rows off. `require_zone_holdings`
  compares with the cursor, so holdings staged before a wind-back pass. Two read-backs at
  once, not modelled, could stage the older over the newer. `--date` with an earlier
  day values today's holdings at that day's prices, unlike the backfill.

- **Q.** An import or a clone without `--replace` looks for rows before its transaction
  opens (`json_backup.rs:276-283`); rows committed in between are deleted by it. The log
  tells of them (`Import` in `Outbox` may come after any number of inserts), so nothing
  downstream is wrong, but the refusal it promises does not happen. Edits of conditions
  are not what the look counts.
- **R.** `routes/search.rs:171-176` calls `search_page_after` only when a cursor is given,
  and `search_page` returns `next_cursor: None`, so a walk by cursor cannot be begun over
  HTTP, although `routes/search.rs:65` and the comments of `search.rs` describe one.
  `WalkIsWhole` begins it as the tests of `search.rs` do.
- **S.** Beyond `SEARCH_QUERY_LANGUAGE.md` section 3 the parser accepts a doubled or
  dangling `and`, and takes a quoted `or` for the connector; `-!name` and `--x` are bare
  words. A comparison with a NULL column is neither true nor false, so `-t:fire` leaves
  out cards without a type as `t:fire` does, while `!=` on a name or an enumeration keeps
  them. `order:` inside an alternative, `hp:abc` and an unknown `is:` match nothing.
- **T.** A CSV import that died and is run again brings its rows twice. The totals, the
  rows and the copies of a search page are three statements without a transaction.

## Not modelled

- **Pure input and output, and presentation**: the frontend, HTML and route
  plumbing, exports, deployment scripts, the infrastructure definitions. Nothing
  in them decides in what order state changes; what starts jobs, and that it starts
  them again, is the fairness above.
- **Libraries outside the repository** (`dumpster_kit_*`: registry, shipping
  loop, object store, Nessie client, key store): their effects are modelled where a
  component uses them, from the tables, bindings and tests in this repository,
  and are marked external in `PROJECT.json`.
- **SQLite and Litestream**: a transaction is atomic and durable, AUTOINCREMENT
  never reuses a number within one file, a checkpoint folds the WAL in. A
  Litestream generation is one token that says what it was built for.
- **Details that the properties do not tell apart**: card attributes, prices as
  amounts, conditions, folders; a set's cards are one unit in `Nightly`, a
  printing one value in `Outbox`; what an export of Nessie holds, and its inventory, in
  `NessieBackup`; amounts and dimensions of a value row in `Valuation`; columns of one
  release in `Opening`, whose schema batch is one step.
- **Bounds of the models beside the cfgs**: one read-back at a time and one part per
  event in `Valuation`; refusals of `pkdump-lakehouse` are no steps in `Lake`, and
  `--allow-incomplete` is always given, as the nightly does; `ensure_tables` makes both
  tables at once.
- **Left for the modules of the plan**: the import resolver, WAL reclaim, snapshots and
  restores of a database, the drill.

Out of the prover's reach, and so left to TLC: liveness under fairness, ENABLED, and
what the recursive operators of `Search` and `Query` compute for every input. (A
fold over a sequence written as a function, as in `Lake`, can be reasoned about by its
least counterexample.)

## Plan

| module | models | abstract specification, properties | bounds |
|---|---|---|---|
| `Envelope` | the tables of an envelope beside the holdings (containers, orders, logs) | a clone tells the source's story, with ids of its own | two tenants |
| `Resolver` | matching rules of the import resolver, natural order of collector numbers, bundles, as functions | against a reference definition over bounded inputs | short inputs |
| `Opening`, more | WAL reclaim, snapshot and restore | a restore beside a server that has the file open | two processes |

## Running it

In this directory, with TLC, the community modules and TLAPS 1.4.5 installed:

    tlc -workers 2 -config MCOutbox.cfg MCOutbox.tla
    tlapm OutboxProofs.tla

`PROJECT.json` names the module and the configuration of every run, what it is
expected to show, and for every property one mutant of one definition under
which TLC finds it violated; it also maps every definition to the lines of code it
stands for. The run named as violated ends in a counterexample on purpose. The longest
runs take two to four minutes with two workers, the proofs of all modules
together a few minutes.
