------------------------------- MODULE Outbox -------------------------------
(***************************************************************************)
(* The ownership outbox of one tenant database.                            *)
(*                                                                         *)
(* Three AFTER triggers on each holdings table (schema_user.sql) append    *)
(* one event per changed row, in the transaction that changes the row.     *)
(* `pkdump outbox emit` (outbox.rs, emit) re-describes rows as they are    *)
(* now: a backfill of the whole collection, or a redrive of a slice.       *)
(* `pkdump import --json` (json_backup.rs, import) replaces every row.     *)
(* Consumers reduce the events with `project`: last write wins by          *)
(* occurred_at, ties broken by seq.                                        *)
(*                                                                         *)
(* A row is what the properties tell apart: its content (val) and the      *)
(* date column that dates it when it has no event (acquired_at/added_at).  *)
(* Instants are 1..MaxTime; Undated, the floor, is below all of them.      *)
(* SQLite serialises write transactions, so each is one action; what one   *)
(* process read BEFORE its transaction opened is state of its own.         *)
(***************************************************************************)
EXTENDS Integers, FiniteSets, Sequences

CONSTANTS
    NumTables,         \* length of SOURCE_TABLES; a table is its position there
    MaxId,             \* bound: row ids of each table
    Values,            \* contents of a row
    NoRow,             \* what a key that is not in its table maps to
    Emitters,          \* processes running `pkdump outbox emit`, unforced
    Importers,         \* processes running an import that must not replace
    MaxTime,           \* bound: last instant of the wall clock
    MaxSeq,            \* bound: last seq allocated
    MaxRuns,           \* bound: rows of ownership_emit_log
    ClockMayStepBack,  \* the host's wall clock may be set back
    DatesMayLead       \* a row's own date column may lie in the future

ASSUME BoundsAssumption ==
    /\ NumTables \in Nat \ {0} /\ MaxId \in Nat \ {0}
    /\ MaxTime \in Nat \ {0} /\ MaxSeq \in Nat /\ MaxRuns \in Nat
ASSUME FlagsAssumption == ClockMayStepBack \in BOOLEAN /\ DatesMayLead \in BOOLEAN

VARIABLES
    holdings,  \* the rows of the holdings tables: key -> row or NoRow
    outbox,    \* ownership_outbox: the set of its events
    seqHigh,   \* sqlite_sequence of ownership_outbox: last seq allocated
    emitLog,   \* ownership_emit_log, oldest first
    checked,   \* emitters that found no prior backfill and have not begun to write
    vacant,    \* importers that found no row and have not begun to write
    clock      \* the wall clock strftime('now') reads

vars == <<holdings, outbox, seqHigh, emitLog, checked, vacant, clock>>

-----------------------------------------------------------------------------
Undated == 0
Times   == Undated .. MaxTime
Keys    == (1 .. NumTables) \X (1 .. MaxId)     \* (source_table, row_id)
Rows    == [val : Values, date : Times]
Ops     == {"insert", "update", "delete"}
Sources == {"trigger", "backfill", "redrive"}

Event == [seq : Nat \ {0}, at : Times, key : Keys, op : Ops, row : Rows, source : Sources]

\* The dates a row can carry when it is written at the instant `clock`.
Dates == {t \in Times : DatesMayLead \/ t <= clock}

KeyBefore(j, k) == j[1] < k[1] \/ (j[1] = k[1] /\ j[2] < k[2])

-----------------------------------------------------------------------------
(* The reduction every consumer uses. *)

EventsOf(E, k) == {e \in E : e.key = k}

\* Mutant: ties are left unbroken.
SupersedesTies(e, f) == e.at >= f.at

Supersedes(e, f) == e.at > f.at \/ (e.at = f.at /\ e.seq >= f.seq)

Winner(E) == CHOOSE e \in E : \A f \in E : Supersedes(e, f)

\* What an event says its key holds.
Image(e) == IF e.op = "delete" THEN NoRow ELSE e.row

project(E) ==
    [k \in Keys |-> IF EventsOf(E, k) = {} THEN NoRow ELSE Image(Winner(EventsOf(E, k)))]

-----------------------------------------------------------------------------
(* Appending. A draft is an event without its number; AUTOINCREMENT       *)
(* numbers the drafts of one transaction in the order they are written:    *)
(* by stage (the statement), then by key (ORDER BY id).                    *)

Draft(stage, k, op, at, row) ==
    [stage |-> stage, key |-> k, op |-> op, at |-> at, row |-> row]

WrittenBefore(c, d) ==
    c.stage < d.stage \/ (c.stage = d.stage /\ KeyBefore(c.key, d.key))

Position(D, d) == Cardinality({c \in D : c = d \/ WrittenBefore(c, d)})

Numbered(D, base, source) ==
    { [seq |-> base + Position(D, d), at |-> d.at, key |-> d.key,
       op |-> d.op, row |-> d.row, source |-> source] : d \in D }

AppendEvents(D, source) ==
    /\ seqHigh + Cardinality(D) <= MaxSeq
    /\ outbox' = outbox \cup Numbered(D, seqHigh, source)
    /\ seqHigh' = seqHigh + Cardinality(D)

-----------------------------------------------------------------------------
(* Mutations of the holdings, each with what the triggers write. *)

\* AUTOINCREMENT picks a fresh id; a restored envelope re-creates old ones.
Insert(k, row) ==
    /\ holdings[k] = NoRow
    /\ holdings' = [holdings EXCEPT ![k] = row]
    /\ AppendEvents({Draft(0, k, "insert", clock, row)}, "trigger")
    /\ UNCHANGED <<emitLog, checked, vacant, clock>>

\* Mutant: no trigger on UPDATE.
UpdateUntold(k, v) ==
    /\ holdings[k] # NoRow
    /\ holdings' = [holdings EXCEPT ![k].val = v]
    /\ UNCHANGED <<outbox, seqHigh, emitLog, checked, vacant, clock>>

\* No repository function rewrites a row's date column.
Update(k, v) ==
    /\ holdings[k] # NoRow
    /\ LET row == [holdings[k] EXCEPT !.val = v] IN
         /\ holdings' = [holdings EXCEPT ![k] = row]
         /\ AppendEvents({Draft(0, k, "update", clock, row)}, "trigger")
    /\ UNCHANGED <<emitLog, checked, vacant, clock>>

Delete(k) ==
    /\ holdings[k] # NoRow
    /\ holdings' = [holdings EXCEPT ![k] = NoRow]
    /\ AppendEvents({Draft(0, k, "delete", clock, holdings[k])}, "trigger")
    /\ UNCHANGED <<emitLog, checked, vacant, clock>>

Present(h) == {k \in Keys : h[k] # NoRow}

\* An import that must not replace looks for rows before its transaction opens.
ImportCheck(p) ==
    /\ p \notin vacant
    /\ Present(holdings) = {}
    /\ vacant' = vacant \cup {p}
    /\ UNCHANGED <<holdings, outbox, seqHigh, emitLog, checked, clock>>

Admitted(replace) ==
    IF replace THEN UNCHANGED vacant ELSE \E p \in vacant : vacant' = vacant \ {p}

\* Mutant: the envelope's rows go in before the old rows go out.
ImportInsertsFirst(envelope, replace) ==
    /\ Admitted(replace)
    /\ holdings' = envelope
    /\ AppendEvents({Draft(1, k, "delete", clock, holdings[k]) : k \in Present(holdings)}
                \cup {Draft(0, k, "insert", clock, envelope[k]) : k \in Present(envelope)},
              "trigger")
    /\ UNCHANGED <<emitLog, checked, clock>>

\* json_backup::import. One transaction: every row out, those written since the
\* check too, and the envelope's rows in. All of it at one instant, which is
\* the case only seq can order.
Import(envelope, replace) ==
    /\ Admitted(replace)
    /\ holdings' = envelope
    /\ AppendEvents({Draft(0, k, "delete", clock, holdings[k]) : k \in Present(holdings)}
                \cup {Draft(1, k, "insert", clock, envelope[k]) : k \in Present(envelope)},
              "trigger")
    /\ UNCHANGED <<emitLog, checked, clock>>

\* The load is refused (a bad envelope, a clone that does not verify) or dies.
ImportAbort(p) ==
    /\ p \in vacant
    /\ vacant' = vacant \ {p}
    /\ UNCHANGED <<holdings, outbox, seqHigh, emitLog, checked, clock>>

-----------------------------------------------------------------------------
(* emit *)

Scopes ==
    {[kind |-> "collection"]}
      \cup [kind : {"seq"}, from : 1 .. MaxSeq, to : 1 .. MaxSeq]
      \cup [kind : {"row"}, key : Keys]

provenance(scope) == IF scope.kind = "collection" THEN "backfill" ELSE "redrive"

validate(scope) == scope.kind = "seq" => scope.from <= scope.to

\* Mutant: a backfill of the first holdings table only.
InScopeOfCards(scope, k) ==
    \/ scope.kind = "collection" /\ k[1] = 1
    \/ scope.kind = "row" /\ scope.key = k
    \/ scope.kind = "seq" /\ \E e \in EventsOf(outbox, k) : e.seq \in scope.from .. scope.to

InScope(scope, k) ==
    \/ scope.kind = "collection"
    \/ scope.kind = "row" /\ scope.key = k
    \/ scope.kind = "seq" /\ \E e \in EventsOf(outbox, k) : e.seq \in scope.from .. scope.to

last_backfill == {i \in DOMAIN emitLog : emitLog[i].source = "backfill"}

\* The row's own last-known change time.
occurred_at(k) ==
    LET E == EventsOf(outbox, k) IN
    IF E = {} THEN holdings[k].date
    ELSE (CHOOSE e \in E : \A f \in E : e.at >= f.at).at

\* The newest event the outbox holds for a key, by seq.
LastWritten(k) ==
    LET E == EventsOf(outbox, k) IN CHOOSE e \in E : \A f \in E : e.seq >= f.seq

emit_current_rows(scope) ==
    { Draft(2 * k[1], k, "insert", occurred_at(k), holdings[k])
        : k \in {j \in Present(holdings) : InScope(scope, j)} }

emit_missing_rows(scope) ==
    { Draft(2 * k[1] + 1, k, "delete", LastWritten(k).at, LastWritten(k).row)
        : k \in {j \in Keys \ Present(holdings) :
                   /\ InScope(scope, j)
                   /\ EventsOf(outbox, j) # {}
                   /\ LastWritten(j).op = "delete"} }

Drafts(scope) ==
    emit_current_rows(scope)
      \cup (IF scope.kind = "collection" THEN {} ELSE emit_missing_rows(scope))

\* An unforced backfill looks for a prior one before its transaction opens;
\* a forced one, and a redrive, read nothing before theirs.
IsUnforcedBackfill(scope, force) == scope.kind = "collection" /\ ~force

EmitCheck(p) ==
    /\ p \notin checked
    /\ last_backfill = {}
    /\ checked' = checked \cup {p}
    /\ UNCHANGED <<holdings, outbox, seqHigh, emitLog, vacant, clock>>

Cleared(scope, force) ==
    IF IsUnforcedBackfill(scope, force) THEN \E p \in checked : checked' = checked \ {p}
    ELSE UNCHANGED checked

\* Mutant: the run's range starts one number early.
EmitCommitEarly(scope, force) ==
    /\ validate(scope)
    /\ Cleared(scope, force)
    /\ Len(emitLog) < MaxRuns
    /\ LET D == Drafts(scope) IN
         /\ AppendEvents(D, provenance(scope))
         /\ emitLog' = emitLog \o << [source |-> provenance(scope), seq_first |-> seqHigh,
                                   seq_last |-> seqHigh + Cardinality(D)] >>
    /\ UNCHANGED <<holdings, vacant, clock>>

\* BEGIN to COMMIT: the events and the ledger row that describes them.
EmitCommit(scope, force) ==
    /\ validate(scope)
    /\ Cleared(scope, force)
    /\ Len(emitLog) < MaxRuns
    /\ LET D == Drafts(scope) IN
         /\ AppendEvents(D, provenance(scope))
         /\ emitLog' = emitLog \o << [source |-> provenance(scope), seq_first |-> seqHigh + 1,
                                      seq_last |-> seqHigh + Cardinality(D)] >>
    /\ UNCHANGED <<holdings, vacant, clock>>

\* The process dies, or SQLite refuses its write: nothing of the run is left.
EmitAbort(p) ==
    /\ p \in checked
    /\ checked' = checked \ {p}
    /\ UNCHANGED <<holdings, outbox, seqHigh, emitLog, vacant, clock>>

-----------------------------------------------------------------------------
Tick ==
    /\ clock' \in {t \in 1 .. MaxTime : t = clock + 1 \/ (ClockMayStepBack /\ t < clock)}
    /\ UNCHANGED <<holdings, outbox, seqHigh, emitLog, checked, vacant>>

\* A collection that predates the triggers: rows, and no event for any of them.
Init ==
    /\ clock = 1
    /\ holdings \in [Keys -> [val : Values, date : Dates] \cup {NoRow}]
    /\ outbox = {}
    /\ seqHigh = 0
    /\ emitLog = << >>
    /\ checked = {}
    /\ vacant = {}

Mutate ==
    \/ \E k \in Keys, v \in Values, d \in Dates : Insert(k, [val |-> v, date |-> d])
    \/ \E k \in Keys, v \in Values : Update(k, v)
    \/ \E k \in Keys : Delete(k)
    \/ \E h \in [Keys -> [val : Values, date : Dates] \cup {NoRow}], r \in BOOLEAN : Import(h, r)
    \/ \E p \in Importers : ImportCheck(p) \/ ImportAbort(p)

Emit ==
    \/ \E p \in Emitters : EmitCheck(p) \/ EmitAbort(p)
    \/ \E scope \in Scopes, force \in BOOLEAN : EmitCommit(scope, force)

Next == Mutate \/ Emit \/ Tick

Spec == Init /\ [][Next]_vars

-----------------------------------------------------------------------------
(* Properties *)

\* The variables have their types.
TypeOK ==
    /\ holdings \in [Keys -> Rows \cup {NoRow}]
    /\ outbox \subseteq Event
    /\ seqHigh \in Nat
    /\ emitLog \in Seq([source : Sources, seq_first : Nat, seq_last : Nat])
    /\ checked \subseteq Emitters
    /\ vacant \subseteq Importers
    /\ clock \in 1 .. MaxTime

\* Wherever the outbox has said anything about a key, reducing its events
\* gives the row as it is: restores at one instant, redrives of rows that are
\* gone, backfills and live writes in any order never leave a stale row or a
\* ghost in the projection.
ProjectionExact ==
    \A k \in Keys : EventsOf(outbox, k) # {} => project(outbox)[k] = holdings[k]

\* Once a backfill is in the ledger the projection is the whole collection,
\* and no later write can take a row out of its reach.
BackfillCompletes == last_backfill # {} => project(outbox) = holdings

\* Rule 3 of outbox.rs: an emitted event carries the row's own last-known
\* change time, so a live mutation that follows it always wins.
LiveMutationWins ==
    \A e, t \in outbox :
        e.source # "trigger" /\ t.source = "trigger" /\ e.key = t.key /\ e.seq < t.seq
            => ~Supersedes(e, t)

\* The ledger cannot disagree with the log it describes: its ranges hold the
\* emitted events and nothing else, each event in the range of a run of its
\* own provenance.
LedgerExact ==
    /\ \A e \in outbox :
         e.source = "trigger" <=>
            ~ \E i \in DOMAIN emitLog : e.seq \in emitLog[i].seq_first .. emitLog[i].seq_last
    /\ \A i \in DOMAIN emitLog : \A e \in outbox :
         e.seq \in emitLog[i].seq_first .. emitLog[i].seq_last => e.source = emitLog[i].source

\* The projection of the outbox is a replica of the holdings: no row changes
\* without the copy learning of it in the same step, whoever writes it.
R == INSTANCE Replica WITH
        truth <- holdings,
        known <- {k \in Keys : EventsOf(outbox, k) # {}},
        copy  <- project(outbox)
ImplementsReplica == R!Spec
=============================================================================
