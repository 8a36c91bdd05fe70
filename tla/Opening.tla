------------------------------ MODULE Opening -------------------------------
(***************************************************************************)
(* Opening the shared catalog: the schema gate, the convergence every      *)
(* read-write open performs, the fingerprint it records last, the server's *)
(* read-only probe for it, and the nightly derivation that holds the write *)
(* lock meanwhile (crates/pkdump-db/src/connection.rs, convergence.rs,     *)
(* schema_version.rs, and the reconcile of each shipped seed).             *)
(*                                                                         *)
(* A part of the catalog is what one transaction of a convergence writes,  *)
(* and is named by the build whose seed it was last written from.          *)
(***************************************************************************)
EXTENDS Integers, Sequences, FiniteSets

CONSTANTS
    Builds,       \* binaries
    VersionOf,    \* the schema version each understands
    Sets,         \* card sets a derivation may bring
    Servers,      \* pkdump serve
    Derives,      \* pkdump-lake-derive shared
    Commands,     \* other opens of the catalog read-write, by hand
    None,
    MaxStarts     \* bound: processes started or killed

ASSUME OpeningAssumption ==
    /\ VersionOf \in [Builds -> Nat \ {0}]
    /\ None \notin Builds
    /\ Servers \cap Derives = {} /\ Servers \cap Commands = {} /\ Derives \cap Commands = {}
    /\ MaxStarts \in Nat

VARIABLES
    db,      \* shared.sqlite: what it says of itself, its parts, its sets and their aliases
    lock,    \* who holds the write lock in a long transaction
    proc,    \* each process: its build, its place in its program
    starts,  \* processes started or killed
    mixed,   \* builds that wrote after, or beside, the last convergence that ran to its end
    beside,  \* per process, the builds of others that wrote since its convergence began
    owed     \* seed rows missing where a derivation ended before its last act

openingVars == <<db, lock, proc, starts, mixed, beside, owed>>

Procs == Servers \cup Derives \cup Commands

Seeds == {"shape", "variants", "sub_types", "bundles", "search"}

\* The seeds whose rows point at rows of the ingest.
IngestSeeds == {"set_aliases", "catalog_prices"}

-----------------------------------------------------------------------------
(* The programs, a name for each transaction *)

\* Mutant: the fingerprint is recorded when the gate has been passed.
convergeRecordsFirst == <<"gate", "record", "columns", "shape", "variants", "sub_types", "bundles",
                          "set_aliases", "catalog_prices", "search", "stamp">>

converge == <<"gate", "columns", "shape", "variants", "sub_types", "bundles", "set_aliases", "catalog_prices",
              "search", "stamp", "record">>

\* Mutant: the derivation does not reconcile the ingest's own seeds again.
deriveNoSeeds == <<"variants", "sub_types", "bundles", "begin", "ingest">>

derive == <<"variants", "sub_types", "bundles", "begin", "ingest", "set_aliases", "catalog_prices">>

Program(p) ==
    IF p \in Derives THEN converge \o derive
    ELSE IF p \in Servers THEN <<"probe">> \o converge
    ELSE converge

At(p, step) == proc[p].state = "up" /\ proc[p].pc <= Len(Program(p)) /\ Program(p)[proc[p].pc] = step

Build(p) == proc[p].build

\* The catalog is open somewhere else: only then is its -shm there to be read.
Held(p) == \E q \in Procs \ {p} : proc[q].state = "up" /\ ~At(q, "probe") /\ ~At(q, "gate")

Mine(p) == lock \in {None, p}

Goto(p, rec) == proc' = [proc EXCEPT ![p] = rec]
Next_(p)     == [proc[p] EXCEPT !.pc = @ + 1]

\* Who wrote beside whom.
Wrote(p) ==
    /\ mixed' = mixed \cup {Build(p)}
    /\ beside' = [q \in Procs |-> IF q = p THEN beside[q] ELSE beside[q] \cup {Build(p)}]

Quiet == UNCHANGED <<mixed, beside>>

-----------------------------------------------------------------------------
(* The steps *)

\* A process starts; a server is replaced by one of another build, or of the same.
Start(p, b) ==
    /\ proc[p].state \in (IF p \in Servers THEN {"down", "serving", "failed", "refused"} ELSE {"down"})
    /\ starts < MaxStarts /\ starts' = starts + 1
    /\ Goto(p, [state |-> "up", build |-> b, pc |-> 1, missing |-> FALSE])
    /\ UNCHANGED <<db, lock, owed>> /\ Quiet

\* Restart=on-failure.
Restart(p) ==
    /\ p \in Servers /\ proc[p].state = "failed"
    /\ Goto(p, [proc[p] EXCEPT !.state = "up", !.pc = 1])
    /\ UNCHANGED <<db, lock, starts, owed>> /\ Quiet

is_converged(b) == db.user_version = VersionOf[b] /\ db.fingerprint = b

\* Mutant: every start converges, as it did before there was a fingerprint.
ProbeUnasked(p) ==
    /\ At(p, "probe") /\ Goto(p, Next_(p))
    /\ UNCHANGED <<db, lock, starts, owed>> /\ Quiet

\* open_shared_for_serving: on a clear yes the server serves without a write; every other
\* answer, a -shm that is not there included, is a no.
Probe(p) ==
    /\ At(p, "probe")
    /\ \/ is_converged(Build(p)) /\ Goto(p, [proc[p] EXCEPT !.state = "serving"])
       \/ ~(is_converged(Build(p)) /\ Held(p)) /\ Goto(p, Next_(p))
    /\ UNCHANGED <<db, lock, starts, owed>> /\ Quiet

\* A catalog of a newer build is refused.
Gate(p) ==
    /\ At(p, "gate")
    /\ Goto(p, IF db.user_version > VersionOf[Build(p)]
               THEN [proc[p] EXCEPT !.state = IF p \in Servers THEN "refused" ELSE "down"] ELSE Next_(p))
    /\ beside' = [beside EXCEPT ![p] = {}]
    /\ UNCHANGED <<db, lock, starts, owed, mixed>>

\* add_missing_columns asks for a column first and adds it after.
Columns(p) ==
    /\ At(p, "columns") /\ Goto(p, [Next_(p) EXCEPT !.missing = Build(p) \notin db.columns])
    /\ UNCHANGED <<db, lock, starts, owed>> /\ Quiet

\* The column another open has added since is an error.
Shape(p) ==
    /\ At(p, "shape") /\ Mine(p)
    /\ ~(proc[p].missing /\ Build(p) \in db.columns)
    /\ db' = [db EXCEPT !.columns = @ \cup {Build(p)}, !.seed.shape = Build(p)]
    /\ Goto(p, Next_(p)) /\ Wrote(p) /\ UNCHANGED <<lock, starts, owed>>

ReconcileSeed(p, s) ==
    /\ At(p, s) /\ Mine(p)
    /\ db' = [db EXCEPT !.seed[s] = Build(p)]
    /\ Goto(p, Next_(p)) /\ Wrote(p) /\ UNCHANGED <<lock, starts, owed>>

Variants(p)   == ReconcileSeed(p, "variants")
SubTypeMap(p) == ReconcileSeed(p, "sub_types")
Bundles(p)    == ReconcileSeed(p, "bundles")
SearchMeta(p) == ReconcileSeed(p, "search")

\* How a process ends; the server's connection is dropped before the first request.
Ended(p) == [Next_(p) EXCEPT !.state = IF p \in Servers THEN "serving" ELSE "down"]
After(p) == IF proc[p].pc = Len(Program(p)) THEN Ended(p) ELSE Next_(p)

\* A row whose target the catalog lacks is skipped.
ReconcileTied(p, k) ==
    /\ At(p, k) /\ Mine(p)
    /\ db' = [db EXCEPT !.tied[k] = [s \in Sets |-> IF s \in db.sets THEN Build(p) ELSE @[s]]]
    /\ owed' = owed \ ({k} \X Sets)
    /\ Goto(p, After(p)) /\ Wrote(p) /\ UNCHANGED <<lock, starts>>

SetAliases(p)    == ReconcileTied(p, "set_aliases")
CatalogPrices(p) == ReconcileTied(p, "catalog_prices")

Stamp(p) ==
    /\ At(p, "stamp") /\ Mine(p)
    /\ db' = [db EXCEPT !.user_version = VersionOf[Build(p)]]
    /\ Goto(p, After(p)) /\ Wrote(p) /\ UNCHANGED <<lock, starts, owed>>

\* The claim that all of it has happened.
Record(p) ==
    /\ At(p, "record") /\ Mine(p)
    /\ db' = [db EXCEPT !.fingerprint = Build(p)]
    /\ mixed' = beside[p]
    /\ beside' = [q \in Procs |-> IF q = p THEN beside[q] ELSE beside[q] \cup {Build(p)}]
    /\ Goto(p, After(p)) /\ UNCHANGED <<lock, starts, owed>>

BeginIngest(p) ==
    /\ At(p, "begin") /\ lock = None
    /\ lock' = p /\ Goto(p, Next_(p))
    /\ UNCHANGED <<db, starts, owed>> /\ Quiet

Ingest(p) ==
    \E s \in Sets :
        /\ At(p, "ingest") /\ lock = p
        /\ db' = [db EXCEPT !.sets = @ \cup {s}]
        /\ lock' = None /\ Goto(p, After(p))
        /\ UNCHANGED <<starts, owed>> /\ Quiet

\* Seed rows whose target is in the catalog and which are not.
Missing == {ks \in IngestSeeds \X db.sets : db.tied[ks[1]][ks[2]] = None}

Fail(p) ==
    /\ Goto(p, [proc[p] EXCEPT !.state = IF p \in Servers THEN "failed" ELSE "down"])
    /\ lock' = IF lock = p THEN None ELSE lock
    /\ owed' = IF p \in Derives THEN owed \cup Missing ELSE owed
    /\ UNCHANGED db /\ Quiet

Die(p) == proc[p].state = "up" /\ starts < MaxStarts /\ starts' = starts + 1 /\ Fail(p)

\* Out of patience for the lock, or on a column that is there by now.
GiveUp(p) ==
    /\ \/ lock \notin {None, p} /\ \E s \in (Seeds \cup IngestSeeds \cup {"stamp", "record", "begin"}) : At(p, s)
       \/ At(p, "shape") /\ proc[p].missing /\ Build(p) \in db.columns
    /\ Fail(p) /\ UNCHANGED starts

Run(p) ==
    \/ Probe(p) \/ Gate(p) \/ Columns(p) \/ Shape(p) \/ Variants(p) \/ SubTypeMap(p) \/ Bundles(p)
    \/ SetAliases(p) \/ CatalogPrices(p) \/ SearchMeta(p) \/ Stamp(p) \/ Record(p) \/ BeginIngest(p) \/ Ingest(p)

Init ==
    /\ db = [user_version |-> 0, fingerprint |-> None, columns |-> {}, seed |-> [s \in Seeds |-> None],
             sets |-> {}, tied |-> [k \in IngestSeeds |-> [s \in Sets |-> None]]]
    /\ lock = None
    /\ proc = [p \in Procs |-> [state |-> "down", build |-> None, pc |-> 1, missing |-> FALSE]]
    /\ starts = 0
    /\ mixed = {} /\ beside = [p \in Procs |-> {}] /\ owed = {}

Next == \E p \in Procs : (\E b \in Builds : Start(p, b)) \/ Restart(p) \/ Run(p) \/ GiveUp(p) \/ Die(p)

Spec == Init /\ [][Next]_openingVars

\* The server runs, gives up and is restarted; nothing is promised of anyone else.
FairSpec == Spec /\ \A p \in Servers : WF_openingVars(Run(p) \/ GiveUp(p) \/ Restart(p))

-----------------------------------------------------------------------------
(* Properties *)

\* "A catalog carrying this build's fingerprint has already had this build's convergence
\* applied to it": whatever dies and wherever, a fingerprint that matches means every seed in
\* the catalog is the build's own, except where another build's convergence was cut short
\* since, or ran beside it.
FingerprintTells ==
    \A b \in Builds : is_converged(b) => \A s \in Seeds : db.seed[s] \in {b} \cup mixed

\* "what makes one derive a fixed point rather than the first of two": what the
\* ingest brings has its aliases and its curated prices, unless a derivation is between its ingest and its last act, or ended there.
SeedsReachTheirTargets ==
    \A ks \in Missing :
        ks \in owed \/ \E p \in Derives : \E i \in proc[p].pc .. Len(Program(p)) :
            proc[p].state = "up" /\ i > Len(converge) /\ Program(p)[i] = ks[1]

\* "an ordinary restart cannot race the derive": a server of the build the catalog is
\* converged to comes up, though a derivation holds the write lock and never lets it go.
ComesUp ==
    \A p \in Servers, b \in Builds :
        proc[p].state \in {"up", "failed"} /\ proc[p].build = b /\ is_converged(b) ~>
            proc[p].state = "serving" \/ proc[p].build # b \/ ~is_converged(b)
=============================================================================
