-------------------------------- MODULE Lake --------------------------------
(***************************************************************************)
(* The two price tables of the lake, catalog.prices and                    *)
(* catalog.sealed_prices: what a night's landed runs reduce to, the builds *)
(* that replace a day of each table in a commit of its own, and the other  *)
(* reader of the same runs, the derivation into shared.sqlite, with which  *)
(* pkdump-lake-verify-prices compares them                                 *)
(* (crates/pkdump-lakehouse: prices_core.rs, build_prices.rs, replace.rs,  *)
(* verify_prices.rs; crates/pkdump-ingest/src/tcgcsv.rs).                  *)
(*                                                                         *)
(* Of the five price types the two that are ever spent are kept.  The      *)
(* observed date is the ingest date, as in every unattended build.         *)
(***************************************************************************)
EXTENDS Integers, Sequences, FiniteSets

CONSTANTS
    Days,         \* dates, as integers
    Products,     \* TCGplayer products
    Subs,         \* sub-types
    Bodies,       \* what a run's payloads may say
    Builders,     \* runs of pkdump-lake-build-prices
    NoPrice,      \* a null quote
    MaxLandings,  \* bound: fetch runs landed
    MaxDerives,   \* bound: derivations
    MaxHead       \* bound: commits

PriceTypes == {"market", "mid"}

\* One run's payloads, in the order they are read: the products its listing shows
\* as sealed, and the entries that quote a product under a sub-type.
Body == [sealed : SUBSET Products,
         entries : Seq([product : Products, sub : Subs,
                        quotes : [PriceTypes -> Int \cup {NoPrice}]])]

ASSUME LakeAssumption ==
    /\ Days \subseteq Int
    /\ NoPrice \notin Int
    /\ Bodies \subseteq Body
    /\ MaxLandings \in Nat /\ MaxDerives \in Nat /\ MaxHead \in Nat

VARIABLES
    landed,    \* raw/: the runs of each date, oldest first
    tables,    \* at the head of main: the data files and the snapshot of each table
    head,      \* commits on main so far; the Nessie hash
    build,     \* each builder's progress
    torn,      \* days a build that ended in an error reached one table of, not rebuilt since
    sqlite,    \* shared.sqlite: prices, sealed_prices and sealed_products
    imports    \* per date: each derivation's run, and the products it routed as sealed

lakeVars == <<landed, tables, head, build, torn, sqlite, imports>>

Tables == {"prices", "sealed"}
Run    == [complete : BOOLEAN, body : Bodies]
Choice == SUBSET (1 .. MaxLandings)
File   == [day : Days, products : Choice, prices : Choice]

-----------------------------------------------------------------------------
(* prices_core.rs: what the runs read reduce to *)

Least(S)    == CHOOSE x \in S : \A y \in S : x <= y
Greatest(S) == CHOOSE x \in S : \A y \in S : x >= y

\* The newest complete run alone; without one, every run.
select_runs(d) ==
    LET whole == {n \in DOMAIN landed[d] : landed[d][n].complete}
    IN  IF whole = {} THEN DOMAIN landed[d] ELSE {Greatest(whole)}

Body_(d, n) == landed[d][n].body

sealed_product_ids(d, runs) == UNION {Body_(d, n).sealed : n \in runs}

Grain == Products \X Subs \X PriceTypes

\* The entries of a run that quote a price at the grain g; that mention product p.
Quoting(b, g) ==
    {i \in DOMAIN b.entries :
        /\ <<b.entries[i].product, b.entries[i].sub>> = <<g[1], g[2]>>
        /\ b.entries[i].quotes[g[3]] # NoPrice}
Mentions(b, p) == {i \in DOMAIN b.entries : b.entries[i].product = p}

\* Within one run the first entry wins, across runs the later run. A sealed product's
\* entry wins whole, its nulls included.
read_date(d, runs) ==
    LET by(g) == {n \in runs : Quoting(Body_(d, n), g) # {}}
    IN  [g \in {h \in Grain : by(h) # {}} |->
            LET b == Body_(d, Greatest(by(g)))
            IN  b.entries[Least(Quoting(b, g))].quotes[g[3]]]

\* Mutant: the sealed rows reduced per price type.
read_sealedPerType(d, runs, ids) ==
    LET by(p, t) == {n \in runs : \E s \in Subs : Quoting(Body_(d, n), <<p, s, t>>) # {}}
    IN  [k \in {j \in ids \X PriceTypes : by(j[1], j[2]) # {}} |->
            LET b == Body_(d, Greatest(by(k[1], k[2])))
            IN  b.entries[Least(UNION {Quoting(b, <<k[1], s, k[2]>>) : s \in Subs})].quotes[k[2]]]

read_sealed(d, runs, ids) ==
    LET by(p) == {n \in runs : Mentions(Body_(d, n), p) # {}}
        entry(p) == LET b == Body_(d, Greatest(by(p))) IN b.entries[Least(Mentions(b, p))].quotes
    IN  [k \in {j \in ids \X PriceTypes : by(j[1]) # {} /\ entry(j[1])[j[2]] # NoPrice} |->
            entry(k[1])[k[2]]]

\* The rows of a table's file. A file without rows is not written.
RowsOf(t, f) ==
    IF t = "prices" THEN read_date(f.day, f.prices)
    ELSE read_sealed(f.day, f.prices, sealed_product_ids(f.day, f.products))

-----------------------------------------------------------------------------
(* A build: the listings of products and of prices read one after the      *)
(* other, both tables loaded, a commit to each.                            *)

Idle == [phase |-> "idle"]

\* How many entries the dates' logs hold together.
Logged(log) == Cardinality(UNION {{d} \X DOMAIN log[d] : d \in Days})

Land ==
    \E d \in Days, b \in Bodies, c \in BOOLEAN :
        /\ Logged(landed) < MaxLandings
        /\ landed' = [landed EXCEPT ![d] = Append(@, [complete |-> c, body |-> b])]
        /\ UNCHANGED <<tables, head, build, torn, sqlite, imports>>

Step(b, rec) == build' = [build EXCEPT ![b] = rec]

ReadProducts(b) ==
    \E d \in Days :
        /\ build[b] = Idle /\ landed[d] # << >>
        /\ Step(b, [phase |-> "products", day |-> d, products |-> select_runs(d)])
        /\ UNCHANGED <<landed, tables, head, torn, sqlite, imports>>

ReadPrices(b) ==
    /\ build[b].phase = "products"
    /\ Step(b, [phase |-> "read",
                file |-> [day |-> build[b].day, products |-> build[b].products,
                          prices |-> select_runs(build[b].day)]])
    /\ UNCHANGED <<landed, tables, head, torn, sqlite, imports>>

\* ensure_tables: the metadata both commits are planned from.
LoadTables(b) ==
    /\ build[b].phase = "read"
    /\ Step(b, [phase |-> "loaded", file |-> build[b].file, base |-> tables])
    /\ UNCHANGED <<landed, tables, head, torn, sqlite, imports>>

\* plan: the loaded table without its files of the day, and the new file.
plan(t, base, f) ==
    {g \in base.files : g.day # f.day} \cup (IF DOMAIN RowsOf(t, f) = {} THEN {} ELSE {f})

\* Mutant: no requirement on the snapshot the commit was planned from.
UnmovedUnasked(t, b) == TRUE

\* RefSnapshotIdMatch: main must still be at the snapshot the plan was made from.
Unmoved(t, b) == tables[t].snap = build[b].base[t].snap

Commit(t, base, f) ==
    /\ head < MaxHead
    /\ head' = head + 1
    /\ tables' = [tables EXCEPT ![t] = [files |-> plan(t, base[t], f), snap |-> head']]

CommitPrices(b) ==
    /\ build[b].phase = "loaded" /\ Unmoved("prices", b)
    /\ Commit("prices", build[b].base, build[b].file)
    /\ Step(b, [build[b] EXCEPT !.phase = "half"])
    /\ UNCHANGED <<landed, torn, sqlite, imports>>

Tear(b) == torn' = IF build[b].phase = "half" THEN torn \cup {build[b].file.day} ELSE torn

\* A day both tables hold from one build is whole again.
Mend(b) == torn' = IF build[b].file \in tables["prices"].files THEN torn \ {build[b].file.day} ELSE torn

\* Mutant: the sealed table is loaded again, just before its own commit.
CommitSealedReload(b) ==
    /\ build[b].phase = "half"
    /\ Commit("sealed", tables, build[b].file)
    /\ Mend(b) /\ Step(b, Idle)
    /\ UNCHANGED <<landed, sqlite, imports>>

CommitSealed(b) ==
    /\ build[b].phase = "half" /\ Unmoved("sealed", b)
    /\ Commit("sealed", build[b].base, build[b].file)
    /\ Mend(b) /\ Step(b, Idle)
    /\ UNCHANGED <<landed, sqlite, imports>>

\* The commit the builder is at is refused: the table has moved. It is not retried.
Refused(b) ==
    /\ \/ build[b].phase = "loaded" /\ ~Unmoved("prices", b)
       \/ build[b].phase = "half" /\ ~Unmoved("sealed", b)
    /\ Tear(b) /\ Step(b, Idle)
    /\ UNCHANGED <<landed, tables, head, sqlite, imports>>

Die(b) ==
    /\ build[b] # Idle
    /\ Tear(b) /\ Step(b, Idle)
    /\ UNCHANGED <<landed, tables, head, sqlite, imports>>

-----------------------------------------------------------------------------
(* tcgcsv.rs: the same run into shared.sqlite, entry by entry *)

\* INSERT OR IGNORE: the rows already there stay.
OrIgnore(old, new) ==
    [k \in DOMAIN old \cup DOMAIN new |-> IF k \in DOMAIN old THEN old[k] ELSE new[k]]

import_price(d, db, e) ==
    IF e.product \in db.products
    THEN [db EXCEPT !.sealed = OrIgnore(@, [k \in {<<e.product, d>>} |-> e.quotes])]
    ELSE [db EXCEPT !.prices = OrIgnore(@,
            [k \in {<<e.product, e.sub, t, d>> : t \in {u \in PriceTypes : e.quotes[u] # NoPrice}} |->
                e.quotes[k[3]]])]

import_sealed_products(db, b) == [db EXCEPT !.products = @ \cup b.sealed]

import_prices(d, db, b) ==
    LET after[i \in 0 .. Len(b.entries)] ==
            IF i = 0 THEN db ELSE import_price(d, after[i - 1], b.entries[i])
    IN  after[Len(b.entries)]

\* A derivation replays the newest complete run of its date, and no other.
Derive ==
    \E d \in Days : \E n \in select_runs(d) :
        /\ landed[d][n].complete
        /\ Logged(imports) < MaxDerives
        /\ LET db == import_sealed_products(sqlite, Body_(d, n)) IN
             /\ sqlite' = import_prices(d, db, Body_(d, n))
             /\ imports' = [imports EXCEPT ![d] = Append(@, [run |-> n, sealed |-> db.products])]
        /\ UNCHANGED <<landed, tables, head, build, torn>>

LakeInit ==
    /\ landed = [d \in Days |-> << >>]
    /\ tables = [t \in Tables |-> [files |-> {}, snap |-> 0]]
    /\ head = 0
    /\ build = [b \in Builders |-> Idle]
    /\ torn = {}
    /\ sqlite = [prices |-> << >>, sealed |-> << >>, products |-> {}]
    /\ imports = [d \in Days |-> << >>]

LakeNext ==
    \/ Land \/ Derive
    \/ \E b \in Builders :
         ReadProducts(b) \/ ReadPrices(b) \/ LoadTables(b) \/ CommitPrices(b) \/ CommitSealed(b)
         \/ Refused(b) \/ Die(b)

LakeSpec == LakeInit /\ [][LakeNext]_lakeVars

-----------------------------------------------------------------------------
(* What a collection is valued from on a date: lake.rs over the two tables, *)
(* value_history.rs over shared.sqlite                                      *)

FilesOf(t, d) == {f \in tables[t].files : f.day = d}
Rows(t, d) == UNION {{Append(k, RowsOf(t, f)[k]) : k \in DOMAIN RowsOf(t, f)} : f \in FilesOf(t, d)}

Upto(date) == {d \in Days : d <= date}

\* The prices S quotes for the newest day it has any, from day to set of prices.
Newest(date, S(_)) ==
    LET days == {d \in Upto(date) : S(d) # {}} IN IF days = {} THEN {} ELSE S(Greatest(days))

\* COALESCE(market, mid) of <<type, price>> quotes of one observation.
Coalesce(quotes) ==
    LET of(t) == {q[2] : q \in {r \in quotes : r[1] = t}} IN IF of("market") # {} THEN of("market") ELSE of("mid")

market_prices(date, p, s) ==
    Newest(date, LAMBDA d : {r[4] : r \in {q \in Rows("prices", d) : <<q[1], q[2], q[3]>> = <<p, s, "market">>}})

\* Mutant: the newest market price, or the newest mid where no day has one.
sealed_market_pricesAcrossDays(date, p) ==
    LET of(t) == Newest(date, LAMBDA d : {r[3] : r \in {q \in Rows("sealed", d) : <<q[1], q[2]>> = <<p, t>>}})
    IN  IF of("market") # {} THEN of("market") ELSE of("mid")

sealed_market_prices(date, p) ==
    Coalesce(Newest(date, LAMBDA d : {<<r[2], r[3]>> : r \in {q \in Rows("sealed", d) : q[1] = p}}))

prices_asof(date, p, s) ==
    Newest(date, LAMBDA d : {sqlite.prices[k] : k \in DOMAIN sqlite.prices \cap {<<p, s, "market", d>>}})

sealed_prices_asof(date, p) ==
    LET row(d) == {<<t, sqlite.sealed[k][t]>> : k \in DOMAIN sqlite.sealed \cap {<<p, d>>}, t \in PriceTypes}
    IN  Coalesce({q \in Newest(date, row) : q[2] # NoPrice})

-----------------------------------------------------------------------------
(* Properties *)

PricesTable == INSTANCE PriceTable WITH day <- [d \in Days |-> FilesOf("prices", d)], Builds <- File
SealedTable == INSTANCE PriceTable WITH day <- [d \in Days |-> FilesOf("sealed", d)], Builds <- File

\* "replaced in one Iceberg overwrite commit per table, every other day untouched": however
\* builds interleave, fail or die, each commit replaces one day of one table by what one
\* build wrote; no day is ever doubled, and none is taken back by a commit planned from
\* an older snapshot.
ImplementsTables == PricesTable!Spec /\ SealedTable!Spec

\* What the build of file f leaves in table t.
Written(t, f) == IF DOMAIN RowsOf(t, f) = {} THEN {} ELSE {f}

OneBuild(d) ==
    \A t \in Tables : \A f \in FilesOf(t, d) : \A u \in Tables : FilesOf(u, d) = Written(u, f)

\* "one build writes both price tables or neither" (freshness.rs), as far as that holds: two
\* tables that hold different builds of a day are a build at work, or one that ended in an error.
SplitsAreReported ==
    \A d \in Days :
        OneBuild(d) \/ d \in torn \/ \E b \in Builders : build[b].phase = "half" /\ build[b].file.day = d

\* verify_prices.rs's comparison of one date.
Singles(d) == {<<k[1], k[2], k[3], sqlite.prices[k]>> : k \in {j \in DOMAIN sqlite.prices : j[4] = d}}
Sealed(d) ==
    {<<k[1], t, sqlite.sealed[k][t]>> : k \in {j \in DOMAIN sqlite.sealed : j[2] = d}, t \in PriceTypes}
Compare(d) ==
    LET night  == sealed_product_ids(d, select_runs(d))
        priced == {r \in Sealed(d) : r[3] # NoPrice}
        lake   == Rows("prices", d)
        kept   == Rows("sealed", d)
        history == {r \in priced : r[1] \notin night /\ \A q \in kept : <<q[1], q[2]>> # <<r[1], r[2]>>}
    IN  /\ Singles(d) = {r \in lake : r[1] \notin sqlite.products}
        /\ \A r \in priced : \E q \in lake : <<q[1], q[3], q[4]>> = r
        /\ priced \ history = kept

Quoted(b) == {b.entries[i].product : i \in DOMAIN b.entries}

\* Both readers have read one and the same run of the date, whole.
SameRun(d) ==
    \E n \in DOMAIN landed[d] :
        /\ select_runs(d) = {n} /\ imports[d] # << >>
        /\ \A i \in DOMAIN imports[d] : imports[d][i].run = n
        /\ \A t \in Tables : FilesOf(t, d) = Written(t, [day |-> d, products |-> {n}, prices |-> {n}])

\* The product has not become sealed since a derivation read it for a card.
Settled(p, d) ==
    \A i \in DOMAIN imports[d] :
        p \in sqlite.products \cap Quoted(Body_(d, imports[d][i].run)) => p \in imports[d][i].sealed

\* Two reductions of the same bytes, one row by row into SQLite and one over the whole
\* night into the lake, agree on every price, sealed products quoted twice included.
VerifyAgrees == \A d \in Days : SameRun(d) /\ (\A p \in Products : Settled(p, d)) => Compare(d)

\* p is in the listing of every run up to the date that quotes it, and never quoted by
\* nulls alone: what verify_prices.rs calls history is not compared.
Listed(p, date) ==
    \A d \in Upto(date) : \A n \in DOMAIN landed[d] :
        LET b == Body_(d, n) IN
        p \in Quoted(b) => p \in b.sealed /\ \A i \in Mentions(b, p) : \E t \in PriceTypes : b.entries[i].quotes[t] # NoPrice

\* "observably the same as value_history.rs": where every night up to a date reached both
\* sides, a collection valued from the lake for that date and one valued from shared.sqlite
\* spend the same price on every card and on every sealed product.
AsOfAgrees ==
    \A date \in Days :
        (\A d \in Upto(date) : SameRun(d) \/ (imports[d] = << >> /\ \A t \in Tables : FilesOf(t, d) = {})) =>
            \A p \in {q \in Products : \A d \in Upto(date) : Settled(q, d)} :
                IF p \notin sqlite.products
                THEN \A s \in Subs : market_prices(date, p, s) = prices_asof(date, p, s)
                ELSE Listed(p, date) => sealed_market_prices(date, p) = sealed_prices_asof(date, p)
=============================================================================
