------------------------------ MODULE Nightly -------------------------------
(* The nightly pipeline.  The refresh (pkdump_derive::land) asks every       *)
(* upstream and lands the answers in raw/ as one run; the derivation         *)
(* (pkdump-lake-derive shared, pkdump_derive::derive) replays one run into   *)
(* the shared catalog.  They are two processes on two timers: either may end *)
(* half way, and they may overlap.  The one thing the refresh reads of the   *)
(* catalog is which sets it has; the one thing the derivation has is the run.*)
(*                                                                           *)
(* A set's cards, and a group's products and prices, are one unit each, and  *)
(* every set of the bulk corpus has its card file.  The Japanese groups      *)
(* (japan.rs) are landed and loaded like the English ones.                   *)
EXTENDS Partition

CONSTANTS Bridged,       \* sets tcgcsv_set_bridges.json declares and fills
          Discoverable,  \* sets whose group has a numbered-expansion name
          None,
          MaxDay,        \* bound: dates
          MaxRuns,       \* bound: refreshes started, before the last derivation
          MaxDerives,    \* bound: derivations started
          MaxCrashes     \* bound: derivations that die half way

ASSUME SetsAreSets == Bridged \subseteq Sets /\ Discoverable \subseteq Sets
ASSUME NoneIsNoSet == None \notin Sets
ASSUME BoundsAreNat == {MaxDay, MaxRuns, MaxDerives, MaxCrashes} \subseteq Nat

VARIABLES
    listed,   \* sets pokemontcg.io lists
    traded,   \* groups TCGCSV has
    corpus,   \* sets in the bulk corpus, each with its card file
    today,    \* the date of the last refresh
    zone,     \* raw/: date -> the runs that landed it, oldest first
    land,     \* the refresh in progress
    cat,      \* shared.sqlite
    job,      \* the derivation in progress
    runs, derives, crashes,
    last      \* the last derivation that recorded provenance (history)

upstream == <<listed, traded, corpus>>
bounds == <<runs, derives, crashes>>
vars == <<upstream, today, zone, land, cat, job, bounds, last>>

Days == 1..MaxDay

(* Mutant: a derivation that materializes latest_prices before the prices come.*)
PhasesLatestFirst == <<"latest", "bulk", "tail", "link", "load", "discover", "bridges", "expand", "seeds", "record">>
(* The order of a derivation's phases: derive, and acquire inside it.        *)
Phases == <<"bulk", "tail", "link", "load", "discover", "bridges", "expand", "latest", "seeds", "record">>

Catalog == [row: [Sets -> {"none", "local", "stamped"}],     \* sets; stamped: ptcgio_fetched_at
            cards: [Sets -> {"none", "stub", "real"}],       \* cards; real: raw_json is there
            group: [Sets -> {"none", "loose", "linked"}],    \* tcgplayer_groups.set_code
            stock: [Sets -> {"none", "loose", "linked"}],    \* products; sealed_products.set_code
            prints: [Sets -> {"none", "plain", "traded"}],   \* printings
            alias: SUBSET Sets,                              \* set_aliases
            prices: [Days -> SUBSET Sets],
            latest: [Sets -> {0} \cup Days],                 \* latest_prices
            prov: [Days -> 0..MaxRuns]]                      \* raw_derivation

Idle == [at |-> "idle"]

Init ==
    /\ listed = {} /\ traded = {} /\ corpus = {}
    /\ today = 1
    /\ zone = [d \in Days |-> <<>>]
    /\ land = Idle /\ job = Idle
    /\ cat = [row |-> [s \in Sets |-> "none"], cards |-> [s \in Sets |-> "none"],
              group |-> [s \in Sets |-> "none"], stock |-> [s \in Sets |-> "none"],
              prints |-> [s \in Sets |-> "none"], alias |-> {},
              prices |-> [d \in Days |-> {}], latest |-> [s \in Sets |-> 0],
              prov |-> [d \in Days |-> 0]]
    /\ runs = 0 /\ derives = 0 /\ crashes = 0 /\ last = None

-----------------------------------------------------------------------------
(* The upstreams publish when they like and withdraw nothing: an answer      *)
(* holds what the one before it held, and a set of the corpus is listed.     *)
Grown(known) == {answer \in SUBSET Sets : known \subseteq answer}

(* missing_sets: a set without ptcgio_fetched_at counts as missing, so that  *)
(* the real cards replace the synthesized ones.                              *)
Missing(c, list) == {s \in list : c.row[s] # "stamped"}

-----------------------------------------------------------------------------
(* The refresh.                                                              *)

Refresh(next) == land' = next /\ UNCHANGED <<today, zone, cat, job, bounds, last>>

(* The clock is read once; days pass when they pass, without a landing too.  *)
LandBegin(d) ==
    /\ land.at = "idle" /\ runs < MaxRuns /\ derives < MaxDerives
    /\ d >= today /\ today' = d /\ runs' = runs + 1
    /\ land' = [at |-> "sets", day |-> d, todo |-> {}, run |-> EmptyRun]
    /\ UNCHANGED <<upstream, zone, cat, job, derives, crashes, last>>

(* A request whose retries are spent leaves its dataset short; the tail ends *)
(* there and the run goes on.                                                *)
LandSets ==
    /\ land.at = "sets"
    /\ \/ /\ listed' \in Grown(listed \cup corpus)
          /\ Refresh([land EXCEPT !.at = "cards", !.todo = Missing(cat, listed'),
                                  !.run.sets = "whole", !.run.list = listed'])
       \/ Refresh([land EXCEPT !.at = "cards"]) /\ UNCHANGED listed
    /\ UNCHANGED <<traded, corpus>>

(* Mutant: a failure between two sets is not written down.                  *)
WithAnyCards(run, wanted, got) ==
    [run EXCEPT !.landed = got,
                !.cards = IF wanted = {} THEN "none" ELSE IF got # {} THEN "whole" ELSE "short"]
WithCards(run, wanted, got) ==
    [run EXCEPT !.landed = got,
                !.cards = IF wanted = {} THEN "none" ELSE IF got = wanted THEN "whole" ELSE "short"]
LandCards ==
    /\ land.at = "cards"
    /\ \E got \in SUBSET land.todo :
         Refresh([land EXCEPT !.at = "groups", !.todo = {}, !.run = WithCards(@, land.todo, got)])
    /\ UNCHANGED upstream

LandTcgcsv ==
    /\ land.at = "groups"
    /\ traded' \in Grown(traded)
    /\ Refresh([land EXCEPT !.at = "bulk", !.run.groups = traded'])
    /\ UNCHANGED <<listed, corpus>>

(* finalize_landing writes the manifests.                                    *)
Finalize(run) ==
    /\ zone' = [zone EXCEPT ![land.day] = Append(@, run)]
    /\ land' = Idle
    /\ UNCHANGED <<listed, traded, today, cat, job, bounds, last>>

LandBulk ==
    /\ land.at = "bulk"
    /\ corpus' \in Grown(corpus)
    /\ Finalize([land.run EXCEPT !.bulk = corpus'])

(* TCGCSV or the corpus fails: no dataset is complete, nothing of the run is *)
(* ever replayed, and how far it came tells only in whether it landed cards. *)
LandCut ==
    /\ land.at = "groups"
    /\ Finalize([EmptyRun EXCEPT !.cards = land.run.cards, !.cut = TRUE])
    /\ UNCHANGED corpus

-----------------------------------------------------------------------------
(* The derivation.                                                           *)

Replayed == zone[job.day][job.run]
PhaseAfter(p) == Phases[1 + CHOOSE i \in DOMAIN Phases : Phases[i] = p]

(* What a phase that goes set by set, or group by group, is to go through.   *)
Work(p, c) ==
    CASE p = "tail" /\ Replayed.sets = "whole" -> Missing(c, Replayed.list)
      [] p = "load" -> Replayed.groups
      [] p = "discover" -> {s \in Sets : c.group[s] = "loose"}
      [] p = "expand" -> {s \in Sets : c.cards[s] # "none"}
      [] OTHER -> {}

Write(c, next) ==
    cat' = c /\ job' = next /\ UNCHANGED <<upstream, today, zone, land, bounds, last>>
Enter(p, c) ==
    Write(c, [job EXCEPT !.at = p, !.todo = Work(p, c),
                         !.failed = @ \/ (p = "tail" /\ Replayed.sets = "short")])
Done(c) == Enter(PhaseAfter(job.at), c)
Step(s, c) == s \in job.todo /\ Write(c, [job EXCEPT !.todo = @ \ {s}])
PhaseEnds == job.at \in {"tail", "load", "discover", "expand"} /\ job.todo = {} /\ Done(cat)

(* The seeds whose rows refer to rows of the catalog are written for the     *)
(* rows there are: on opening, and again at the end.                         *)
Seeded(c) == [c EXCEPT !.alias = {s \in Sets : c.row[s] # "none"}]

DeriveBegin(d) ==
    /\ job.at = "idle" /\ derives < MaxDerives
    /\ \E n \in Chosen(zone[d]) :
         job' = [at |-> Phases[1], day |-> d, run |-> n, todo |-> {}, set |-> None, failed |-> FALSE]
    /\ cat' = Seeded(cat) /\ derives' = derives + 1
    /\ last' = IF last # None /\ [day |-> last.day, run |-> last.run] = [day |-> d, run |-> job'.run]
                 THEN last ELSE None
    /\ UNCHANGED <<upstream, today, zone, land, runs, crashes>>

ImportBulk ==
    /\ job.at = "bulk"
    /\ Done([cat EXCEPT
         !.row   = [s \in Sets |-> IF s \in Replayed.bulk THEN "stamped" ELSE @[s]],
         !.cards = [s \in Sets |-> IF s \in Replayed.bulk THEN "real" ELSE @[s]]])

(* import_tail: the set's row, and then its cards, which the run may lack.   *)
StampSet(s) ==
    /\ job.at = "tail" /\ job.set = None /\ s \in job.todo
    /\ Write([cat EXCEPT !.row[s] = "stamped"], [job EXCEPT !.set = s])
ImportCards(s) ==
    /\ job.at = "tail" /\ job.set = s
    /\ IF s \in Replayed.landed
         THEN Write([cat EXCEPT !.cards[s] = "real"], [job EXCEPT !.todo = @ \ {s}, !.set = None])
         ELSE Write(cat, [job EXCEPT !.todo = {}, !.set = None, !.failed = TRUE])

(* tcgcsv::import_groups: the bridges' own sets are made, then every group   *)
(* of the run is linked to the set it matches, if the catalog has it.        *)
LinkGroups ==
    LET rows == [s \in Sets |-> IF s \in Bridged /\ cat.row[s] = "none" THEN "local" ELSE cat.row[s]]
    IN  /\ job.at = "link"
        /\ Done([cat EXCEPT
             !.row   = rows,
             !.group = [s \in Sets |-> IF s \notin Replayed.groups THEN @[s]
                                       ELSE IF rows[s] = "none" THEN "loose" ELSE "linked"]])

LoadGroup(s) ==
    /\ job.at = "load"
    /\ Step(s, [cat EXCEPT !.stock[s] = cat.group[s], !.prices[job.day] = @ \cup {s}])

(* Mutant: an upsert instead of INSERT OR IGNORE.                           *)
StubsOver(c, which) == [s \in Sets |-> IF s \in which THEN "stub" ELSE c.cards[s]]
(* Synthesized cards never replace upstream's.                               *)
Stubs(c, which) ==
    [s \in Sets |-> IF s \in which /\ c.cards[s] = "none" THEN "stub" ELSE c.cards[s]]

Discover(s) ==
    /\ job.at = "discover"
    /\ Step(s, IF s \in Discoverable /\ cat.stock[s] # "none" /\ cat.row[s] # "stamped"
               THEN [cat EXCEPT !.row[s] = "local", !.group[s] = "linked", !.cards = Stubs(cat, {s})]
               ELSE cat)

FillBridges ==
    /\ job.at = "bridges"
    /\ Done([cat EXCEPT !.cards = Stubs(cat, {s \in Bridged : cat.stock[s] # "none"})])

Expand(s) ==
    /\ job.at = "expand"
    /\ Step(s, [cat EXCEPT !.prints[s] =
         IF cat.group[s] = "linked" /\ cat.stock[s] # "none" THEN "traded" ELSE "plain"])

Newest(c, s) == Max({0} \cup {d \in Days : s \in c.prices[d]})
RefreshLatest ==
    /\ job.at = "latest"
    /\ Done([cat EXCEPT !.latest = [s \in Sets |-> Newest(cat, s)]])

(* Mutant: the seeds are reconciled on opening only.                        *)
ReseedNot == job.at = "seeds" /\ Done(cat)
Reseed == job.at = "seeds" /\ Done(Seeded(cat))

(* The exit status: a tail that failed on a whole run is a fault.            *)
Exit == IF Partial(Replayed) THEN 2 ELSE IF job.failed THEN 1 ELSE 0

Record ==
    /\ job.at = "record"
    /\ IF Exit = 1 THEN cat' = cat /\ last' = None
       ELSE /\ cat' = [cat EXCEPT !.prov[job.day] = job.run]
            /\ last' = [day |-> job.day, run |-> job.run, cat |-> cat']
    /\ job' = Idle
    /\ UNCHANGED <<upstream, today, zone, land, bounds>>

(* The derivation dies between two of its transactions.                      *)
DeriveCrash ==
    /\ job.at # "idle" /\ crashes < MaxCrashes
    /\ job' = Idle /\ last' = None /\ crashes' = crashes + 1
    /\ UNCHANGED <<upstream, today, zone, land, cat, runs, derives>>

-----------------------------------------------------------------------------
RefreshNext ==
    \/ \E d \in Days : LandBegin(d)
    \/ LandSets \/ LandCards \/ LandTcgcsv \/ LandBulk \/ LandCut
DeriveNext ==
    \/ \E d \in Days : DeriveBegin(d)
    \/ PhaseEnds \/ ImportBulk \/ LinkGroups \/ FillBridges \/ RefreshLatest \/ Reseed \/ Record \/ DeriveCrash
    \/ \E s \in Sets : StampSet(s) \/ ImportCards(s) \/ LoadGroup(s) \/ Discover(s) \/ Expand(s)
Next == RefreshNext \/ DeriveNext

Spec == Init /\ [][Next]_vars

-----------------------------------------------------------------------------
(* The variables have their types.                                           *)
TypeOK ==
    /\ listed \subseteq Sets /\ traded \subseteq Sets /\ corpus \subseteq Sets
    /\ today \in 1..MaxDay \cup {1}
    /\ zone \in [Days -> Seq(Run)] /\ \A d \in Days : Len(zone[d]) <= runs
    /\ land = Idle \/ land \in [at: {"sets", "cards", "groups", "bulk"}, day: Days, todo: SUBSET Sets, run: Run]
    /\ cat \in Catalog
    /\ \/ job = Idle
       \/ /\ job \in [at: {Phases[i] : i \in DOMAIN Phases}, day: Days, run: Nat,
                      todo: SUBSET Sets, set: Sets \cup {None}, failed: BOOLEAN]
          /\ job.run \in DOMAIN zone[job.day]
    /\ runs \in 0..MaxRuns /\ derives \in 0..MaxDerives /\ crashes \in 0..MaxCrashes
    /\ last = None \/ last \in [day: Days, run: 1..MaxRuns, cat: Catalog]

(* A run that landed whole answers every request its derivation makes: the   *)
(* refresh landed the cards of every set the catalog lacked then, and the    *)
(* catalog never comes to lack another, however the two overlap and whatever *)
(* died half way.  A replay that misses is a coverage regression (exit 1).   *)
WholeReplays ==
    job.at = "tail" /\ ~Partial(Replayed) => job.todo \subseteq Replayed.landed

(* What raw_derivation says the catalog is made of is in the catalog: every  *)
(* group of the run has that date's prices and none older is served, also    *)
(* when its tail was short; and a whole run's sets are all imported.         *)
ProvenanceHolds ==
    \A d \in Days : cat.prov[d] # 0 =>
        LET run == zone[d][cat.prov[d]]
        IN  /\ ~run.cut
            /\ run.groups \subseteq cat.prices[d]
            /\ \A s \in run.groups : cat.latest[s] >= d
            /\ ~Partial(run) => \A s \in run.list : cat.row[s] = "stamped"

(* A set or card upstream has given is never turned back into a synthesized  *)
(* one, by a discovery, a bridge or a derivation of an older run.            *)
UpstreamStands ==
    [][\A s \in Sets : /\ cat.row[s] = "stamped" => cat'.row[s] = "stamped"
                       /\ cat.cards[s] = "real" => cat'.cards[s] = "real"]_vars

(* Deriving the same whole run again changes nothing but its provenance,     *)
(* with one exception: the sealed products of a group this run discovered    *)
(* were loaded before its set was made, and get it only the second time.     *)
Recorded == job.at = "record" /\ job'.at = "idle" /\ last' # None
Again == last # None /\ last.day = job.day /\ last.run = job.run /\ ~Partial(Replayed)
Caught(c) ==
    [c EXCEPT !.stock = [s \in Sets |-> IF s \in Replayed.groups THEN c.group[s] ELSE c.stock[s]]]
FixedPoint == [][Recorded /\ Again => cat' = Caught(last.cat)]_vars

(* The claim of derive.sh:188-189, and of partition.rs:46: what a short tail *)
(* left out, the next whole night brings.  After a derivation that exits 0   *)
(* every set its run lists has its cards.                                    *)
TailSupersedes ==
    [][Recorded /\ Exit = 0 => \A s \in Replayed.list : cat.cards[s] = "real"]_vars
=============================================================================
