--------------------------- MODULE NightlyProofs ----------------------------
(***************************************************************************)
(* What Nightly promises for any number of sets, dates, refreshes and      *)
(* derivations, however they overlap and wherever they end.                *)
(*                                                                         *)
(* That a whole run answers every request of its derivation rests on one   *)
(* observation: the refresh skipped the cards of a set only because the    *)
(* catalog had it, and the catalog never loses a set.  Every whole run     *)
(* therefore covers (Covers) whatever the catalog still lacks, from the    *)
(* moment its refresh read the catalog.                                    *)
(*                                                                         *)
(* That a second derivation of a whole run changes nothing more rests on   *)
(* what each phase leaves true of the catalog (Attained): at the end the   *)
(* catalog is Closed under every phase, and stays as it was recorded until *)
(* the next derivation (Settled).                                          *)
(***************************************************************************)
EXTENDS Nightly, WellFoundedInduction, TLAPS

Stamped == {s \in Sets : cat.row[s] = "stamped"}
Phase == {Phases[i] : i \in DOMAIN Phases}

-----------------------------------------------------------------------------
(* Operators. *)

\* The ten phases, in their order.
LEMMA PhaseOrder ==
  /\ Phase = {"bulk", "tail", "link", "load", "discover", "bridges",
              "expand", "latest", "seeds", "record"}
  /\ Phases[1] = "bulk"
  /\ PhaseAfter("bulk") = "tail" /\ PhaseAfter("tail") = "link"
  /\ PhaseAfter("link") = "load" /\ PhaseAfter("load") = "discover"
  /\ PhaseAfter("discover") = "bridges" /\ PhaseAfter("bridges") = "expand"
  /\ PhaseAfter("expand") = "latest" /\ PhaseAfter("latest") = "seeds"
  /\ PhaseAfter("seeds") = "record"
<1>1. DOMAIN Phases = 1..10
  BY DEF Phases
<1>2. /\ Phases[1] = "bulk" /\ Phases[2] = "tail" /\ Phases[3] = "link"
      /\ Phases[4] = "load" /\ Phases[5] = "discover" /\ Phases[6] = "bridges"
      /\ Phases[7] = "expand" /\ Phases[8] = "latest" /\ Phases[9] = "seeds"
      /\ Phases[10] = "record"
  BY DEF Phases
<1>3. \A n \in 1..10 : \/ n = 1 \/ n = 2 \/ n = 3 \/ n = 4 \/ n = 5
                       \/ n = 6 \/ n = 7 \/ n = 8 \/ n = 9 \/ n = 10
  OBVIOUS
<1>4. Phase = {"bulk", "tail", "link", "load", "discover", "bridges",
               "expand", "latest", "seeds", "record"}
  BY <1>1, <1>2, <1>3 DEF Phase
<1>5. ASSUME NEW n \in 1..9 PROVE PhaseAfter(Phases[n]) = Phases[n + 1]
  <2>1. \A i \in 1..10 : Phases[i] = Phases[n] => i = n
    BY <1>2, <1>3
  <2>2. (CHOOSE i \in DOMAIN Phases : Phases[i] = Phases[n]) = n
    BY <1>1, <2>1
  <2>3. PhaseAfter(Phases[n]) = Phases[1 + n]
    BY <2>2 DEF PhaseAfter
  <2> QED BY <2>3
<1> QED BY <1>2, <1>4, <1>5

\* A non-empty set of naturals with a bound has a greatest element.
LEMMA Greatest ==
  ASSUME NEW n \in Nat, NEW S \in SUBSET (0..n), S # {}
  PROVE  Max(S) \in S /\ \A x \in S : Max(S) >= x
<1> DEFINE T == {n - x : x \in S}
<1>1. T \in SUBSET Nat /\ T # {}
  <2>1. \A x \in S : n - x \in Nat
    OBVIOUS
  <2>2. PICK x \in S : TRUE
    OBVIOUS
  <2>3. n - x \in T
    OBVIOUS
  <2> QED BY <2>1, <2>3
<1> DEFINE R == {ss \in Nat \X Nat : ss[1] < ss[2]}
<1>2. PICK m \in T : \A k \in T : m <= k
  <2>1. IsWellFoundedOn(R, Nat)
    BY NatLessThanWellFounded DEF OpToRel
  <2>2. \E m \in T : \A k \in T : <<k, m>> \notin R
    <3> HIDE DEF T, R
    <3> QED BY <1>1, <2>1, WFMin
  <2>3. \A m, k \in Nat : <<k, m>> \notin R => m <= k
    OBVIOUS
  <2> HIDE DEF T, R
  <2> QED BY <1>1, <2>2, <2>3
<1>3. PICK x \in S : m = n - x
  BY <1>2
<1>4. \A y \in S : x >= y
  <2> SUFFICES ASSUME NEW y \in S PROVE x >= y
    OBVIOUS
  <2>1. n - y \in T
    OBVIOUS
  <2>2. m <= n - y
    BY <1>2, <2>1
  <2> QED BY <1>3, <2>2
<1> QED BY <1>4 DEF Max

\* The newest price is at least as new as any.
LEMMA NewestIsNewest ==
  ASSUME NEW c \in Catalog, NEW s \in Sets
  PROVE  /\ Newest(c, s) \in {0} \cup Days
         /\ \A d \in Days : s \in c.prices[d] => Newest(c, s) >= d
<1> DEFINE S == {0} \cup {d \in Days : s \in c.prices[d]}
<1>1. MaxDay \in Nat
  BY BoundsAreNat
<1>2. S \in SUBSET (0..MaxDay) /\ S # {}
  BY <1>1 DEF Days
<1> HIDE DEF S
<1>3. Max(S) \in S /\ \A x \in S : Max(S) >= x
  BY <1>1, <1>2, Greatest
<1> QED BY <1>3 DEF S, Newest

-----------------------------------------------------------------------------
(* The catalog. *)

JobRec == [at : Phase, day : Days, run : Nat, todo : SUBSET Sets,
           set : Sets \cup {None}, failed : BOOLEAN]

\* A derivation in progress replays a run of the zone.
LEMMA InProgress ==
  ASSUME TypeOK, job.at # "idle"
  PROVE  /\ job \in JobRec /\ job.run \in DOMAIN zone[job.day]
         /\ Replayed \in Run
<1>1. job # Idle
  BY DEF Idle
<1>2. job \in JobRec /\ job.run \in DOMAIN zone[job.day]
  BY <1>1 DEF TypeOK, JobRec, Phase
<1>3. zone[job.day] \in Seq(Run)
  BY <1>2 DEF TypeOK, JobRec
<1> QED BY <1>2, <1>3 DEF Replayed

\* What the upstreams gave stays; prices are only added.
Grows ==
  /\ \A s \in Sets : cat.row[s] = "stamped" => cat'.row[s] = "stamped"
  /\ \A s \in Sets : cat.cards[s] = "real" => cat'.cards[s] = "real"
  /\ \A d \in Days : cat.prices[d] \subseteq cat'.prices[d]

\* The actions of the derivation that write the catalog.
Writes ==
  \/ \E d \in Days : DeriveBegin(d)
  \/ ImportBulk \/ LinkGroups \/ FillBridges \/ RefreshLatest \/ Reseed \/ Record
  \/ \E s \in Sets : StampSet(s) \/ ImportCards(s) \/ LoadGroup(s) \/ Discover(s) \/ Expand(s)

\* Every other step leaves it alone.
LEMMA OthersDoNotWrite ==
  ASSUME [Next]_vars, ~Writes
  PROVE  cat' = cat
<1>1. CASE RefreshNext
  BY <1>1 DEF RefreshNext, LandBegin, LandSets, LandCards, LandTcgcsv, LandBulk, LandCut,
              Refresh, Finalize
<1>2. CASE PhaseEnds
  BY <1>2 DEF PhaseEnds, Done, Enter, Write
<1>3. CASE DeriveCrash
  BY <1>3 DEF DeriveCrash
<1>4. CASE UNCHANGED vars
  BY <1>4 DEF vars
<1> QED BY <1>1, <1>2, <1>3, <1>4 DEF Next, DeriveNext, Writes

\* Synthesized cards are cards, and never replace upstream's.
LEMMA StubsKeep ==
  ASSUME NEW c \in Catalog, NEW which
  PROVE  /\ Stubs(c, which) \in [Sets -> {"none", "stub", "real"}]
         /\ \A s \in Sets : c.cards[s] = "real" => Stubs(c, which)[s] = "real"
  BY DEF Catalog, Stubs

LEMMA CatalogStep ==
  ASSUME TypeOK, [Next]_vars
  PROVE  cat' \in Catalog /\ Grows
<1>1. cat \in Catalog
  BY DEF TypeOK
<1>2. CASE ~Writes
  BY <1>1, <1>2, OthersDoNotWrite DEF Grows
<1>3. ASSUME NEW d \in Days, DeriveBegin(d) PROVE cat' \in Catalog /\ Grows
  BY <1>1, <1>3 DEF DeriveBegin, Seeded, Catalog, Grows
<1>4. CASE ImportBulk
  BY <1>1, <1>4 DEF ImportBulk, Done, Enter, Write, Catalog, Grows
<1>5. CASE LinkGroups
  BY <1>1, <1>5 DEF LinkGroups, Done, Enter, Write, Catalog, Grows
<1>6. CASE FillBridges
  BY <1>1, <1>6, StubsKeep DEF FillBridges, Done, Enter, Write, Catalog, Grows
<1>7. CASE RefreshLatest
  <2>1. \A s \in Sets : Newest(cat, s) \in {0} \cup Days
    BY <1>1, NewestIsNewest
  <2> QED BY <1>1, <1>7, <2>1 DEF RefreshLatest, Done, Enter, Write, Catalog, Grows
<1>8. CASE Reseed
  BY <1>1, <1>8 DEF Reseed, Seeded, Done, Enter, Write, Catalog, Grows
<1>9. CASE Record
  <2>1. CASE Exit = 1
    BY <1>1, <1>9, <2>1 DEF Record, Grows
  <2>2. CASE Exit # 1
    <3>1. job \in JobRec /\ job.run \in DOMAIN zone[job.day]
      BY <1>9, InProgress DEF Record
    <3>2. job.run \in 0..MaxRuns /\ job.day \in Days
      <4>1. zone[job.day] \in Seq(Run) /\ Len(zone[job.day]) <= runs /\ runs \in 0..MaxRuns
        BY <3>1 DEF TypeOK, JobRec
      <4> QED BY <3>1, <4>1, BoundsAreNat DEF JobRec
    <3>3. cat' = [cat EXCEPT !.prov[job.day] = job.run]
      BY <1>9, <2>2 DEF Record
    <3> QED BY <1>1, <3>2, <3>3 DEF Catalog, Grows
  <2> QED BY <2>1, <2>2
<1>10. ASSUME NEW s \in Sets, StampSet(s) \/ ImportCards(s) \/ LoadGroup(s) \/ Discover(s) \/ Expand(s)
       PROVE cat' \in Catalog /\ Grows
  <2>1. CASE StampSet(s)
    BY <1>1, <2>1 DEF StampSet, Write, Catalog, Grows
  <2>2. CASE ImportCards(s)
    BY <1>1, <2>2 DEF ImportCards, Write, Catalog, Grows
  <2>3. CASE LoadGroup(s)
    <3>1. job.day \in Days
      BY <2>3, InProgress DEF LoadGroup, JobRec
    <3> DEFINE loaded == [cat EXCEPT !.stock[s] = cat.group[s], !.prices[job.day] = @ \cup {s}]
    <3>2. cat' = loaded
      BY <2>3 DEF LoadGroup, Step, Write
    <3>3. /\ loaded.cards = cat.cards /\ loaded.row = cat.row
          /\ \A d \in Days : cat.prices[d] \subseteq loaded.prices[d]
      BY <1>1, <3>1 DEF Catalog
    <3>4. loaded \in Catalog
      BY <1>1, <3>1 DEF Catalog
    <3> HIDE DEF loaded
    <3> QED BY <1>1, <3>2, <3>3, <3>4 DEF Grows
  <2>4. CASE Discover(s)
    <3> DEFINE stubs == Stubs(cat, {s})
               found == [cat EXCEPT !.row[s] = "local", !.group[s] = "linked", !.cards = stubs]
    <3>1. cat' = cat \/ (cat.row[s] # "stamped" /\ cat' = found)
      BY <2>4 DEF Discover, Step, Write
    <3>2. /\ stubs \in [Sets -> {"none", "stub", "real"}]
          /\ \A t \in Sets : cat.cards[t] = "real" => stubs[t] = "real"
      BY <1>1, StubsKeep
    <3> HIDE DEF stubs
    <3> DEFINE rows == [cat.row EXCEPT ![s] = "local"]
               groups == [cat.group EXCEPT ![s] = "linked"]
    <3>3. /\ rows \in [Sets -> {"none", "local", "stamped"}]
          /\ \A t \in Sets \ {s} : rows[t] = cat.row[t]
      BY <1>1 DEF Catalog
    <3>4. groups \in [Sets -> {"none", "loose", "linked"}]
      BY <1>1 DEF Catalog
    <3>5. found = [cat EXCEPT !.row = rows, !.group = groups, !.cards = stubs]
      BY <1>1 DEF Catalog
    <3> HIDE DEF found, rows, groups
    <3>6. found \in Catalog
      BY <1>1, <3>2, <3>3, <3>4, <3>5 DEF Catalog
    <3>7. found.prices = cat.prices /\ found.cards = stubs /\ found.row = rows
      BY <1>1, <3>5 DEF Catalog
    <3> QED BY <1>1, <3>1, <3>2, <3>3, <3>6, <3>7 DEF Grows
  <2>5. CASE Expand(s)
    BY <1>1, <2>5 DEF Expand, Step, Write, Catalog, Grows
  <2> QED BY <1>10, <2>1, <2>2, <2>3, <2>4, <2>5
<1> QED BY <1>2, <1>3, <1>4, <1>5, <1>6, <1>7, <1>8, <1>9, <1>10 DEF Writes

-----------------------------------------------------------------------------
(* Types. *)

LandRec == [at : {"sets", "cards", "groups", "bulk"}, day : Days, todo : SUBSET Sets, run : Run]

\* A refresh in progress is one of the runs counted.
TypeInv == TypeOK /\ (land # Idle => \A d \in Days : Len(zone[d]) < runs)

LEMMA LandInProgress ==
  ASSUME TypeOK, land.at # "idle"
  PROVE  land \in LandRec /\ land # Idle
<1>1. land # Idle
  BY DEF Idle
<1> QED BY <1>1 DEF TypeOK, LandRec

\* One more run of a date.
LEMMA RunLanded ==
  ASSUME TypeInv, land.at # "idle", NEW run \in Run, Finalize(run)
  PROVE  /\ zone' \in [Days -> Seq(Run)] /\ \A d \in Days : Len(zone'[d]) <= runs
         /\ \A d \in Days : \A n \in DOMAIN zone[d] : n \in DOMAIN zone'[d] /\ zone'[d][n] = zone[d][n]
         /\ \A d \in Days : \A n \in DOMAIN zone'[d] \ DOMAIN zone[d] : zone'[d][n] = run
<1>1. land \in LandRec /\ \A d \in Days : Len(zone[d]) < runs
  BY LandInProgress DEF TypeInv
<1>2. zone' = [zone EXCEPT ![land.day] = Append(zone[land.day], run)]
  BY DEF Finalize
<1>3. zone \in [Days -> Seq(Run)] /\ land.day \in Days /\ runs \in Nat
  BY <1>1, BoundsAreNat DEF TypeInv, TypeOK, LandRec
<1>4. ASSUME NEW d \in Days
      PROVE  /\ zone'[d] \in Seq(Run) /\ Len(zone'[d]) <= runs
             /\ \A n \in DOMAIN zone[d] : n \in DOMAIN zone'[d] /\ zone'[d][n] = zone[d][n]
             /\ \A n \in DOMAIN zone'[d] \ DOMAIN zone[d] : zone'[d][n] = run
  <2>1. CASE d # land.day
    BY <1>1, <1>2, <1>3, <2>1
  <2>2. CASE d = land.day
    <3> DEFINE z == zone[d]
    <3>1. z \in Seq(Run) /\ zone'[d] = Append(z, run) /\ Len(z) < runs
      BY <1>1, <1>2, <1>3, <2>2
    <3> HIDE DEF z
    <3>2. /\ Append(z, run) \in Seq(Run) /\ Len(Append(z, run)) = Len(z) + 1
          /\ \A n \in 1..Len(z) : Append(z, run)[n] = z[n]
          /\ Append(z, run)[Len(z) + 1] = run
          /\ DOMAIN z = 1..Len(z) /\ DOMAIN Append(z, run) = 1..(Len(z) + 1) /\ Len(z) \in Nat
      BY <3>1
    <3> QED BY <1>3, <3>1, <3>2 DEF z
  <2> QED BY <2>1, <2>2
<1>5. zone' \in [Days -> Seq(Run)]
  BY <1>2, <1>3, <1>4
<1> QED BY <1>4, <1>5

\* Entering the next phase.
LEMMA Entered ==
  ASSUME TypeOK, job.at \in Phase \ {"record"}, NEW c \in Catalog, Done(c)
  PROVE  /\ job' \in JobRec
         /\ job'.at = PhaseAfter(job.at) /\ job'.day = job.day /\ job'.run = job.run
         /\ job'.set = job.set /\ job'.todo = Work(job'.at, c)
         /\ job'.failed = (job.failed \/ (job'.at = "tail" /\ Replayed.sets = "short"))
         /\ cat' = c /\ UNCHANGED <<upstream, today, zone, land, bounds, last>>
<1> DEFINE p == PhaseAfter(job.at)
<1>1. job \in JobRec /\ Replayed \in Run
  BY InProgress, PhaseOrder
<1>2. p \in Phase
  BY PhaseOrder
<1>3. Work(p, c) \in SUBSET Sets
  BY <1>1 DEF Work, Run, Missing
<1>4. /\ job' = [job EXCEPT !.at = p, !.todo = Work(p, c),
                            !.failed = job.failed \/ (p = "tail" /\ Replayed.sets = "short")]
      /\ cat' = c /\ UNCHANGED <<upstream, today, zone, land, bounds, last>>
  BY DEF Done, Enter, Write
<1> HIDE DEF p
<1> QED BY <1>1, <1>2, <1>3, <1>4 DEF JobRec, p

\* What the choice gives is a run of the date that was not cut short.
LEMMA ChosenIsARun ==
  ASSUME NEW z \in Seq(Run), NEW n \in Chosen(z)
  PROVE  n \in DOMAIN z /\ ~z[n].cut
<1>1. n \in DOMAIN z /\ n \in Pick(z, "prices")
  BY DEF Chosen, Needed, Datasets
<1> DEFINE whole == {m \in DOMAIN z : Landed(z[m], "prices") /\ Complete(z[m], "prices")}
<1>2. Pick(z, "prices") = IF whole # {} THEN {Max(whole)} ELSE {}
  BY DEF Pick, TailSets
<1>3. whole \in SUBSET (0..Len(z)) /\ Len(z) \in Nat
  OBVIOUS
<1> HIDE DEF whole
<1>4. n \in whole
  BY <1>1, <1>2, <1>3, Greatest
<1> QED BY <1>1, <1>4 DEF whole, Complete

\* How a step moves the derivation: it stays in its phase, or enters another.
LEMMA JobStep ==
  ASSUME TypeInv, [Next]_vars
  PROVE  /\ job' = Idle \/ (job' \in JobRec /\ job'.run \in DOMAIN zone'[job'.day])
         /\ \A d \in Days : \A n \in DOMAIN zone[d] : n \in DOMAIN zone'[d] /\ zone'[d][n] = zone[d][n]
<1> USE DEF TypeInv
<1>0. /\ zone \in [Days -> Seq(Run)] /\ cat \in Catalog
      /\ job = Idle \/ (job \in JobRec /\ job.run \in DOMAIN zone[job.day])
  <2>1. CASE job = Idle
    BY <2>1 DEF TypeOK
  <2>2. CASE job # Idle
    BY <2>2 DEF TypeOK, JobRec, Phase
  <2> QED BY <2>1, <2>2 DEF TypeOK
<1>1. CASE RefreshNext
  <2>1. job' = job
    BY <1>1 DEF RefreshNext, LandBegin, LandSets, LandCards, LandTcgcsv, LandBulk, LandCut,
                Refresh, Finalize
  <2>2. \A d \in Days : \A n \in DOMAIN zone[d] : n \in DOMAIN zone'[d] /\ zone'[d][n] = zone[d][n]
    <3>1. CASE LandBulk \/ LandCut
      <4>1. PICK run : Finalize(run) /\ run \in Run /\ land.at # "idle"
        <5>1. CASE LandBulk
          <6>1. land \in LandRec
            BY <5>1, LandInProgress DEF LandBulk
          <6>2. [land.run EXCEPT !.bulk = corpus'] \in Run
            BY <5>1, <6>1 DEF LandBulk, LandRec, Run, Grown
          <6> QED BY <5>1, <6>2 DEF LandBulk
        <5>2. CASE LandCut
          <6>1. land \in LandRec
            BY <5>2, LandInProgress DEF LandCut
          <6>2. [EmptyRun EXCEPT !.cards = land.run.cards, !.cut = TRUE] \in Run
            BY <6>1 DEF LandRec, Run, EmptyRun
          <6> QED BY <5>2, <6>2 DEF LandCut
        <5> QED BY <3>1, <5>1, <5>2
      <4> QED BY <4>1, RunLanded
    <3>2. CASE ~(LandBulk \/ LandCut)
      BY <1>0, <1>1, <3>2 DEF RefreshNext, LandBegin, LandSets, LandCards, LandTcgcsv, Refresh
    <3> QED BY <3>1, <3>2
  <2>3. CASE job = Idle
    BY <2>1, <2>2, <2>3
  <2>4. CASE job # Idle
    BY <1>0, <2>1, <2>2, <2>4 DEF JobRec
  <2> QED BY <2>2, <2>3, <2>4
<1>2. ASSUME NEW d \in Days, DeriveBegin(d)
      PROVE job' \in JobRec /\ job'.run \in DOMAIN zone[job'.day] /\ zone' = zone
  <2>1. PICK n \in Chosen(zone[d]) :
          job' = [at |-> Phases[1], day |-> d, run |-> n, todo |-> {}, set |-> None, failed |-> FALSE]
    BY <1>2 DEF DeriveBegin
  <2>2. n \in DOMAIN zone[d] /\ zone[d] \in Seq(Run)
    BY <1>0, <2>1, ChosenIsARun
  <2>3. n \in Nat /\ Phases[1] \in Phase
    BY <2>2, PhaseOrder
  <2> QED BY <1>2, <2>1, <2>2, <2>3 DEF DeriveBegin, JobRec
<1>3. ASSUME NEW s \in Sets, StampSet(s) \/ ImportCards(s) \/ LoadGroup(s) \/ Discover(s) \/ Expand(s)
      PROVE job' \in JobRec /\ job'.day = job.day /\ job'.run = job.run /\ zone' = zone /\ job # Idle
  <2>1. job.at # "idle"
    BY <1>3 DEF StampSet, ImportCards, LoadGroup, Discover, Expand
  <2>2. job \in JobRec /\ job # Idle
    BY <2>1, InProgress DEF Idle
  <2>3. CASE StampSet(s)
    BY <2>2, <2>3 DEF StampSet, Write, JobRec
  <2>4. CASE ImportCards(s)
    <3>1. /\ \/ job' = [job EXCEPT !.todo = job.todo \ {s}, !.set = None]
             \/ job' = [job EXCEPT !.todo = {}, !.set = None, !.failed = TRUE]
          /\ zone' = zone
      BY <2>4 DEF ImportCards, Write
    <3> QED BY <2>2, <3>1 DEF JobRec
  <2>5. CASE ~(StampSet(s) \/ ImportCards(s))
    BY <1>3, <2>2, <2>5 DEF LoadGroup, Discover, Expand, Step, Write, JobRec
  <2> QED BY <2>2, <2>3, <2>4, <2>5
<1>4. ASSUME PhaseEnds \/ ImportBulk \/ LinkGroups \/ FillBridges \/ RefreshLatest \/ Reseed
      PROVE job' \in JobRec /\ job'.day = job.day /\ job'.run = job.run /\ zone' = zone /\ job # Idle
  <2>1. job.at \in Phase \ {"record"} /\ Done(cat')
    BY <1>4, PhaseOrder DEF PhaseEnds, ImportBulk, LinkGroups, FillBridges, RefreshLatest, Reseed,
                            Done, Enter, Write
  <2>2. cat' \in Catalog
    BY CatalogStep
  <2>3. job # Idle
    BY <2>1, PhaseOrder DEF Idle
  <2> QED BY <2>1, <2>2, <2>3, Entered
<1>5. CASE Record \/ DeriveCrash
  BY <1>0, <1>5 DEF Record, DeriveCrash
<1>6. CASE UNCHANGED vars
  BY <1>0, <1>6 DEF vars
<1>7. ASSUME job' \in JobRec, job'.day = job.day, job'.run = job.run, zone' = zone, job # Idle
      PROVE job'.run \in DOMAIN zone'[job'.day]
  BY <1>0, <1>7
<1> QED BY <1>0, <1>1, <1>2, <1>3, <1>4, <1>5, <1>6, <1>7 DEF Next, DeriveNext

\* The refresh keeps the types of what it gathers.
LEMMA LandStep ==
  ASSUME TypeInv, [Next]_vars
  PROVE  /\ land' = Idle \/ land' \in LandRec
         /\ zone' \in [Days -> Seq(Run)] /\ \A d \in Days : Len(zone'[d]) <= runs'
         /\ land' # Idle => \A d \in Days : Len(zone'[d]) < runs'
         /\ listed' \subseteq Sets /\ traded' \subseteq Sets /\ corpus' \subseteq Sets
         /\ today' \in 1..MaxDay \cup {1} /\ runs' \in 0..MaxRuns
<1> USE DEF TypeInv
<1>0. /\ land = Idle \/ land \in LandRec
      /\ zone \in [Days -> Seq(Run)] /\ \A d \in Days : Len(zone[d]) <= runs
      /\ listed \subseteq Sets /\ traded \subseteq Sets /\ corpus \subseteq Sets
      /\ today \in 1..MaxDay \cup {1} /\ runs \in 0..MaxRuns /\ MaxRuns \in Nat
  BY BoundsAreNat DEF TypeOK, LandRec
<1>1. ASSUME NEW d \in Days, LandBegin(d)
      PROVE /\ land' \in LandRec /\ zone' = zone /\ runs' = runs + 1 /\ runs' \in 0..MaxRuns
            /\ today' \in 1..MaxDay /\ UNCHANGED upstream
  BY <1>0, <1>1 DEF LandBegin, LandRec, EmptyRun, Run, Days
<1>2. CASE LandSets
  <2>1. land \in LandRec /\ land # Idle
    BY <1>2, LandInProgress DEF LandSets
  <2>2. listed' \subseteq Sets
    BY <1>0, <1>2 DEF LandSets, Grown
  <2>3. \/ land' = [land EXCEPT !.at = "cards", !.todo = Missing(cat, listed'),
                                !.run.sets = "whole", !.run.list = listed']
        \/ land' = [land EXCEPT !.at = "cards"]
    BY <1>2 DEF LandSets, Refresh
  <2>4. Missing(cat, listed') \in SUBSET Sets
    BY <2>2 DEF Missing
  <2>5. land' \in LandRec
    <3> DEFINE r == [land.run EXCEPT !.sets = "whole", !.list = listed']
    <3>1. r \in Run
      BY <2>1, <2>2 DEF LandRec, Run
    <3>2. \/ land' = [land EXCEPT !.at = "cards", !.todo = Missing(cat, listed'), !.run = r]
          \/ land' = [land EXCEPT !.at = "cards"]
      BY <2>1, <2>3 DEF LandRec
    <3> HIDE DEF r
    <3> QED BY <2>1, <2>4, <3>1, <3>2 DEF LandRec
  <2> QED BY <1>0, <1>2, <2>1, <2>2, <2>5 DEF LandSets, Refresh, bounds
<1>3. CASE LandCards
  <2>1. land \in LandRec /\ land # Idle
    BY <1>3, LandInProgress DEF LandCards
  <2>2. PICK got \in SUBSET land.todo :
          land' = [land EXCEPT !.at = "groups", !.todo = {}, !.run = WithCards(land.run, land.todo, got)]
    BY <1>3 DEF LandCards, Refresh
  <2>3. WithCards(land.run, land.todo, got) \in Run
    BY <2>1 DEF WithCards, LandRec, Run
  <2>4. land' \in LandRec
    BY <2>1, <2>2, <2>3 DEF LandRec
  <2> QED BY <1>0, <1>3, <2>1, <2>4 DEF LandCards, Refresh, bounds, upstream
<1>4. CASE LandTcgcsv
  <2>1. land \in LandRec /\ land # Idle
    BY <1>4, LandInProgress DEF LandTcgcsv
  <2>2. land' \in LandRec /\ traded' \subseteq Sets
    BY <1>0, <1>4, <2>1 DEF LandTcgcsv, Refresh, LandRec, Run, Grown
  <2> QED BY <1>0, <1>4, <2>1, <2>2 DEF LandTcgcsv, Refresh, bounds
<1>5. CASE LandBulk
  <2>1. land \in LandRec /\ corpus' \subseteq Sets
    BY <1>0, <1>5, LandInProgress DEF LandBulk, Grown
  <2>2. [land.run EXCEPT !.bulk = corpus'] \in Run
    BY <2>1 DEF LandRec, Run
  <2> QED BY <1>0, <1>5, <2>1, <2>2, RunLanded DEF LandBulk, Finalize, bounds
<1>6. CASE LandCut
  <2>1. land \in LandRec
    BY <1>6, LandInProgress DEF LandCut
  <2>2. [EmptyRun EXCEPT !.cards = land.run.cards, !.cut = TRUE] \in Run
    BY <2>1 DEF LandRec, Run, EmptyRun
  <2> QED BY <1>0, <1>6, <2>2, RunLanded DEF LandCut, Finalize, bounds
<1>7. CASE DeriveNext
  <2>1. ASSUME NEW d \in Days, DeriveBegin(d)
        PROVE  UNCHANGED <<listed, traded, corpus, today, zone, land, runs>>
    BY <2>1 DEF DeriveBegin, upstream
  <2>2. ASSUME PhaseEnds \/ ImportBulk \/ LinkGroups \/ FillBridges
        PROVE  UNCHANGED <<listed, traded, corpus, today, zone, land, runs>>
    BY <2>2 DEF PhaseEnds, ImportBulk, LinkGroups, FillBridges, Done, Enter, Write, upstream, bounds
  <2>3. ASSUME RefreshLatest \/ Reseed \/ Record \/ DeriveCrash
        PROVE  UNCHANGED <<listed, traded, corpus, today, zone, land, runs>>
    BY <2>3 DEF RefreshLatest, Reseed, Record, DeriveCrash, Done, Enter, Write, upstream, bounds
  <2>4. ASSUME NEW s \in Sets, StampSet(s) \/ ImportCards(s) \/ LoadGroup(s)
        PROVE  UNCHANGED <<listed, traded, corpus, today, zone, land, runs>>
    BY <2>4 DEF StampSet, ImportCards, LoadGroup, Step, Write, upstream, bounds
  <2>5. ASSUME NEW s \in Sets, Discover(s) \/ Expand(s)
        PROVE  UNCHANGED <<listed, traded, corpus, today, zone, land, runs>>
    BY <2>5 DEF Discover, Expand, Step, Write, upstream, bounds
  <2>6. UNCHANGED <<listed, traded, corpus, today, zone, land, runs>>
    BY <1>7, <2>1, <2>2, <2>3, <2>4, <2>5 DEF DeriveNext
  <2>7. /\ listed' = listed /\ traded' = traded /\ corpus' = corpus /\ today' = today
        /\ zone' = zone /\ land' = land /\ runs' = runs
    BY <2>6
  <2> QED BY ONLY <1>0, <2>7, TypeInv, BoundsAreNat
<1>8. CASE UNCHANGED vars
  BY <1>0, <1>8 DEF vars, upstream, bounds
<1> QED BY <1>0, <1>1, <1>2, <1>3, <1>4, <1>5, <1>6, <1>7, <1>8 DEF Next, RefreshNext, upstream

\* The invariant of the types, step by step.
LEMMA TypeStep ==
  ASSUME TypeInv, [Next]_vars
  PROVE  TypeInv'
<1>1. cat' \in Catalog
  BY CatalogStep DEF TypeInv
<1>2. /\ derives' \in 0..MaxDerives /\ crashes' \in 0..MaxCrashes
  <2>1. derives \in 0..MaxDerives /\ crashes \in 0..MaxCrashes /\ {MaxDerives, MaxCrashes} \subseteq Nat
    BY BoundsAreNat DEF TypeInv, TypeOK
  <2>2. CASE RefreshNext
    BY <2>1, <2>2 DEF RefreshNext, LandBegin, LandSets, LandCards, LandTcgcsv, LandBulk, LandCut,
                      Refresh, Finalize, bounds
  <2>3. CASE DeriveNext
    <3>1. ASSUME NEW d \in Days, DeriveBegin(d) PROVE derives' \in 0..MaxDerives /\ crashes' = crashes
      BY <2>1, <3>1 DEF DeriveBegin
    <3>2. CASE DeriveCrash
      BY <2>1, <3>2 DEF DeriveCrash
    <3>3. CASE ~DeriveCrash /\ ~\E d \in Days : DeriveBegin(d)
      <4>1. UNCHANGED bounds
        BY <2>3, <3>3 DEF DeriveNext, PhaseEnds, ImportBulk, LinkGroups, FillBridges,
           RefreshLatest, Reseed, Record, StampSet, ImportCards, LoadGroup, Discover,
           Expand, Done, Enter, Step, Write
      <4> QED BY <2>1, <4>1 DEF bounds
    <3> QED BY <2>1, <3>1, <3>2, <3>3
  <2>4. CASE UNCHANGED vars
    BY <2>1, <2>4 DEF vars, bounds
  <2> QED BY <2>2, <2>3, <2>4 DEF Next
<1>3. last' = None \/ last' \in [day: Days, run: 1..MaxRuns, cat: Catalog]
  <2>0. last = None \/ last \in [day: Days, run: 1..MaxRuns, cat: Catalog]
    BY DEF TypeInv, TypeOK
  <2>1. CASE Record
    <3>1. job \in JobRec /\ job.run \in DOMAIN zone[job.day]
      BY <2>1, InProgress DEF Record, TypeInv
    <3>2. job.run \in 1..MaxRuns /\ job.day \in Days
      <4>1. zone[job.day] \in Seq(Run) /\ Len(zone[job.day]) <= runs /\ runs \in 0..MaxRuns
        BY <3>1 DEF TypeInv, TypeOK, JobRec
      <4> QED BY <3>1, <4>1, BoundsAreNat DEF JobRec
    <3> QED BY <1>1, <2>1, <3>2 DEF Record
  <2>2. ASSUME NEW d \in Days, DeriveBegin(d) PROVE last' = None \/ last' = last
    BY <2>2 DEF DeriveBegin
  <2>3. CASE RefreshNext
    BY <2>0, <2>3 DEF RefreshNext, LandBegin, LandSets, LandCards, LandTcgcsv, LandBulk, LandCut,
                      Refresh, Finalize
  <2>4. CASE DeriveNext /\ ~Record /\ ~\E d \in Days : DeriveBegin(d)
    BY <2>0, <2>4 DEF DeriveNext, PhaseEnds, ImportBulk, LinkGroups, FillBridges,
         RefreshLatest, Reseed, DeriveCrash, StampSet, ImportCards, LoadGroup, Discover,
         Expand, Done, Enter, Step, Write
  <2>5. CASE UNCHANGED vars
    BY <2>0, <2>5 DEF vars
  <2> QED BY <2>0, <2>1, <2>2, <2>3, <2>4, <2>5 DEF Next
<1> QED BY <1>1, <1>2, <1>3, JobStep, LandStep DEF TypeInv, TypeOK, JobRec, LandRec, Phase

LEMMA TypeInit == Init => TypeInv
<1> SUFFICES ASSUME Init PROVE TypeInv
  OBVIOUS
<1>1. cat \in Catalog
  BY BoundsAreNat DEF Init, Catalog
<1>2. zone \in [Days -> Seq(Run)] /\ \A d \in Days : Len(zone[d]) = 0
  BY DEF Init
<1> QED BY <1>1, <1>2, BoundsAreNat DEF Init, TypeInv, TypeOK, Idle

\* The variables have their types, however the two processes overlap.
THEOREM TypeCorrect == Spec => []TypeOK
<1>1. TypeInv => TypeOK
  BY DEF TypeInv
<1> QED BY TypeInit, TypeStep, <1>1, PTL DEF Spec

\* A set or a card upstream has given is never synthesized again.
THEOREM UpstreamWins == Spec => UpstreamStands
<1>1. TypeOK /\ [Next]_vars =>
        [\A s \in Sets : /\ cat.row[s] = "stamped" => cat'.row[s] = "stamped"
                         /\ cat.cards[s] = "real" => cat'.cards[s] = "real"]_vars
  BY CatalogStep DEF Grows
<1> QED BY TypeCorrect, <1>1, PTL DEF Spec, UpstreamStands

-----------------------------------------------------------------------------
(* A whole run answers every request. *)

\* A run that is not partial has the cards of every set the catalog lacks.
Covers(run) == ~Partial(run) => run.list \ run.landed \subseteq Stamped

Covering ==
  /\ \A d \in Days : \A n \in DOMAIN zone[d] : Covers(zone[d][n])
  /\ land.at = "sets" => land.run.sets = "short"
  /\ land.at = "cards" /\ land.run.sets = "whole" => land.run.list \ land.todo \subseteq Stamped
  /\ land.at \in {"groups", "bulk"} => Covers(land.run)

CoverInv == TypeInv /\ Covering /\ WholeReplays

\* What is covered stays covered, as the catalog only gains sets.
LEMMA CoversStays ==
  ASSUME TypeInv, [Next]_vars
  PROVE  Stamped \subseteq Stamped' /\ \A run : Covers(run) => Covers(run)'
  BY CatalogStep DEF TypeInv, Grows, Stamped, Covers

LEMMA CoveringStep ==
  ASSUME TypeInv, Covering, [Next]_vars
  PROVE  Covering'
<1>1. /\ Stamped \subseteq Stamped' /\ \A run : Covers(run) => Covers(run)'
  BY CoversStays
<1>2. CASE zone' = zone /\ land' = land
  BY <1>1, <1>2 DEF Covering
<1>3. ASSUME NEW d \in Days, LandBegin(d) PROVE Covering'
  BY <1>1, <1>3 DEF LandBegin, Covering, EmptyRun
<1>4. CASE LandSets
  <2>1. land \in LandRec
    BY <1>4, LandInProgress DEF LandSets, TypeInv
  <2>2. CASE land' = [land EXCEPT !.at = "cards"]
    BY <1>1, <1>4, <2>1, <2>2 DEF LandSets, Refresh, Covering, LandRec
  <2>3. CASE land' = [land EXCEPT !.at = "cards", !.todo = Missing(cat, listed'),
                                 !.run.sets = "whole", !.run.list = listed']
    <3>1. land'.at = "cards" /\ land'.todo = Missing(cat, listed') /\ land'.run.list = listed'
      BY <2>1, <2>3 DEF LandRec, Run
    <3>2. listed' \ Missing(cat, listed') \subseteq Stamped
      BY LandStep DEF Missing, Stamped
    <3> QED BY <1>1, <1>4, <3>1, <3>2 DEF LandSets, Refresh, Covering
  <2> QED BY <1>4, <2>2, <2>3 DEF LandSets, Refresh
<1>5. CASE LandCards
  <2>1. land \in LandRec
    BY <1>5, LandInProgress DEF LandCards, TypeInv
  <2>2. PICK got \in SUBSET land.todo :
          land' = [land EXCEPT !.at = "groups", !.todo = {}, !.run = WithCards(land.run, land.todo, got)]
    BY <1>5 DEF LandCards, Refresh
  <2>3. Covers(WithCards(land.run, land.todo, got))
    BY <1>5, <2>1 DEF WithCards, Covers, Partial, Covering, LandRec, Run, LandCards
  <2>4. land'.at = "groups" /\ land'.run = WithCards(land.run, land.todo, got)
    BY <2>1, <2>2 DEF LandRec
  <2> QED BY <1>1, <1>5, <2>3, <2>4 DEF LandCards, Refresh, Covering
<1>6. CASE LandTcgcsv
  <2>1. land \in LandRec
    BY <1>6, LandInProgress DEF LandTcgcsv, TypeInv
  <2>2. /\ land'.at = "bulk" /\ zone' = zone
        /\ \A f \in {"sets", "list", "cards", "landed"} : land'.run[f] = land.run[f]
    BY <1>6, <2>1 DEF LandTcgcsv, Refresh, LandRec, Run
  <2>3. Covers(land.run) => Covers(land'.run)
    BY <2>2 DEF Covers, Partial
  <2> QED BY <1>1, <1>6, <2>2, <2>3 DEF Covering, LandTcgcsv
<1>7. ASSUME NEW run \in Run, Finalize(run), Covers(run), land.at # "idle" PROVE Covering'
  <2>1. /\ \A d \in Days : \A n \in DOMAIN zone[d] : zone'[d][n] = zone[d][n]
        /\ \A d \in Days : \A n \in DOMAIN zone'[d] \ DOMAIN zone[d] : zone'[d][n] = run
    BY <1>7, RunLanded
  <2>2. \A d \in Days : \A n \in DOMAIN zone'[d] : Covers(zone'[d][n])
    BY <1>7, <2>1 DEF Covering
  <2>3. land'.at = "idle"
    BY <1>7 DEF Finalize, Idle
  <2> QED BY <1>1, <2>2, <2>3 DEF Covering
<1>8. CASE LandBulk
  <2>1. land \in LandRec /\ corpus' \subseteq Sets
    BY <1>8, LandInProgress, LandStep DEF LandBulk, TypeInv
  <2> DEFINE run == [land.run EXCEPT !.bulk = corpus']
  <2>2. run \in Run /\ \A f \in {"sets", "list", "cards", "landed"} : run[f] = land.run[f]
    BY <2>1 DEF LandRec, Run
  <2>3. Covers(run)
    BY <1>8, <2>2 DEF Covers, Partial, Covering, LandBulk
  <2> QED BY <1>7, <1>8, <2>2, <2>3 DEF LandBulk
<1>9. CASE LandCut
  <2>1. land \in LandRec
    BY <1>9, LandInProgress DEF LandCut, TypeInv
  <2> DEFINE run == [EmptyRun EXCEPT !.cards = land.run.cards, !.cut = TRUE]
  <2>2. run \in Run /\ Partial(run)
    BY <2>1 DEF LandRec, Run, EmptyRun, Partial
  <2>3. Covers(run)
    BY <2>2 DEF Covers
  <2> QED BY <1>7, <1>9, <2>2, <2>3 DEF LandCut
<1>10. CASE DeriveNext
  <2>1. zone' = zone /\ land' = land
    BY <1>10 DEF DeriveNext, DeriveBegin, PhaseEnds, ImportBulk, LinkGroups, FillBridges,
       RefreshLatest, Reseed, Record, DeriveCrash, StampSet, ImportCards, LoadGroup, Discover,
       Expand, Done, Enter, Step, Write
  <2> QED BY <1>2, <2>1
<1>11. CASE UNCHANGED vars
  BY <1>2, <1>11 DEF vars
<1> QED BY <1>3, <1>4, <1>5, <1>6, <1>8, <1>9, <1>10, <1>11 DEF Next, RefreshNext

\* A derivation goes on replaying the run it began with.
LEMMA SameRun ==
  ASSUME TypeInv, [Next]_vars, job.at # "idle", job'.day = job.day, job'.run = job.run
  PROVE  Replayed' = Replayed
  BY InProgress, JobStep DEF TypeInv, Replayed, JobRec

\* The steps that leave both the derivation and the catalog alone.
LEMMA RefreshIsApart ==
  ASSUME RefreshNext \/ UNCHANGED vars
  PROVE  job' = job /\ cat' = cat
  BY DEF RefreshNext, LandBegin, LandSets, LandCards, LandTcgcsv, LandBulk, LandCut, Refresh,
         Finalize, vars

\* The actions that end a phase.
Ends == PhaseEnds \/ ImportBulk \/ LinkGroups \/ FillBridges \/ RefreshLatest \/ Reseed

LEMMA PhaseDone ==
  ASSUME TypeInv, [Next]_vars, Ends
  PROVE  /\ job.at \in Phase \ {"record"} /\ job.at # "idle" /\ Done(cat')
         /\ job' \in JobRec /\ job'.at = PhaseAfter(job.at) /\ job'.day = job.day /\ job'.run = job.run
         /\ job'.set = job.set /\ job'.todo = Work(job'.at, cat')
         /\ job'.failed = (job.failed \/ (job'.at = "tail" /\ Replayed.sets = "short"))
         /\ cat' \in Catalog /\ zone' = zone /\ Replayed' = Replayed
<1>1. job.at \in Phase \ {"record"} /\ Done(cat')
  BY PhaseOrder DEF Ends, PhaseEnds, ImportBulk, LinkGroups, FillBridges, RefreshLatest, Reseed,
                    Done, Enter, Write
<1>2. cat' \in Catalog /\ job.at # "idle"
  BY <1>1, CatalogStep, PhaseOrder DEF TypeInv
<1> HIDE DEF Ends
<1>3. /\ job' \in JobRec /\ job'.at = PhaseAfter(job.at) /\ job'.day = job.day /\ job'.run = job.run
      /\ job'.set = job.set /\ job'.todo = Work(job'.at, cat')
      /\ job'.failed = (job.failed \/ (job'.at = "tail" /\ Replayed.sets = "short"))
      /\ zone' = zone
  BY <1>1, <1>2, Entered DEF TypeInv
<1> QED BY <1>1, <1>2, <1>3, SameRun

\* The actions that go on in a phase.
Goes == \E s \in Sets : StampSet(s) \/ ImportCards(s) \/ LoadGroup(s) \/ Discover(s) \/ Expand(s)

LEMMA PhaseGoesOn ==
  ASSUME TypeInv, [Next]_vars, Goes
  PROVE  /\ job \in JobRec /\ job.at \in {"tail", "load", "discover", "expand"}
         /\ job'.at = job.at /\ job'.day = job.day /\ job'.run = job.run
         /\ job'.todo \subseteq job.todo /\ zone' = zone /\ Replayed' = Replayed
<1>1. PICK s \in Sets : StampSet(s) \/ ImportCards(s) \/ LoadGroup(s) \/ Discover(s) \/ Expand(s)
  BY DEF Goes
<1>2. job.at \in {"tail", "load", "discover", "expand"}
  BY <1>1 DEF StampSet, ImportCards, LoadGroup, Discover, Expand
<1>3. job \in JobRec
  BY <1>2, InProgress DEF TypeInv
<1>4. /\ \/ job' = [job EXCEPT !.set = s]
         \/ job' = [job EXCEPT !.todo = job.todo \ {s}, !.set = None]
         \/ job' = [job EXCEPT !.todo = {}, !.set = None, !.failed = TRUE]
         \/ job' = [job EXCEPT !.todo = job.todo \ {s}]
      /\ zone' = zone
  BY <1>1 DEF StampSet, ImportCards, LoadGroup, Discover, Expand, Step, Write
<1>5. job'.at = job.at /\ job'.day = job.day /\ job'.run = job.run /\ job'.todo \subseteq job.todo
  BY <1>3, <1>4 DEF JobRec
<1> QED BY <1>2, <1>3, <1>4, <1>5, SameRun

LEMMA ReplaysStep ==
  ASSUME CoverInv, [Next]_vars
  PROVE  WholeReplays'
<1> USE DEF CoverInv
<1>1. CASE RefreshNext \/ UNCHANGED vars
  <2>1. job' = job
    BY <1>1, RefreshIsApart
  <2> QED BY <2>1, SameRun DEF WholeReplays
<1>2. CASE Ends
  <2>1. /\ job'.todo = Work(job'.at, cat') /\ Replayed' = Replayed /\ cat' \in Catalog
        /\ job.at # "idle" /\ job' \in JobRec
    BY <1>2, PhaseDone
  <2>2. Covers(Replayed)'
    <3>1. job \in JobRec /\ job.run \in DOMAIN zone[job.day]
      BY <2>1, InProgress DEF TypeInv
    <3>2. Covers(Replayed)
      BY <3>1 DEF Covering, Replayed, JobRec
    <3> QED BY <2>1, <3>2, CoversStays DEF Covers
  <2> QED BY <2>1, <2>2 DEF WholeReplays, Work, Missing, Covers, Stamped
<1>3. CASE Goes
  BY <1>3, PhaseGoesOn DEF WholeReplays
<1>4. ASSUME NEW d \in Days, DeriveBegin(d) PROVE WholeReplays'
  <2>1. job'.at = "bulk"
    BY <1>4, PhaseOrder DEF DeriveBegin
  <2> QED BY <2>1 DEF WholeReplays
<1>5. CASE Record \/ DeriveCrash
  BY <1>5 DEF Record, DeriveCrash, Idle, WholeReplays
<1> QED BY <1>1, <1>2, <1>3, <1>4, <1>5 DEF Next, DeriveNext, Ends, Goes

\* A run that landed whole answers every request of its derivation.
THEOREM WholeNightsReplay == Spec => []WholeReplays
<1>1. Init => CoverInv
  <2>1. Init => Covering /\ WholeReplays
    BY DEF Init, Covering, WholeReplays, Idle
  <2> QED BY <2>1, TypeInit DEF CoverInv
<1>2. CoverInv /\ [Next]_vars => CoverInv'
  <2> SUFFICES ASSUME CoverInv, [Next]_vars PROVE CoverInv'
    OBVIOUS
  <2>1. TypeInv' /\ Covering'
    BY TypeStep, CoveringStep DEF CoverInv
  <2> QED BY <2>1, ReplaysStep DEF CoverInv
<1>3. CoverInv => WholeReplays
  BY DEF CoverInv
<1> QED BY <1>1, <1>2, <1>3, PTL DEF Spec

-----------------------------------------------------------------------------
(* Provenance. *)

AfterTail == Phase \ {"bulk", "tail"}
AfterLoad == AfterTail \ {"link", "load"}
AfterLatest == {"seeds", "record"}

\* What a derivation has brought when it has come so far.
Prices == /\ job.at = "load" => Replayed.groups \ job.todo \subseteq cat.prices[job.day]
          /\ job.at \in AfterLoad => Replayed.groups \subseteq cat.prices[job.day]
          /\ job.at \in AfterLatest => \A s \in Replayed.groups : cat.latest[s] >= job.day
Imported ==
  /\ job.set # None => job.at = "tail" /\ job.set \in Stamped \cap job.todo
  /\ ~Partial(Replayed) /\ ~job.failed =>
       /\ job.at = "tail" => Replayed.list \ job.todo \subseteq Stamped
       /\ job.at \in AfterTail => Replayed.list \subseteq Stamped
Brought == job.at # "idle" => ~Replayed.cut /\ Prices /\ Imported

Told == \A d \in Days : cat.prov[d] # 0 => cat.prov[d] \in DOMAIN zone[d]
TruthInv == TypeInv /\ Brought /\ Told /\ ProvenanceHolds

\* Provenance is written by the last phase, latest_prices by its own only.
LEMMA OthersKeep ==
  ASSUME TypeOK, [Next]_vars
  PROVE  /\ ~Record => cat'.prov = cat.prov
         /\ ~RefreshLatest => cat'.latest = cat.latest
<1>1. cat \in Catalog
  BY DEF TypeOK
<1>2. CASE ~Writes
  BY <1>2, OthersDoNotWrite
<1>3. ASSUME NEW d \in Days, DeriveBegin(d) PROVE cat'.prov = cat.prov /\ cat'.latest = cat.latest
  BY <1>1, <1>3 DEF DeriveBegin, Seeded, Catalog
<1>4. CASE ImportBulk
  BY <1>1, <1>4 DEF ImportBulk, Done, Enter, Write, Catalog
<1>5. CASE LinkGroups
  BY <1>1, <1>5 DEF LinkGroups, Done, Enter, Write, Catalog
<1>6. CASE FillBridges
  BY <1>1, <1>6 DEF FillBridges, Done, Enter, Write, Catalog
<1>7. CASE RefreshLatest
  <2>1. cat'.prov = cat.prov
    BY <1>1, <1>7 DEF RefreshLatest, Done, Enter, Write, Catalog
  <2> QED BY <1>7, <2>1
<1>8. CASE Reseed
  BY <1>1, <1>8 DEF Reseed, Seeded, Done, Enter, Write, Catalog
<1>9. CASE Record
  <2>1. cat'.latest = cat.latest
    BY <1>1, <1>9 DEF Record, Catalog
  <2> QED BY <1>9, <2>1
<1>10. ASSUME NEW s \in Sets, StampSet(s) \/ ImportCards(s) \/ LoadGroup(s) \/ Discover(s) \/ Expand(s)
       PROVE cat'.prov = cat.prov /\ cat'.latest = cat.latest
  <2>1. CASE StampSet(s)
    BY <1>1, <2>1 DEF StampSet, Write, Catalog
  <2>2. CASE ImportCards(s)
    BY <1>1, <2>2 DEF ImportCards, Write, Catalog
  <2>3. CASE LoadGroup(s)
    BY <1>1, <2>3 DEF LoadGroup, Step, Write, Catalog
  <2>4. CASE Discover(s)
    BY <1>1, <2>4 DEF Discover, Step, Write, Catalog
  <2>5. CASE Expand(s)
    BY <1>1, <2>5 DEF Expand, Step, Write, Catalog
  <2> QED BY <1>10, <2>1, <2>2, <2>3, <2>4, <2>5
<1> QED BY <1>2, <1>3, <1>4, <1>5, <1>6, <1>7, <1>8, <1>9, <1>10 DEF Writes

\* What the end of a phase has brought.
LEMMA BroughtByEnd ==
  ASSUME TruthInv, [Next]_vars, Ends
  PROVE  Brought'
<1> USE DEF TruthInv
<1>1. /\ job.at \in Phase \ {"record"} /\ job.at # "idle"
      /\ job' \in JobRec /\ job'.at = PhaseAfter(job.at) /\ job'.day = job.day /\ job'.run = job.run
      /\ job'.set = job.set /\ job'.todo = Work(job'.at, cat')
      /\ job'.failed = (job.failed \/ (job'.at = "tail" /\ Replayed.sets = "short"))
      /\ cat' \in Catalog /\ Replayed' = Replayed
  BY PhaseDone
<1>2. Stamped \subseteq Stamped' /\ Grows /\ job.day \in Days
  BY <1>1, CoversStays, CatalogStep DEF TypeInv, JobRec
<1>3. job.at \in {"tail", "load", "discover", "expand"} => job.todo = {}
  BY DEF Ends, PhaseEnds, ImportBulk, LinkGroups, FillBridges, RefreshLatest, Reseed
<1>4. Prices'
  <2>1. job'.at = "load" => job'.todo = Replayed.groups
    BY <1>1 DEF Work
  <2>2. job'.at \in AfterLoad => Replayed.groups \subseteq cat'.prices[job.day]
    BY <1>1, <1>2, <1>3, PhaseOrder DEF Brought, Prices, AfterLoad, AfterTail, Grows
  <2>3. job'.at \in AfterLatest => \A s \in Replayed.groups : cat'.latest[s] >= job.day
    <3>1. CASE job.at = "latest"
      <4>1. RefreshLatest /\ cat \in Catalog
        BY <3>1, PhaseOrder DEF TypeInv, TypeOK, Ends, PhaseEnds, ImportBulk, LinkGroups, FillBridges, Reseed
      <4>2. cat' = [cat EXCEPT !.latest = [s \in Sets |-> Newest(cat, s)]]
        BY <4>1 DEF RefreshLatest, Done, Enter, Write
      <4>3. cat'.latest = [s \in Sets |-> Newest(cat, s)]
        BY <4>1, <4>2 DEF Catalog
      <4>4. Replayed.groups \subseteq cat.prices[job.day] /\ Replayed.groups \subseteq Sets
        BY <1>1, <3>1, PhaseOrder, InProgress DEF Brought, Prices, AfterLoad, AfterTail, TypeInv, Run
      <4>5. \A s \in Sets : s \in cat.prices[job.day] => Newest(cat, s) >= job.day
        BY <1>2, <4>1, NewestIsNewest
      <4> QED BY <4>3, <4>4, <4>5
    <3>2. CASE job.at # "latest"
      <4>1. cat'.latest = cat.latest
        BY <3>2, OthersKeep DEF TypeInv, RefreshLatest
      <4> QED BY <1>1, <3>2, <4>1, PhaseOrder DEF Brought, Prices, AfterLatest
    <3> QED BY <3>1, <3>2
  <2> QED BY <1>1, <2>1, <2>2, <2>3 DEF Prices
<1>5. Imported'
  <2>1. job'.set = None
    BY <1>1, <1>3 DEF Brought, Imported
  <2>2. ASSUME ~Partial(Replayed), ~job'.failed, job'.at = "tail"
        PROVE  Replayed.list \ job'.todo \subseteq Stamped'
    <3>1. Replayed.sets = "whole" /\ Replayed.list \subseteq Sets
      BY <1>1, <2>2, InProgress DEF Partial, TypeInv, Run
    <3>2. job'.todo = Missing(cat', Replayed.list)
      BY <1>1, <2>2, <3>1 DEF Work
    <3> QED BY <3>1, <3>2 DEF Missing, Stamped
  <2>3. ASSUME ~Partial(Replayed), ~job'.failed, job'.at \in AfterTail
        PROVE  Replayed.list \subseteq Stamped'
    BY <1>1, <1>2, <1>3, <2>3, PhaseOrder DEF Brought, Imported, AfterTail
  <2> QED BY <1>1, <2>1, <2>2, <2>3 DEF Imported, Partial
<1> QED BY <1>1, <1>4, <1>5 DEF Brought

\* What one set or one group has brought.
LEMMA BroughtByStep ==
  ASSUME TruthInv, [Next]_vars, Goes
  PROVE  Brought'
<1> USE DEF TruthInv
<1>1. /\ job \in JobRec /\ job.at \in {"tail", "load", "discover", "expand"}
      /\ job'.at = job.at /\ job'.day = job.day /\ job'.run = job.run
      /\ job'.todo \subseteq job.todo /\ Replayed' = Replayed
  BY PhaseGoesOn
<1>2. /\ Stamped \subseteq Stamped' /\ Grows /\ cat \in Catalog /\ job.day \in Days /\ Brought
      /\ job.at # "idle" /\ Replayed.groups \subseteq Sets /\ Replayed.list \subseteq Sets
  BY <1>1, CoversStays, CatalogStep, InProgress DEF TypeInv, TypeOK, JobRec, Run
<1>3. PICK s \in Sets : StampSet(s) \/ ImportCards(s) \/ LoadGroup(s) \/ Discover(s) \/ Expand(s)
  BY DEF Goes
<1>4. Prices'
  <2>1. job.at = "load" => Replayed.groups \ job'.todo \subseteq cat'.prices[job.day]
    <3> SUFFICES ASSUME job.at = "load" PROVE Replayed.groups \ job'.todo \subseteq cat'.prices[job.day]
      OBVIOUS
    <3>1. LoadGroup(s)
      BY <1>3 DEF StampSet, ImportCards, LoadGroup, Discover, Expand
    <3>2. /\ job' = [job EXCEPT !.todo = job.todo \ {s}]
          /\ cat' = [cat EXCEPT !.stock[s] = cat.group[s], !.prices[job.day] = cat.prices[job.day] \cup {s}]
      BY <3>1 DEF LoadGroup, Step, Write
    <3>3. job'.todo = job.todo \ {s} /\ cat'.prices[job.day] = cat.prices[job.day] \cup {s}
      BY <1>1, <1>2, <3>2 DEF JobRec, Catalog
    <3> QED BY <1>2, <3>3 DEF Brought, Prices
  <2>2. job.at \in AfterLoad => Replayed.groups \subseteq cat'.prices[job.day]
    BY <1>2 DEF Brought, Prices, Grows
  <2>3. job.at \notin AfterLatest
    BY <1>1 DEF AfterLatest
  <2> QED BY <1>1, <2>1, <2>2, <2>3 DEF Prices
<1>5. Imported'
  <2>1. CASE job.at # "tail"
    <3>1. job'.set = job.set /\ job'.failed = job.failed
      BY <1>1, <1>3, <2>1 DEF StampSet, ImportCards, LoadGroup, Discover, Expand, Step, Write, JobRec
    <3> QED BY <1>1, <1>2, <2>1, <3>1 DEF Brought, Imported, Partial
  <2>2. CASE job.at = "tail"
    <3>1. StampSet(s) \/ ImportCards(s)
      BY <1>3, <2>2 DEF LoadGroup, Discover, Expand
    <3>2. CASE StampSet(s)
      <4>1. /\ job' = [job EXCEPT !.set = s] /\ cat' = [cat EXCEPT !.row[s] = "stamped"]
            /\ s \in job.todo
        BY <3>2 DEF StampSet, Write
      <4>2. job'.set = s /\ job'.todo = job.todo /\ job'.failed = job.failed /\ s \in Stamped'
        BY <1>1, <1>2, <4>1 DEF JobRec, Catalog, Stamped
      <4> QED BY <1>1, <1>2, <2>2, <4>1, <4>2, PhaseOrder DEF Brought, Imported, AfterTail, Partial
    <3>3. CASE ImportCards(s)
      <4>1. \/ job' = [job EXCEPT !.todo = job.todo \ {s}, !.set = None]
            \/ job' = [job EXCEPT !.todo = {}, !.set = None, !.failed = TRUE]
        BY <3>3 DEF ImportCards, Write
      <4>2. /\ job'.set = None
            /\ job'.failed \/ (job'.todo = job.todo \ {s} /\ job'.failed = job.failed)
        BY <1>1, <4>1 DEF JobRec
      <4>3. s \in Stamped
        BY <1>2, <3>3, NoneIsNoSet DEF ImportCards, Brought, Imported
      <4> QED BY <1>1, <1>2, <2>2, <4>2, <4>3, PhaseOrder DEF Brought, Imported, AfterTail, Partial
    <3> QED BY <3>1, <3>2, <3>3
  <2> QED BY <2>1, <2>2
<1> QED BY <1>1, <1>2, <1>4, <1>5 DEF Brought

LEMMA BroughtStep ==
  ASSUME TruthInv, [Next]_vars
  PROVE  Brought'
<1>1. CASE RefreshNext \/ UNCHANGED vars
  <2>1. job' = job /\ cat' = cat
    BY <1>1, RefreshIsApart
  <2>2. job.at # "idle" => Replayed' = Replayed
    BY <2>1, SameRun DEF TruthInv
  <2> QED BY <2>1, <2>2 DEF TruthInv, Brought, Prices, Imported, Stamped, Partial
<1>2. CASE Ends \/ Goes
  BY <1>2, BroughtByEnd, BroughtByStep
<1>3. ASSUME NEW d \in Days, DeriveBegin(d) PROVE Brought'
  <2>1. PICK n \in Chosen(zone[d]) :
          job' = [at |-> "bulk", day |-> d, run |-> n, todo |-> {}, set |-> None, failed |-> FALSE]
    BY <1>3, PhaseOrder DEF DeriveBegin
  <2>2. zone[d] \in Seq(Run) /\ zone' = zone
    BY <1>3 DEF TruthInv, TypeInv, TypeOK, DeriveBegin
  <2>3. ~zone[d][n].cut
    BY <2>1, <2>2, ChosenIsARun
  <2>4. ~Replayed'.cut
    BY <2>1, <2>2, <2>3 DEF Replayed
  <2> QED BY <2>1, <2>4, PhaseOrder DEF Brought, Prices, Imported, AfterTail, AfterLoad, AfterLatest
<1>4. CASE Record \/ DeriveCrash
  BY <1>4 DEF Record, DeriveCrash, Idle, Brought
<1> QED BY <1>1, <1>2, <1>3, <1>4 DEF Next, DeriveNext, Ends, Goes

LEMMA TruthStep ==
  ASSUME TruthInv, [Next]_vars
  PROVE  Told' /\ ProvenanceHolds'
<1> USE DEF TruthInv
<1> DEFINE Made(c, d, run) ==
             /\ ~run.cut
             /\ run.groups \subseteq c.prices[d]
             /\ \A s \in run.groups : c.latest[s] >= d
             /\ ~Partial(run) => \A s \in run.list : c.row[s] = "stamped"
<1>1. \A d \in Days : \A n \in DOMAIN zone[d] : n \in DOMAIN zone'[d] /\ zone'[d][n] = zone[d][n]
  BY JobStep
<1>2. cat \in Catalog /\ cat' \in Catalog /\ Grows
  BY CatalogStep DEF TypeInv, TypeOK
<1>3. ASSUME NEW d \in Days, NEW n \in DOMAIN zone[d], Made(cat, d, zone[d][n])
      PROVE  Made(cat', d, zone[d][n])
  <2> DEFINE run == zone[d][n]
  <2>1. run.groups \subseteq Sets /\ run.list \subseteq Sets
    <3>1. zone[d] \in Seq(Run)
      BY DEF TypeInv, TypeOK
    <3>2. zone[d][n] \in Run
      BY <3>1
    <3> QED BY <3>2 DEF Run
  <2> HIDE DEF run
  <2>2. run.groups \subseteq cat'.prices[d]
    BY <1>2, <1>3 DEF Grows, run
  <2>3. \A s \in run.groups : cat'.latest[s] >= d
    <3>1. CASE RefreshLatest
      <4>1. cat' = [cat EXCEPT !.latest = [s \in Sets |-> Newest(cat, s)]]
        BY <3>1 DEF RefreshLatest, Done, Enter, Write
      <4>2. cat'.latest = [s \in Sets |-> Newest(cat, s)]
        BY <1>2, <4>1 DEF Catalog
      <4>3. \A s \in Sets : s \in cat.prices[d] => Newest(cat, s) >= d
        BY <1>2, NewestIsNewest
      <4> QED BY <1>3, <2>1, <4>2, <4>3 DEF run
    <3>2. CASE ~RefreshLatest
      BY <1>3, <3>2, OthersKeep DEF TypeInv, run
    <3> QED BY <3>1, <3>2
  <2>4. ~Partial(run) => \A s \in run.list : cat'.row[s] = "stamped"
    BY <1>2, <1>3, <2>1 DEF Grows, run
  <2> QED BY <1>3, <2>2, <2>3, <2>4 DEF run
<1>4. \A d \in Days : cat.prov[d] # 0 => cat.prov[d] \in DOMAIN zone[d] /\ Made(cat, d, zone[d][cat.prov[d]])
  BY DEF Told, ProvenanceHolds
<1>5. SUFFICES ASSUME NEW d \in Days, cat'.prov[d] # 0
               PROVE  cat'.prov[d] \in DOMAIN zone[d] /\ Made(cat', d, zone[d][cat'.prov[d]])
  <2> HIDE DEF Made
  <2>1. \A d \in Days : cat'.prov[d] # 0 =>
          cat'.prov[d] \in DOMAIN zone'[d] /\ Made(cat', d, zone'[d][cat'.prov[d]])
    BY <1>1, <1>5
  <2> QED BY <2>1 DEF Told, ProvenanceHolds, Made
<1>6. CASE cat'.prov[d] = cat.prov[d]
  <2> HIDE DEF Made
  <2> QED BY <1>3, <1>4, <1>5, <1>6
<1>7. CASE cat'.prov[d] # cat.prov[d]
  <2>1. Record
    BY <1>7, OthersKeep DEF TypeInv
  <2>2. Exit # 1 /\ cat' = [cat EXCEPT !.prov[job.day] = job.run]
    BY <1>7, <2>1 DEF Record
  <2>3. job \in JobRec /\ job.run \in DOMAIN zone[job.day] /\ job.at = "record"
    BY <2>1, InProgress DEF Record, TypeInv
  <2>4. d = job.day /\ cat'.prov[d] = job.run
    BY <1>2, <1>7, <2>2, <2>3 DEF Catalog, JobRec
  <2>5. Partial(Replayed) \/ ~job.failed
    BY <2>2, <2>3 DEF Exit, JobRec
  <2>6. Made(cat, job.day, Replayed)
    BY <2>3, <2>5, PhaseOrder DEF Brought, Prices, Imported, AfterTail, AfterLoad, AfterLatest, Stamped
  <2>7. zone[d][cat'.prov[d]] = Replayed
    BY <2>4 DEF Replayed
  <2> HIDE DEF Made
  <2> QED BY <1>3, <2>3, <2>4, <2>6, <2>7
<1> QED BY <1>6, <1>7

\* What raw_derivation says the catalog is made of is in the catalog.
THEOREM ProvenanceIsTrue == Spec => []ProvenanceHolds
<1>1. Init => TruthInv
  <2>1. Init => Brought /\ Told /\ ProvenanceHolds
    BY DEF Init, Brought, Told, ProvenanceHolds, Idle
  <2> QED BY <2>1, TypeInit DEF TruthInv
<1>2. TruthInv /\ [Next]_vars => TruthInv'
  <2> SUFFICES ASSUME TruthInv, [Next]_vars PROVE TruthInv'
    OBVIOUS
  <2>1. TypeInv' /\ Brought'
    BY TypeStep, BroughtStep DEF TruthInv
  <2> QED BY <2>1, TruthStep DEF TruthInv
<1>3. TruthInv => ProvenanceHolds
  BY DEF TruthInv
<1> QED BY <1>1, <1>2, <1>3, PTL DEF Spec

-----------------------------------------------------------------------------
(* Deriving again. *)

AfterLink == AfterTail \ {"link"}
AfterDiscover == AfterLoad \ {"discover"}
AfterBridges == AfterDiscover \ {"bridges"}
AfterExpand == AfterBridges \ {"expand"}

LEMMA PhasesAfter ==
  /\ AfterTail = {"link", "load", "discover", "bridges", "expand", "latest", "seeds", "record"}
  /\ AfterLink = {"load", "discover", "bridges", "expand", "latest", "seeds", "record"}
  /\ AfterLoad = {"discover", "bridges", "expand", "latest", "seeds", "record"}
  /\ AfterDiscover = {"bridges", "expand", "latest", "seeds", "record"}
  /\ AfterBridges = {"expand", "latest", "seeds", "record"}
  /\ AfterExpand = {"latest", "seeds", "record"}
  /\ AfterLatest = {"seeds", "record"}
BY PhaseOrder DEF AfterTail, AfterLink, AfterLoad, AfterDiscover, AfterBridges, AfterExpand, AfterLatest

\* What each phase leaves true of a catalog.
HasBulk(c, run) == \A s \in run.bulk : c.row[s] = "stamped" /\ c.cards[s] = "real"
Matched(c, run) ==
  /\ \A s \in Bridged : c.row[s] # "none"
  /\ \A s \in run.groups : c.group[s] = IF c.row[s] = "none" THEN "loose" ELSE "linked"
Stocked(c, which) == \A s \in which : c.stock[s] # "none"
Awaits(c, s) == s \in Discoverable /\ c.stock[s] # "none" /\ c.row[s] # "stamped"
Found(c, which) == \A s \in which : c.group[s] = "loose" => ~Awaits(c, s)
Filled(c) == \A s \in Bridged : c.stock[s] # "none" => c.cards[s] # "none"
Kind(c, s) == IF c.group[s] = "linked" /\ c.stock[s] # "none" THEN "traded" ELSE "plain"
Printed(c, which) == \A s \in which : c.cards[s] # "none" => c.prints[s] = Kind(c, s)
Priced(c) == \A s \in Sets : c.latest[s] = Newest(c, s)
Aliased(c) == c.alias = {s \in Sets : c.row[s] # "none"}

\* What a derivation has left true when it has come so far.
Attained == job.at # "idle" =>
  /\ job.at # "bulk" => HasBulk(cat, Replayed)
  /\ job.at \in AfterLink => Matched(cat, Replayed)
  /\ job.at = "load" => Stocked(cat, Replayed.groups \ job.todo)
  /\ job.at \in AfterLoad => Stocked(cat, Replayed.groups)
  /\ job.at = "discover" => Found(cat, Sets \ job.todo)
  /\ job.at \in AfterDiscover => Found(cat, Sets)
  /\ job.at \in AfterBridges => Filled(cat)
  /\ job.at = "expand" => Printed(cat, Sets \ job.todo)
  /\ job.at \in AfterExpand => Printed(cat, Sets)
  /\ job.at \in AfterLatest => Priced(cat)
  /\ job.at = "record" => Aliased(cat)

\* What a phase is to go through is still what it began with.
Due ==
  /\ job.at = "load" => job.todo \subseteq Replayed.groups
  /\ job.at = "discover" => \A s \in job.todo : cat.group[s] = "loose"
  /\ job.at = "expand" => \A s \in job.todo : cat.cards[s] # "none"

\* A catalog the derivation of this run has nothing to add to.
Closed(c, d, run) ==
  /\ HasBulk(c, run) /\ Matched(c, run) /\ Stocked(c, run.groups)
  /\ \A s \in run.list : c.row[s] = "stamped"
  /\ run.groups \subseteq c.prices[d]
  /\ Found(c, Sets) /\ Filled(c) /\ Printed(c, Sets) /\ Priced(c) /\ Aliased(c)

\* A catalog that differs from another in the stock of these groups only.
Like(c, f, groups) ==
  /\ \A s \in Sets : /\ c.row[s] = f.row[s] /\ c.cards[s] = f.cards[s] /\ c.group[s] = f.group[s]
                     /\ c.prints[s] = f.prints[s] /\ c.latest[s] = f.latest[s]
                     /\ c.stock[s] = IF s \in groups THEN f.group[s] ELSE f.stock[s]
  /\ \A d \in Days : c.prices[d] = f.prices[d] /\ c.prov[d] = f.prov[d]
  /\ c.alias = f.alias

\* The groups whose products a derivation in progress has loaded.
Loaded == IF job.at \in {"bulk", "tail", "link"} THEN {}
          ELSE IF job.at = "load" THEN Replayed.groups \ job.todo
          ELSE Replayed.groups

\* A derivation of the run recorded last stays with what that one left.
Resumed == /\ job.day = last.day /\ job.run = last.run
           /\ ~Partial(Replayed) => /\ Like(cat, last.cat, Loaded) /\ job.set = None
                                    /\ job.at = "tail" => job.todo = {}
Settled == last # None =>
  /\ last.run \in DOMAIN zone[last.day]
  /\ ~Partial(zone[last.day][last.run]) =>
       /\ Closed(last.cat, last.day, zone[last.day][last.run])
       /\ last.cat.prov[last.day] = last.run
  /\ IF job.at = "idle" THEN cat = last.cat ELSE Resumed

FixInv == TruthInv /\ Attained /\ Due /\ Settled

\* Two catalogs with the same fields are one.
LEMMA SameCatalog ==
  ASSUME NEW c \in Catalog, NEW f \in Catalog, Like(c, f, {})
  PROVE  c = f
<1>1. c.row = f.row
  BY DEF Catalog, Like
<1>2. c.cards = f.cards
  BY DEF Catalog, Like
<1>3. c.group = f.group
  BY DEF Catalog, Like
<1>4. c.stock = f.stock
  BY DEF Catalog, Like
<1>5. c.prints = f.prints
  BY DEF Catalog, Like
<1>6. c.latest = f.latest
  BY DEF Catalog, Like
<1>7. c.prices = f.prices
  BY DEF Catalog, Like
<1>8. c.prov = f.prov
  BY DEF Catalog, Like
<1>9. c.alias = f.alias
  BY DEF Like
<1> QED BY <1>1, <1>2, <1>3, <1>4, <1>5, <1>6, <1>7, <1>8, <1>9 DEF Catalog

\* The newest price depends on the prices alone.
LEMMA NewestOf ==
  ASSUME NEW c, NEW f, \A d \in Days : c.prices[d] = f.prices[d], NEW s
  PROVE  Newest(c, s) = Newest(f, s)
<1>1. {d \in Days : s \in c.prices[d]} = {d \in Days : s \in f.prices[d]}
  OBVIOUS
<1> QED BY <1>1 DEF Newest

\* What the end of a phase writes, phase by phase.
LEMMA PhaseEffect ==
  ASSUME TypeInv, [Next]_vars, Ends
  PROVE  /\ last' = last
         /\ job.at \in {"tail", "load", "discover", "expand"} => job.todo = {} /\ cat' = cat
         /\ job.at = "bulk" =>
              /\ cat'.row = [s \in Sets |-> IF s \in Replayed.bulk THEN "stamped" ELSE cat.row[s]]
              /\ cat'.cards = [s \in Sets |-> IF s \in Replayed.bulk THEN "real" ELSE cat.cards[s]]
         /\ job.at = "link" =>
              /\ cat'.row = [s \in Sets |-> IF s \in Bridged /\ cat.row[s] = "none" THEN "local" ELSE cat.row[s]]
              /\ cat'.group = [s \in Sets |-> IF s \notin Replayed.groups THEN cat.group[s]
                                              ELSE IF cat'.row[s] = "none" THEN "loose" ELSE "linked"]
         /\ job.at = "bridges" => cat'.cards = Stubs(cat, {s \in Bridged : cat.stock[s] # "none"})
         /\ job.at = "latest" => cat'.latest = [s \in Sets |-> Newest(cat, s)]
         /\ job.at = "seeds" => cat'.alias = {s \in Sets : cat.row[s] # "none"}
         /\ job.at \notin {"bulk", "link"} => cat'.row = cat.row
         /\ job.at \notin {"bulk", "bridges"} => cat'.cards = cat.cards
         /\ job.at # "link" => cat'.group = cat.group
         /\ job.at # "latest" => cat'.latest = cat.latest
         /\ job.at # "seeds" => cat'.alias = cat.alias
         /\ cat'.stock = cat.stock /\ cat'.prints = cat.prints
         /\ cat'.prices = cat.prices /\ cat'.prov = cat.prov
<1>1. cat \in Catalog
  BY DEF TypeInv, TypeOK
<1>2. CASE PhaseEnds
  BY <1>2 DEF PhaseEnds, Done, Enter, Write
<1>3. CASE ImportBulk
  BY <1>1, <1>3 DEF ImportBulk, Done, Enter, Write, Catalog
<1>4. CASE LinkGroups
  <2> DEFINE rows == [s \in Sets |-> IF s \in Bridged /\ cat.row[s] = "none" THEN "local" ELSE cat.row[s]]
             links == [s \in Sets |-> IF s \notin Replayed.groups THEN cat.group[s]
                                      ELSE IF rows[s] = "none" THEN "loose" ELSE "linked"]
  <2>1. cat' = [cat EXCEPT !.row = rows, !.group = links] /\ last' = last /\ job.at = "link"
    BY <1>1, <1>4 DEF LinkGroups, Done, Enter, Write
  <2> HIDE DEF rows, links
  <2>2. cat'.row = rows /\ cat'.group = links
    BY <1>1, <2>1 DEF Catalog
  <2>3. /\ cat'.cards = cat.cards /\ cat'.stock = cat.stock /\ cat'.prints = cat.prints
        /\ cat'.alias = cat.alias /\ cat'.prices = cat.prices /\ cat'.latest = cat.latest
        /\ cat'.prov = cat.prov
    BY <1>1, <2>1 DEF Catalog
  <2> QED BY <2>1, <2>2, <2>3 DEF rows, links
<1>5. CASE FillBridges
  BY <1>1, <1>5 DEF FillBridges, Done, Enter, Write, Catalog
<1>6. CASE RefreshLatest
  <2>1. /\ cat' = [cat EXCEPT !.latest = [s \in Sets |-> Newest(cat, s)]]
        /\ last' = last /\ job.at = "latest"
    BY <1>6 DEF RefreshLatest, Done, Enter, Write
  <2> QED BY <1>1, <2>1 DEF Catalog
<1>7. CASE Reseed
  BY <1>1, <1>7 DEF Reseed, Seeded, Done, Enter, Write, Catalog
<1> QED BY <1>2, <1>3, <1>4, <1>5, <1>6, <1>7 DEF Ends

\* What a step on one set or one group writes.
LEMMA StepEffect ==
  ASSUME TypeInv, [Next]_vars, NEW s \in Sets,
         StampSet(s) \/ ImportCards(s) \/ LoadGroup(s) \/ Discover(s) \/ Expand(s)
  PROVE  /\ last' = last /\ cat'.alias = cat.alias
         /\ cat'.latest = cat.latest /\ cat'.prov = cat.prov
         /\ job.at = "tail" =>
              \/ job.set = None /\ s \in job.todo
              \/ job.set = s
         /\ job.at # "tail" => s \in job.todo /\ job'.set = job.set /\ job'.todo = job.todo \ {s}
         /\ job.at = "load" =>
              /\ cat'.stock = [cat.stock EXCEPT ![s] = cat.group[s]]
              /\ cat'.prices = [cat.prices EXCEPT ![job.day] = cat.prices[job.day] \cup {s}]
         /\ job.at = "discover" =>
              \/ cat' = cat /\ ~Awaits(cat, s)
              \/ /\ Awaits(cat, s)
                 /\ cat'.row = [cat.row EXCEPT ![s] = "local"]
                 /\ cat'.group = [cat.group EXCEPT ![s] = "linked"]
         /\ job.at = "expand" => cat'.prints = [cat.prints EXCEPT ![s] = Kind(cat, s)]
         /\ job.at \notin {"tail", "discover"} => cat'.row = cat.row /\ cat'.cards = cat.cards
         /\ job.at # "discover" => cat'.group = cat.group
         /\ job.at # "load" => cat'.stock = cat.stock /\ cat'.prices = cat.prices
         /\ job.at # "expand" => cat'.prints = cat.prints
<1>1. cat \in Catalog
  BY DEF TypeInv, TypeOK
<1>2. /\ job \in JobRec /\ job.at \in {"tail", "load", "discover", "expand"}
  BY PhaseGoesOn DEF Goes
<1>3. CASE StampSet(s)
  BY <1>1, <1>3 DEF StampSet, Write, Catalog
<1>4. CASE ImportCards(s)
  BY <1>1, <1>4 DEF ImportCards, Write, Catalog
<1>5. CASE LoadGroup(s)
  <2>1. /\ job.at = "load" /\ s \in job.todo /\ last' = last
        /\ job' = [job EXCEPT !.todo = job.todo \ {s}]
        /\ cat' = [cat EXCEPT !.stock[s] = cat.group[s], !.prices[job.day] = cat.prices[job.day] \cup {s}]
    BY <1>5 DEF LoadGroup, Step, Write
  <2>2. job'.set = job.set /\ job'.todo = job.todo \ {s}
    BY <1>2, <2>1 DEF JobRec
  <2>3. /\ cat'.stock = [cat.stock EXCEPT ![s] = cat.group[s]]
        /\ cat'.prices = [cat.prices EXCEPT ![job.day] = cat.prices[job.day] \cup {s}]
        /\ cat'.row = cat.row /\ cat'.cards = cat.cards /\ cat'.group = cat.group
        /\ cat'.prints = cat.prints /\ cat'.alias = cat.alias /\ cat'.latest = cat.latest
        /\ cat'.prov = cat.prov
    BY <1>1, <2>1 DEF Catalog
  <2> QED BY <2>1, <2>2, <2>3
<1>6. CASE Discover(s)
  <2>1. /\ job.at = "discover" /\ s \in job.todo /\ last' = last
        /\ job' = [job EXCEPT !.todo = job.todo \ {s}]
    BY <1>6 DEF Discover, Step, Write
  <2>2. job'.set = job.set /\ job'.todo = job.todo \ {s}
    BY <1>2, <2>1 DEF JobRec
  <2>3. CASE Awaits(cat, s)
    <3> DEFINE stubs == Stubs(cat, {s})
    <3>1. cat' = [cat EXCEPT !.row[s] = "local", !.group[s] = "linked", !.cards = stubs]
      BY <1>6, <2>3 DEF Discover, Step, Write, Awaits
    <3> HIDE DEF stubs
    <3>2. /\ cat'.row = [cat.row EXCEPT ![s] = "local"]
          /\ cat'.group = [cat.group EXCEPT ![s] = "linked"]
          /\ cat'.stock = cat.stock /\ cat'.prices = cat.prices /\ cat'.prints = cat.prints
          /\ cat'.alias = cat.alias /\ cat'.latest = cat.latest /\ cat'.prov = cat.prov
      BY <1>1, <3>1 DEF Catalog
    <3> QED BY <2>1, <2>2, <2>3, <3>2
  <2>4. CASE ~Awaits(cat, s)
    BY <1>6, <2>1, <2>2, <2>4 DEF Discover, Step, Write, Awaits
  <2> QED BY <2>3, <2>4
<1>7. CASE Expand(s)
  <2>1. /\ job.at = "expand" /\ s \in job.todo /\ last' = last
        /\ job' = [job EXCEPT !.todo = job.todo \ {s}]
        /\ cat' = [cat EXCEPT !.prints[s] = Kind(cat, s)]
    BY <1>7 DEF Expand, Step, Write, Kind
  <2>2. job'.set = job.set /\ job'.todo = job.todo \ {s}
    BY <1>2, <2>1 DEF JobRec
  <2> QED BY <1>1, <2>1, <2>2 DEF Catalog
<1> QED BY <1>3, <1>4, <1>5, <1>6, <1>7

\* The sets and the cards of the corpus stay in.
LEMMA BulkStays ==
  ASSUME TypeInv, [Next]_vars, NEW run \in Run, HasBulk(cat, run)
  PROVE  HasBulk(cat', run)
  BY CatalogStep DEF TypeInv, HasBulk, Grows, Run

LEMMA AttainedByEnd ==
  ASSUME TruthInv, Attained, [Next]_vars, Ends
  PROVE  Attained'
<1> USE DEF TruthInv
<1>1. /\ job.at \in Phase \ {"record"} /\ job.at # "idle" /\ job'.at = PhaseAfter(job.at)
      /\ job'.todo = Work(job'.at, cat') /\ Replayed' = Replayed
      /\ cat \in Catalog /\ cat' \in Catalog
  BY PhaseDone DEF TypeInv, TypeOK
<1>2. Replayed \in Run /\ Replayed.groups \subseteq Sets /\ Replayed.bulk \subseteq Sets
  BY <1>1, InProgress DEF TypeInv, Run
<1> DEFINE at == job.at
           next == job'.at
<1>3. HasBulk(cat', Replayed)
  <2>1. CASE at = "bulk"
    BY <1>2, <2>1, PhaseEffect DEF HasBulk
  <2>2. CASE at # "bulk"
    BY <1>1, <1>2, <2>2, BulkStays DEF Attained
  <2> QED BY <2>1, <2>2
<1>4. next \in AfterLink => Matched(cat', Replayed)
  <2>1. CASE at = "link"
    BY <1>1, <1>2, <2>1, PhaseEffect, SetsAreSets DEF Matched
  <2>2. CASE at \in AfterLink
    BY <1>1, <2>2, PhaseEffect, PhasesAfter DEF Attained, Matched
  <2>3. CASE at \in {"bulk", "tail"}
    BY <1>1, <2>3, PhaseOrder, PhasesAfter
  <2> QED BY <1>1, <2>1, <2>2, <2>3, PhaseOrder, PhasesAfter
<1>5. /\ next = "load" => Stocked(cat', Replayed.groups \ job'.todo)
      /\ next \in AfterLoad => Stocked(cat', Replayed.groups)
  <2>1. next = "load" => job'.todo = Replayed.groups
    BY <1>1 DEF Work
  <2>2. CASE at = "load"
    BY <1>1, <2>2, PhaseEffect, PhaseOrder DEF Attained, Stocked
  <2>3. CASE at \in AfterLoad
    BY <1>1, <2>3, PhaseEffect, PhasesAfter, PhaseOrder DEF Attained, Stocked
  <2>4. CASE at \in {"bulk", "tail", "link"}
    BY <1>1, <2>1, <2>4, PhaseOrder, PhasesAfter DEF Stocked
  <2> QED BY <1>1, <2>2, <2>3, <2>4, PhaseOrder, PhasesAfter
<1>6. /\ next = "discover" => Found(cat', Sets \ job'.todo)
      /\ next \in AfterDiscover => Found(cat', Sets)
  <2>1. next = "discover" => job'.todo = {s \in Sets : cat'.group[s] = "loose"}
    BY <1>1 DEF Work
  <2>2. CASE at = "discover"
    BY <1>1, <2>2, PhaseEffect, PhaseOrder, PhasesAfter DEF Attained, Found, Awaits
  <2>3. CASE at \in AfterDiscover
    BY <1>1, <2>3, PhaseEffect, PhasesAfter, PhaseOrder DEF Attained, Found, Awaits
  <2>4. CASE at \in {"bulk", "tail", "link", "load"}
    BY <1>1, <2>1, <2>4, PhaseOrder, PhasesAfter DEF Found
  <2> QED BY <1>1, <2>2, <2>3, <2>4, PhaseOrder, PhasesAfter
<1>7. next \in AfterBridges => Filled(cat')
  <2>1. CASE at = "bridges"
    BY <1>1, <2>1, PhaseEffect, SetsAreSets DEF Filled, Stubs
  <2>2. CASE at \in AfterBridges
    BY <1>1, <2>2, PhaseEffect, PhasesAfter DEF Attained, Filled
  <2>3. CASE at \in {"bulk", "tail", "link", "load", "discover"}
    BY <1>1, <2>3, PhaseOrder, PhasesAfter
  <2> QED BY <1>1, <2>1, <2>2, <2>3, PhaseOrder, PhasesAfter
<1>8. /\ next = "expand" => Printed(cat', Sets \ job'.todo)
      /\ next \in AfterExpand => Printed(cat', Sets)
  <2>1. next = "expand" => job'.todo = {s \in Sets : cat'.cards[s] # "none"}
    BY <1>1 DEF Work
  <2>2. CASE at = "expand"
    BY <1>1, <2>2, PhaseEffect, PhaseOrder, PhasesAfter DEF Attained, Printed, Kind
  <2>3. CASE at \in AfterExpand
    BY <1>1, <2>3, PhaseEffect, PhasesAfter, PhaseOrder DEF Attained, Printed, Kind
  <2>4. CASE at \notin {"expand"} \cup AfterExpand
    BY <1>1, <2>1, <2>4, PhaseOrder, PhasesAfter DEF Printed
  <2> QED BY <2>2, <2>3, <2>4
<1>9. next \in AfterLatest => Priced(cat')
  <2>1. \A s \in Sets : Newest(cat', s) = Newest(cat, s)
    BY PhaseEffect, NewestOf
  <2>2. CASE at = "latest"
    BY <2>1, <2>2, PhaseEffect DEF Priced
  <2>3. CASE at \in AfterLatest
    BY <1>1, <2>1, <2>3, PhaseEffect, PhasesAfter DEF Attained, Priced
  <2>4. CASE at \notin {"latest"} \cup AfterLatest
    BY <1>1, <2>4, PhaseOrder, PhasesAfter
  <2> QED BY <2>2, <2>3, <2>4
<1>10. next = "record" => Aliased(cat')
  <2>1. CASE at = "seeds"
    BY <2>1, PhaseEffect DEF Aliased
  <2>2. CASE at # "seeds"
    BY <1>1, <2>2, PhaseOrder
  <2> QED BY <2>1, <2>2
<1> QED BY <1>1, <1>3, <1>4, <1>5, <1>6, <1>7, <1>8, <1>9, <1>10 DEF Attained

LEMMA AttainedByStep ==
  ASSUME TruthInv, Attained, [Next]_vars, Goes
  PROVE  Attained'
<1> USE DEF TruthInv
<1>1. /\ job \in JobRec /\ job.at \in {"tail", "load", "discover", "expand"} /\ job.at # "idle"
      /\ job'.at = job.at /\ Replayed' = Replayed
      /\ cat \in Catalog /\ cat' \in Catalog
  BY PhaseGoesOn, CatalogStep DEF TypeInv, TypeOK
<1>2. Replayed \in Run /\ Replayed.groups \subseteq Sets
  BY <1>1, InProgress DEF TypeInv, Run
<1>3. PICK s \in Sets : StampSet(s) \/ ImportCards(s) \/ LoadGroup(s) \/ Discover(s) \/ Expand(s)
  BY DEF Goes
<1>4. HasBulk(cat', Replayed)
  BY <1>1, <1>2, BulkStays DEF Attained
<1>5. CASE job.at = "tail"
  BY <1>1, <1>4, <1>5, PhasesAfter DEF Attained
<1>6. CASE job.at = "load"
  <2>1. Matched(cat, Replayed) /\ Stocked(cat, Replayed.groups \ job.todo)
    BY <1>1, <1>6, PhasesAfter DEF Attained
  <2>2. /\ cat'.row = cat.row /\ cat'.group = cat.group /\ job'.todo = job.todo \ {s}
        /\ cat'.stock = [cat.stock EXCEPT ![s] = cat.group[s]]
    BY <1>3, <1>6, StepEffect
  <2>3. Matched(cat', Replayed)
    BY <2>1, <2>2 DEF Matched
  <2>4. Stocked(cat', Replayed.groups \ job'.todo)
    BY <1>1, <1>2, <2>1, <2>2 DEF Stocked, Matched, Catalog
  <2> QED BY <1>1, <1>4, <1>6, <2>3, <2>4, PhasesAfter DEF Attained
<1>7. CASE job.at = "discover"
  <2>1. Matched(cat, Replayed) /\ Stocked(cat, Replayed.groups) /\ Found(cat, Sets \ job.todo)
    BY <1>1, <1>7, PhasesAfter DEF Attained
  <2>2. /\ cat'.stock = cat.stock /\ job'.todo = job.todo \ {s}
        /\ \/ cat' = cat /\ ~Awaits(cat, s)
           \/ /\ cat'.row = [cat.row EXCEPT ![s] = "local"]
              /\ cat'.group = [cat.group EXCEPT ![s] = "linked"]
    BY <1>3, <1>7, StepEffect
  <2>3. Matched(cat', Replayed) /\ Stocked(cat', Replayed.groups)
    BY <1>1, <1>2, <2>1, <2>2, SetsAreSets DEF Matched, Stocked, Catalog
  <2>4. Found(cat', Sets \ job'.todo)
    BY <1>1, <2>1, <2>2 DEF Found, Awaits, Catalog
  <2> QED BY <1>1, <1>4, <1>7, <2>3, <2>4, PhasesAfter DEF Attained
<1>8. CASE job.at = "expand"
  <2>1. /\ Matched(cat, Replayed) /\ Stocked(cat, Replayed.groups) /\ Found(cat, Sets)
        /\ Filled(cat) /\ Printed(cat, Sets \ job.todo)
    BY <1>1, <1>8, PhasesAfter DEF Attained
  <2>2. /\ cat'.stock = cat.stock /\ cat'.row = cat.row /\ cat'.group = cat.group
        /\ cat'.cards = cat.cards /\ job'.todo = job.todo \ {s}
        /\ cat'.prints = [cat.prints EXCEPT ![s] = Kind(cat, s)]
    BY <1>3, <1>8, StepEffect
  <2>3. Matched(cat', Replayed) /\ Stocked(cat', Replayed.groups) /\ Found(cat', Sets) /\ Filled(cat')
    BY <2>1, <2>2 DEF Matched, Stocked, Found, Awaits, Filled
  <2>4. \A t \in Sets : Kind(cat', t) = Kind(cat, t)
    BY <2>2 DEF Kind
  <2>5. Printed(cat', Sets \ job'.todo)
    BY <1>1, <2>1, <2>2, <2>4 DEF Printed, Catalog
  <2> QED BY <1>1, <1>4, <1>8, <2>3, <2>5, PhasesAfter DEF Attained
<1> QED BY <1>1, <1>5, <1>6, <1>7, <1>8

LEMMA AttainedStep ==
  ASSUME TruthInv, Attained, [Next]_vars
  PROVE  Attained'
<1>1. CASE RefreshNext \/ UNCHANGED vars
  <2>1. job' = job /\ cat' = cat
    BY <1>1, RefreshIsApart
  <2>2. job.at # "idle" => Replayed' = Replayed
    BY <2>1, SameRun DEF TruthInv
  <2> QED BY <2>1, <2>2 DEF Attained
<1>2. CASE Ends \/ Goes
  BY <1>2, AttainedByEnd, AttainedByStep
<1>3. ASSUME NEW d \in Days, DeriveBegin(d) PROVE Attained'
  <2>1. job'.at = "bulk"
    BY <1>3, PhaseOrder DEF DeriveBegin
  <2> QED BY <2>1, PhasesAfter DEF Attained
<1>4. CASE Record \/ DeriveCrash
  BY <1>4 DEF Record, DeriveCrash, Idle, Attained
<1> QED BY <1>1, <1>2, <1>3, <1>4 DEF Next, DeriveNext, Ends, Goes

LEMMA DueStep ==
  ASSUME TypeInv, Due, [Next]_vars
  PROVE  Due'
<1>1. CASE RefreshNext \/ UNCHANGED vars
  <2>1. job' = job /\ cat' = cat
    BY <1>1, RefreshIsApart
  <2>2. job.at # "idle" => Replayed' = Replayed
    BY <2>1, SameRun
  <2> QED BY <2>1, <2>2 DEF Due
<1>2. CASE Ends
  <2>1. job'.todo = Work(job'.at, cat') /\ Replayed' = Replayed
    BY <1>2, PhaseDone
  <2> QED BY <2>1 DEF Due, Work
<1>3. CASE Goes
  <2>1. /\ job \in JobRec /\ job.at \in {"tail", "load", "discover", "expand"}
        /\ job'.at = job.at /\ job'.todo \subseteq job.todo /\ Replayed' = Replayed /\ cat \in Catalog
    BY <1>3, PhaseGoesOn DEF TypeInv, TypeOK
  <2>2. PICK s \in Sets : StampSet(s) \/ ImportCards(s) \/ LoadGroup(s) \/ Discover(s) \/ Expand(s)
    BY <1>3 DEF Goes
  <2>3. CASE job.at = "discover"
    <3>1. /\ job'.todo = job.todo \ {s}
          /\ cat' = cat \/ cat'.group = [cat.group EXCEPT ![s] = "linked"]
      BY <2>2, <2>3, StepEffect
    <3>2. cat.group \in [Sets -> {"none", "loose", "linked"}] /\ job.todo \subseteq Sets
      BY <2>1 DEF Catalog, JobRec
    <3>3. \A t \in job'.todo : cat'.group[t] = cat.group[t]
      BY <3>1, <3>2
    <3> QED BY <2>1, <2>3, <3>3 DEF Due
  <2>4. CASE job.at = "expand"
    <3>1. cat'.cards = cat.cards
      BY <2>2, <2>4, StepEffect
    <3> QED BY <2>1, <2>4, <3>1 DEF Due
  <2>5. CASE job.at \in {"tail", "load"}
    BY <2>1, <2>5 DEF Due
  <2> QED BY <2>1, <2>3, <2>4, <2>5
<1>4. ASSUME NEW d \in Days, DeriveBegin(d) PROVE Due'
  <2>1. job'.at = "bulk"
    BY <1>4, PhaseOrder DEF DeriveBegin
  <2> QED BY <2>1 DEF Due
<1>5. CASE Record \/ DeriveCrash
  BY <1>5 DEF Record, DeriveCrash, Idle, Due
<1> QED BY <1>1, <1>2, <1>3, <1>4, <1>5 DEF Next, DeriveNext, Ends, Goes

\* A derivation of the run recorded last finds nothing to do but to give a
\* group's products the set their group has by now.
LEMMA ResumedByEnd ==
  ASSUME FixInv, [Next]_vars, Ends, last # None
  PROVE  Resumed'
<1> USE DEF FixInv, TruthInv
<1> DEFINE F == last.cat
<1>1. /\ job.at \in Phase \ {"record"} /\ job.at # "idle" /\ job'.at = PhaseAfter(job.at)
      /\ job'.todo = Work(job'.at, cat') /\ job'.set = job.set /\ Replayed' = Replayed
      /\ job'.day = job.day /\ job'.run = job.run
      /\ cat \in Catalog /\ cat' \in Catalog /\ last' = last
  BY PhaseDone, PhaseEffect DEF TypeInv, TypeOK
<1>2. /\ job.day = last.day /\ job.run = last.run /\ Replayed = zone[last.day][last.run]
  BY <1>1 DEF Settled, Resumed, Replayed
<1>3. SUFFICES ASSUME ~Partial(Replayed)
               PROVE  Like(cat', F, Loaded') /\ job'.set = None /\ (job'.at = "tail" => job'.todo = {})
  BY <1>1, <1>2 DEF Resumed, Partial
<1>4. /\ Closed(F, job.day, Replayed) /\ Like(cat, F, Loaded) /\ job.set = None
  BY <1>1, <1>2, <1>3 DEF Settled, Resumed
<1>5. /\ Replayed \in Run /\ Replayed.groups \subseteq Sets /\ Replayed.bulk \subseteq Sets
      /\ Replayed.list \subseteq Sets /\ F \in Catalog
  BY <1>1, InProgress DEF TypeInv, TypeOK, Run
<1>6. job'.at = "tail" => job'.todo = {}
  <2>0. Replayed.sets = "whole"
    BY <1>3, <1>5 DEF Partial, Run
  <2>1. SUFFICES ASSUME job'.at = "tail" PROVE Missing(cat', Replayed.list) = {}
    BY <1>1, <2>0 DEF Work
  <2>2. \A s \in Sets : cat.row[s] = "stamped" => cat'.row[s] = "stamped"
    BY CatalogStep DEF TypeInv, Grows
  <2>3. \A s \in Replayed.list : cat.row[s] = "stamped"
    BY <1>4, <1>5 DEF Closed, Like
  <2> QED BY <1>5, <2>2, <2>3 DEF Missing
<1>7. Loaded' = Loaded
  <2>1. CASE job.at \in {"bulk", "tail"}
    BY <1>1, <2>1, PhaseOrder DEF Loaded
  <2>2. CASE job.at = "link"
    <3>1. job'.at = "load" /\ job'.todo = Replayed.groups
      BY <1>1, <2>2, PhaseOrder DEF Work
    <3> QED BY <1>1, <2>2, <3>1 DEF Loaded
  <2>3. CASE job.at = "load"
    <3>1. job.todo = {} /\ job'.at = "discover"
      BY <1>1, <2>3, PhaseEffect, PhaseOrder
    <3> QED BY <1>1, <2>3, <3>1 DEF Loaded
  <2>4. CASE job.at \in AfterLoad
    BY <1>1, <2>4, PhaseOrder, PhasesAfter DEF Loaded
  <2> QED BY <1>1, <2>1, <2>2, <2>3, <2>4, PhaseOrder, PhasesAfter
<1>8. /\ cat'.stock = cat.stock /\ cat'.prints = cat.prints
      /\ cat'.prices = cat.prices /\ cat'.prov = cat.prov
  BY PhaseEffect
<1> HIDE DEF F
<1>9. \A s \in Sets : cat.stock[s] # "none" <=> F.stock[s] # "none"
  <2>1. \A s \in Replayed.groups : F.group[s] # "none" /\ F.stock[s] # "none"
    BY <1>4 DEF Closed, Matched, Stocked
  <2>2. Loaded \subseteq Replayed.groups
    BY DEF Loaded
  <2> QED BY <1>4, <2>1, <2>2 DEF Like
<1>10. \A s \in Sets : cat'.row[s] = F.row[s]
  <2>1. CASE job.at = "bulk"
    BY <1>4, <1>5, <2>1, PhaseEffect DEF Closed, HasBulk, Like
  <2>2. CASE job.at = "link"
    BY <1>4, <1>5, <2>2, PhaseEffect DEF Closed, Matched, Like
  <2>3. CASE job.at \notin {"bulk", "link"}
    BY <1>4, <2>3, PhaseEffect DEF Like
  <2> QED BY <2>1, <2>2, <2>3
<1>11. \A s \in Sets : cat'.cards[s] = F.cards[s]
  <2>1. CASE job.at = "bulk"
    BY <1>4, <1>5, <2>1, PhaseEffect DEF Closed, HasBulk, Like
  <2>2. CASE job.at = "bridges"
    BY <1>4, <1>9, <2>2, PhaseEffect DEF Closed, Filled, Like, Stubs
  <2>3. CASE job.at \notin {"bulk", "bridges"}
    BY <1>4, <2>3, PhaseEffect DEF Like
  <2> QED BY <2>1, <2>2, <2>3
<1>12. \A s \in Sets : cat'.group[s] = F.group[s]
  <2>1. CASE job.at = "link"
    BY <1>4, <1>5, <1>10, <2>1, PhaseEffect DEF Closed, Matched, Like
  <2>2. CASE job.at # "link"
    BY <1>4, <2>2, PhaseEffect DEF Like
  <2> QED BY <2>1, <2>2
<1>13. \A s \in Sets : cat'.latest[s] = F.latest[s]
  <2>1. CASE job.at = "latest"
    <3>1. \A s \in Sets : Newest(cat, s) = Newest(F, s)
      BY <1>4, NewestOf DEF Like
    <3> QED BY <1>4, <2>1, <3>1, PhaseEffect DEF Closed, Priced
  <2>2. CASE job.at # "latest"
    BY <1>4, <2>2, PhaseEffect DEF Like
  <2> QED BY <2>1, <2>2
<1>14. cat'.alias = F.alias
  <2>1. CASE job.at = "seeds"
    <3>1. {s \in Sets : cat.row[s] # "none"} = {s \in Sets : F.row[s] # "none"}
      BY <1>4 DEF Like
    <3> QED BY <1>4, <2>1, <3>1, PhaseEffect DEF Closed, Aliased
  <2>2. CASE job.at # "seeds"
    BY <1>4, <2>2, PhaseEffect DEF Like
  <2> QED BY <2>1, <2>2
<1>15. Like(cat', F, Loaded)
  BY <1>4, <1>8, <1>10, <1>11, <1>12, <1>13, <1>14 DEF Like
<1> QED BY <1>1, <1>4, <1>6, <1>7, <1>15

LEMMA ResumedByStep ==
  ASSUME FixInv, [Next]_vars, Goes, last # None
  PROVE  Resumed' /\ last' = last
<1> USE DEF FixInv, TruthInv
<1> DEFINE F == last.cat
<1>1. /\ job \in JobRec /\ job.at \in {"tail", "load", "discover", "expand"} /\ job.at # "idle"
      /\ job'.at = job.at /\ job'.day = job.day /\ job'.run = job.run /\ Replayed' = Replayed
      /\ cat \in Catalog /\ cat' \in Catalog
  BY PhaseGoesOn, CatalogStep DEF TypeInv, TypeOK
<1>2. PICK s \in Sets : StampSet(s) \/ ImportCards(s) \/ LoadGroup(s) \/ Discover(s) \/ Expand(s)
  BY DEF Goes
<1>3. /\ job.day = last.day /\ job.run = last.run /\ Replayed = zone[last.day][last.run]
      /\ last' = last
  BY <1>1, <1>2, StepEffect DEF Settled, Resumed, Replayed
<1>4. SUFFICES ASSUME ~Partial(Replayed)
               PROVE  Like(cat', F, Loaded') /\ job'.set = None /\ (job'.at = "tail" => job'.todo = {})
  BY <1>1, <1>3 DEF Resumed, Partial
<1>5. /\ Closed(F, job.day, Replayed) /\ Like(cat, F, Loaded) /\ job.set = None
      /\ job.at = "tail" => job.todo = {}
  BY <1>1, <1>3, <1>4 DEF Settled, Resumed
<1>6. /\ Replayed \in Run /\ Replayed.groups \subseteq Sets
      /\ job.day \in Days
  BY <1>1, InProgress DEF TypeInv, TypeOK, Run, JobRec
<1> HIDE DEF F
<1>7. job.at # "tail"
  BY <1>2, <1>5, StepEffect, NoneIsNoSet
<1>8. /\ s \in job.todo /\ job'.set = None /\ job'.todo = job.todo \ {s}
      /\ cat'.alias = cat.alias /\ cat'.latest = cat.latest /\ cat'.prov = cat.prov
  BY <1>2, <1>5, <1>7, StepEffect
<1>9. CASE job.at = "load"
  <2>1. /\ cat'.row = cat.row /\ cat'.cards = cat.cards /\ cat'.group = cat.group
        /\ cat'.prints = cat.prints
        /\ cat'.stock = [cat.stock EXCEPT ![s] = cat.group[s]]
        /\ cat'.prices = [cat.prices EXCEPT ![job.day] = cat.prices[job.day] \cup {s}]
    BY <1>2, <1>9, StepEffect
  <2>2. s \in Replayed.groups /\ s \in F.prices[job.day]
    BY <1>5, <1>8, <1>9 DEF Due, Closed
  <2>3. Loaded' = Loaded \cup {s}
    BY <1>1, <1>8, <1>9, <2>2 DEF Loaded
  <2>4. \A d \in Days : cat'.prices[d] = F.prices[d]
    <3>1. \A d \in Days : cat.prices[d] = F.prices[d]
      BY <1>5 DEF Like
    <3>2. cat.prices[job.day] \cup {s} = cat.prices[job.day]
      BY <1>6, <2>2, <3>1
    <3>3. cat.prices \in [Days -> SUBSET Sets]
      BY <1>1 DEF Catalog
    <3> QED BY <2>1, <3>1, <3>2, <3>3
  <2>5. \A t \in Sets : cat'.stock[t] = IF t \in Loaded' THEN F.group[t] ELSE F.stock[t]
    <3>1. cat.stock \in [Sets -> {"none", "loose", "linked"}] /\ cat.group[s] = F.group[s]
      BY <1>1, <1>5 DEF Catalog, Like
    <3>2. \A t \in Sets : cat.stock[t] = IF t \in Loaded THEN F.group[t] ELSE F.stock[t]
      BY <1>5 DEF Like
    <3> HIDE DEF Loaded
    <3> QED BY <2>1, <2>3, <3>1, <3>2
  <2>6. /\ cat'.row = cat.row /\ cat'.cards = cat.cards /\ cat'.group = cat.group
        /\ cat'.prints = cat.prints
    BY <2>1
  <2>7. Like(cat', F, Loaded')
    BY <1>5, <1>8, <2>4, <2>5, <2>6 DEF Like
  <2> QED BY <1>1, <1>7, <1>8, <2>7
<1>10. CASE job.at = "discover"
  <2>1. cat.group[s] = "loose" /\ Loaded = Replayed.groups
    BY <1>8, <1>10 DEF Due, Loaded
  <2>2. F.group[s] = "loose" /\ cat.row[s] = F.row[s]
    BY <1>5, <2>1 DEF Like
  <2>3. cat.stock[s] # "none" => F.stock[s] # "none"
    BY <1>5, <2>1, <2>2 DEF Like, Closed, Stocked
  <2>4. ~Awaits(cat, s)
    BY <1>5, <2>2, <2>3 DEF Closed, Found, Awaits
  <2>5. cat' = cat
    BY <1>2, <1>10, <2>4, StepEffect
  <2> QED BY <1>1, <1>5, <1>7, <1>8, <1>10, <2>5 DEF Loaded
<1>11. CASE job.at = "expand"
  <2>1. /\ cat'.row = cat.row /\ cat'.cards = cat.cards /\ cat'.group = cat.group
        /\ cat'.stock = cat.stock /\ cat'.prices = cat.prices
        /\ cat'.prints = [cat.prints EXCEPT ![s] = Kind(cat, s)]
    BY <1>2, <1>11, StepEffect
  <2>2. Loaded = Replayed.groups /\ Loaded' = Loaded
    BY <1>1, <1>11 DEF Loaded
  <2>3. F.cards[s] # "none"
    BY <1>5, <1>8, <1>11 DEF Due, Like
  <2>4. Kind(cat, s) = Kind(F, s)
    <3>1. s \in Replayed.groups => F.group[s] # "none" /\ F.stock[s] # "none"
      BY <1>5 DEF Closed, Matched, Stocked
    <3> QED BY <1>5, <2>2, <3>1 DEF Kind, Like
  <2>5. \A t \in Sets : cat'.prints[t] = F.prints[t]
    BY <1>1, <1>5, <2>1, <2>3, <2>4 DEF Closed, Printed, Like, Catalog
  <2>6. Like(cat', F, Loaded')
    BY <1>5, <1>8, <2>1, <2>2, <2>5 DEF Like
  <2> QED BY <1>1, <1>7, <1>8, <2>6
<1> QED BY <1>1, <1>7, <1>9, <1>10, <1>11

\* The catalog of a whole run recorded is closed under its derivation.
LEMMA RecordedIsClosed ==
  ASSUME FixInv, [Next]_vars, Record, Exit # 1
  PROVE  /\ job.day \in Days /\ job.run \in DOMAIN zone[job.day]
         /\ last' = [day |-> job.day, run |-> job.run, cat |-> cat'] /\ zone' = zone /\ job' = Idle
         /\ cat' = [cat EXCEPT !.prov[job.day] = job.run] /\ cat'.prov[job.day] = job.run
         /\ ~Partial(Replayed) => Closed(cat', job.day, Replayed)
<1> USE DEF FixInv, TruthInv
<1>1. /\ job.at = "record" /\ job \in JobRec /\ job.run \in DOMAIN zone[job.day]
      /\ cat \in Catalog /\ cat' \in Catalog /\ Replayed \in Run
  BY InProgress, CatalogStep DEF Record, TypeInv, TypeOK
<1>2. /\ last' = [day |-> job.day, run |-> job.run, cat |-> cat'] /\ zone' = zone /\ job' = Idle
      /\ cat' = [cat EXCEPT !.prov[job.day] = job.run]
  BY DEF Record
<1>3. /\ job.day \in Days /\ cat'.prov[job.day] = job.run
      /\ cat'.row = cat.row /\ cat'.cards = cat.cards /\ cat'.group = cat.group
      /\ cat'.stock = cat.stock /\ cat'.prints = cat.prints /\ cat'.alias = cat.alias
      /\ cat'.prices = cat.prices /\ cat'.latest = cat.latest
  BY <1>1, <1>2 DEF JobRec, Catalog
<1>4. ASSUME ~Partial(Replayed) PROVE Closed(cat', job.day, Replayed)
  <2>1. ~job.failed
    BY <1>1, <1>4 DEF Exit, JobRec
  <2>2. /\ Replayed.groups \subseteq cat.prices[job.day]
        /\ \A s \in Replayed.list : cat.row[s] = "stamped"
    BY <1>1, <1>4, <2>1, PhasesAfter DEF Brought, Prices, Imported, Stamped
  <2>3. /\ HasBulk(cat, Replayed) /\ Matched(cat, Replayed) /\ Stocked(cat, Replayed.groups)
        /\ Found(cat, Sets) /\ Filled(cat) /\ Printed(cat, Sets) /\ Priced(cat) /\ Aliased(cat)
    BY <1>1, PhasesAfter DEF Attained
  <2>4. HasBulk(cat', Replayed) /\ Matched(cat', Replayed) /\ Stocked(cat', Replayed.groups)
    BY <1>3, <2>3 DEF HasBulk, Matched, Stocked
  <2>5. Found(cat', Sets) /\ Filled(cat') /\ Printed(cat', Sets)
    BY <1>3, <2>3 DEF Found, Awaits, Filled, Printed, Kind
  <2>6. Priced(cat')
    <3>1. \A s \in Sets : Newest(cat', s) = Newest(cat, s)
      BY <1>3, NewestOf
    <3> QED BY <1>3, <2>3, <3>1 DEF Priced
  <2>7. Aliased(cat')
    BY <1>3, <2>3 DEF Aliased
  <2> QED BY <1>3, <2>2, <2>4, <2>5, <2>6, <2>7 DEF Closed
<1> QED BY <1>1, <1>2, <1>3, <1>4

LEMMA SettledStep ==
  ASSUME FixInv, [Next]_vars
  PROVE  Settled'
<1> USE DEF FixInv, TruthInv
<1>1. /\ \A d \in Days : \A n \in DOMAIN zone[d] : n \in DOMAIN zone'[d] /\ zone'[d][n] = zone[d][n]
      /\ cat \in Catalog /\ (last # None => last.day \in Days)
  BY JobStep DEF TypeInv, TypeOK
\* What was recorded last stays what it was.
<1>2. ASSUME last' = last, last # None
      PROVE  /\ last'.run \in DOMAIN zone'[last'.day]
             /\ ~Partial(zone'[last'.day][last'.run]) =>
                  /\ Closed(last'.cat, last'.day, zone'[last'.day][last'.run])
                  /\ last'.cat.prov[last'.day] = last'.run
  <2>1. /\ last.run \in DOMAIN zone[last.day]
        /\ ~Partial(zone[last.day][last.run]) =>
             /\ Closed(last.cat, last.day, zone[last.day][last.run])
             /\ last.cat.prov[last.day] = last.run
    BY <1>2 DEF Settled
  <2>2. last.run \in DOMAIN zone'[last.day] /\ zone'[last.day][last.run] = zone[last.day][last.run]
    BY <1>1, <1>2, <2>1
  <2> QED BY <1>2, <2>1, <2>2
<1>3. CASE RefreshNext \/ UNCHANGED vars
  <2>1. job' = job /\ cat' = cat
    BY <1>3, RefreshIsApart
  <2>2. last' = last
    BY <1>3 DEF RefreshNext, LandBegin, LandSets, LandCards, LandTcgcsv, LandBulk, LandCut, Refresh,
                Finalize, vars
  <2>3. job.at # "idle" => Replayed' = Replayed
    BY <2>1, SameRun
  <2>4. Loaded' = Loaded \/ job.at = "idle"
    BY <2>1, <2>3 DEF Loaded
  <2>5. last # None /\ job.at # "idle" => Resumed'
    BY <2>1, <2>2, <2>3, <2>4 DEF Settled, Resumed, Partial
  <2>6. last # None /\ job.at = "idle" => cat = last.cat
    BY DEF Settled
  <2> QED BY <1>2, <2>1, <2>2, <2>5, <2>6 DEF Settled
<1>4. CASE Ends
  <2>1. last' = last /\ job'.at # "idle"
    BY <1>4, PhaseEffect, PhaseDone, PhaseOrder
  <2> QED BY <1>2, <1>4, <2>1, ResumedByEnd DEF Settled
<1>5. CASE Goes
  <2>1. job'.at # "idle"
    BY <1>5, PhaseGoesOn
  <2>2. last' = last
    BY <1>5, StepEffect DEF Goes
  <2> QED BY <1>2, <1>5, <2>1, <2>2, ResumedByStep DEF Settled
<1>6. ASSUME NEW d \in Days, DeriveBegin(d) PROVE Settled'
  <2>1. PICK n \in Chosen(zone[d]) :
          job' = [at |-> "bulk", day |-> d, run |-> n, todo |-> {}, set |-> None, failed |-> FALSE]
    BY <1>6, PhaseOrder DEF DeriveBegin
  <2>2. SUFFICES ASSUME last' # None PROVE Settled'
    BY DEF Settled
  <2>3. /\ last' = last /\ last # None /\ last.day = d /\ last.run = n
        /\ job.at = "idle" /\ zone' = zone /\ cat' = Seeded(cat)
    BY <1>6, <2>1, <2>2 DEF DeriveBegin
  <2>4. cat = last.cat
    BY <2>3 DEF Settled
  <2>5. ASSUME ~Partial(Replayed') PROVE Like(cat', last.cat, {})
    <3>1. Replayed' = zone[last.day][last.run]
      BY <2>1, <2>3 DEF Replayed
    <3>2. Aliased(cat)
      BY <2>3, <2>4, <2>5, <3>1 DEF Settled, Closed, Partial
    <3>3. cat' = cat
      <4>1. cat' = [cat EXCEPT !.alias = cat.alias]
        BY <2>3, <3>2 DEF Seeded, Aliased
      <4> QED BY <1>1, <4>1 DEF Catalog
    <3> QED BY <2>4, <3>3 DEF Like
  <2>6. Loaded' = {} /\ job'.at = "bulk" /\ job'.day = d /\ job'.run = n /\ job'.set = None
    BY <2>1 DEF Loaded
  <2>7. Resumed'
    BY <2>3, <2>5, <2>6 DEF Resumed, Partial
  <2> QED BY <1>2, <2>3, <2>6, <2>7 DEF Settled
<1>7. CASE Record
  <2>1. CASE Exit = 1
    BY <1>7, <2>1 DEF Record, Settled
  <2>2. CASE Exit # 1
    <3>1. /\ job.run \in DOMAIN zone[job.day]
          /\ last' = [day |-> job.day, run |-> job.run, cat |-> cat'] /\ zone' = zone /\ job' = Idle
          /\ cat'.prov[job.day] = job.run
          /\ ~Partial(Replayed) => Closed(cat', job.day, Replayed)
      BY <1>7, <2>2, RecordedIsClosed
    <3>2. /\ last'.day = job.day /\ last'.run = job.run /\ last'.cat = cat' /\ job'.at = "idle"
          /\ zone'[last'.day][last'.run] = Replayed
      BY <3>1 DEF Replayed, Idle
    <3> QED BY <3>1, <3>2 DEF Settled
  <2> QED BY <2>1, <2>2
<1>8. CASE DeriveCrash
  BY <1>8 DEF DeriveCrash, Settled
<1> QED BY <1>3, <1>4, <1>5, <1>6, <1>7, <1>8 DEF Next, DeriveNext, Ends, Goes

LEMMA FixInit == Init => FixInv
<1> SUFFICES ASSUME Init PROVE FixInv
  OBVIOUS
<1>1. TypeInv
  BY TypeInit
<1>2. Brought /\ Told /\ ProvenanceHolds
  BY DEF Init, Brought, Told, ProvenanceHolds, Idle
<1>3. Attained /\ Due /\ Settled
  BY DEF Init, Attained, Due, Settled, Idle
<1> QED BY <1>1, <1>2, <1>3 DEF FixInv, TruthInv

LEMMA FixStep ==
  ASSUME FixInv, [Next]_vars
  PROVE  FixInv'
<1>1. TypeInv' /\ Brought' /\ Told' /\ ProvenanceHolds'
  BY TypeStep, BroughtStep, TruthStep DEF FixInv, TruthInv
<1>2. Attained' /\ Due' /\ Settled'
  BY AttainedStep, DueStep, SettledStep DEF FixInv, TruthInv
<1> QED BY <1>1, <1>2 DEF FixInv, TruthInv

\* A step that records a whole run again.
LEMMA RecordedAgain ==
  ASSUME FixInv, [Next]_vars, Recorded, Again
  PROVE  cat' = Caught(last.cat)
<1> USE DEF FixInv, TruthInv
<1> DEFINE F == last.cat
<1>1. Record /\ Exit # 1
  <2>1. job.at = "record" /\ job'.at = "idle" /\ last' # None
    BY DEF Recorded
  <2>2. ~Ends /\ ~Goes
    BY <2>1, PhaseDone, PhaseGoesOn
  <2>3. ~RefreshNext /\ ~UNCHANGED vars
    BY <2>1, RefreshIsApart
  <2>4. \A d \in Days : ~DeriveBegin(d)
    BY <2>1 DEF DeriveBegin
  <2>5. ~DeriveCrash
    BY <2>1 DEF DeriveCrash
  <2>6. Record
    BY <2>2, <2>3, <2>4, <2>5 DEF Next, DeriveNext, Ends, Goes
  <2> QED BY <2>1, <2>6 DEF Record
<1>2. /\ job.at = "record" /\ job.day \in Days /\ job.run \in DOMAIN zone[job.day]
      /\ cat' = [cat EXCEPT !.prov[job.day] = job.run]
  BY <1>1, RecordedIsClosed DEF Record
<1>3. last # None /\ last.day = job.day /\ last.run = job.run /\ ~Partial(Replayed)
  BY DEF Again
<1>4. cat \in Catalog /\ cat' \in Catalog /\ F \in Catalog
  BY <1>3, CatalogStep DEF TypeInv, TypeOK
<1>5. Like(cat, F, Replayed.groups) /\ F.prov[job.day] = job.run
  BY <1>2, <1>3 DEF Settled, Resumed, Replayed, Loaded
<1> HIDE DEF F
<1>6. cat' = cat
  <2>1. cat.prov[job.day] = job.run /\ cat.prov \in [Days -> 0..MaxRuns]
    BY <1>2, <1>4, <1>5 DEF Like, Catalog
  <2>2. [cat.prov EXCEPT ![job.day] = job.run] = cat.prov
    BY <1>2, <2>1
  <2>3. cat' = [cat EXCEPT !.prov = cat.prov]
    BY <1>2, <2>2
  <2> QED BY <1>4, <2>3 DEF Catalog
<1> DEFINE stock == [s \in Sets |-> IF s \in Replayed.groups THEN F.group[s] ELSE F.stock[s]]
           G == [F EXCEPT !.stock = stock]
<1>7. stock \in [Sets -> {"none", "loose", "linked"}]
  BY <1>4 DEF Catalog
<1>8. \A s \in Sets : stock[s] = IF s \in Replayed.groups THEN F.group[s] ELSE F.stock[s]
  OBVIOUS
<1> HIDE DEF stock
<1>9. /\ G \in Catalog /\ G.stock = stock
      /\ G.row = F.row /\ G.cards = F.cards /\ G.group = F.group /\ G.prints = F.prints
      /\ G.alias = F.alias /\ G.prices = F.prices /\ G.latest = F.latest /\ G.prov = F.prov
  BY <1>4, <1>7 DEF Catalog
<1> HIDE DEF G
<1>10. Like(cat, G, {})
  BY <1>5, <1>8, <1>9 DEF Like
<1>11. cat = G
  BY <1>4, <1>9, <1>10, SameCatalog
<1> QED BY <1>6, <1>11 DEF Caught, G, stock, F

\* Deriving the same whole run again changes nothing but its provenance, and
\* the set of the products whose group the first derivation discovered.
THEOREM SecondDeriveIsFixed == Spec => FixedPoint
<1>1. FixInv /\ [Next]_vars => [Recorded /\ Again => cat' = Caught(last.cat)]_vars
  BY RecordedAgain
<1> QED BY FixInit, FixStep, <1>1, PTL DEF Spec, FixedPoint
=============================================================================
