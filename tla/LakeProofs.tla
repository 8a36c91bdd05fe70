----------------------------- MODULE LakeProofs -----------------------------
(***************************************************************************)
(* What the two price tables of the lake promise for any number of days,   *)
(* products, builds at work and runs landed: every commit replaces one day *)
(* of one table by what one build wrote, and two tables that hold          *)
(* different builds of a day are never left unreported.                    *)
(*                                                                         *)
(* A commit goes through only on the snapshot it was planned from.  So the *)
(* invariant says that a snapshot a builder still finds at the head has    *)
(* the files it had when it was loaded (Snapshots), and that of a build    *)
(* between its two commits one of three things holds, as long as its       *)
(* second commit can succeed (Halves): the first table still holds what it *)
(* wrote, the day was torn, or another build stands between its commits on *)
(* the same day.                                                           *)
(*                                                                         *)
(* And that the two readers of a run agree: shared.sqlite, which takes the *)
(* entries of a night one by one, and the lake, which reduces the night at *)
(* once.  What holds of every prefix of the entries is shown of the least  *)
(* entry at which it would not hold.  Derived says of each row of          *)
(* shared.sqlite which derivation asked for it and what it wrote.          *)
(*                                                                         *)
(* And what Valuation, which reads both tables at one commit, promises of  *)
(* the values it writes.                                                   *)
(***************************************************************************)
EXTENDS Lake, Valuation, FiniteSetTheorems, WellFoundedInduction, TLAPS

-----------------------------------------------------------------------------
(* Runs and files. *)

\* A non-empty set of naturals with a bound has a greatest element.
LEMMA GreatestOf ==
  ASSUME NEW n \in Nat, NEW S \in SUBSET (1 .. n), S # {}
  PROVE  Greatest(S) \in S
<1> DEFINE T == {n - x : x \in S}
           R == {ss \in Nat \X Nat : ss[1] < ss[2]}
<1>1. T \subseteq Nat /\ T # {}
  <2>1. \A x \in S : n - x \in Nat
    OBVIOUS
  <2> QED BY <2>1
<1>2. PICK m \in T : \A k \in T : m <= k
  <2>1. IsWellFoundedOn(R, Nat)
    BY NatLessThanWellFounded DEF OpToRel
  <2>2. \E m \in T : \A k \in T : <<k, m>> \notin R
    <3> HIDE DEF T, R
    <3> QED BY <1>1, <2>1, WFMin
  <2>3. \A m, k \in Nat : <<k, m>> \notin R => m <= k
    OBVIOUS
  <2> HIDE DEF T, R
  <2> QED BY <1>1, <2>2, <2>3
<1>3. PICK x \in S : m = n - x
  BY <1>2
<1>4. ASSUME NEW y \in S PROVE x >= y
  <2>1. m <= n - y
    BY <1>2
  <2> QED BY <1>3, <2>1
<1> QED BY <1>4 DEF Greatest

\* The runs a reading takes are among the runs of its date.
LEMMA SelectsLanded ==
  ASSUME NEW d \in Days, landed[d] \in Seq(Run)
  PROVE  select_runs(d) \subseteq DOMAIN landed[d]
<1> DEFINE whole == {n \in DOMAIN landed[d] : landed[d][n].complete}
<1>1. DOMAIN landed[d] = 1 .. Len(landed[d]) /\ Len(landed[d]) \in Nat
  OBVIOUS
<1>2. whole # {} => Greatest(whole) \in whole
  <2>1. whole \in SUBSET (1 .. Len(landed[d]))
    BY <1>1
  <2> HIDE DEF whole
  <2> QED BY <1>1, <2>1, GreatestOf
<1> QED BY <1>2 DEF select_runs

\* The runs of file f are on disk.
OnDisk(f) == f.day \in Days /\ f.products \cup f.prices \subseteq DOMAIN landed[f.day]

Grows == \A d \in Days : /\ DOMAIN landed[d] \subseteq DOMAIN landed'[d]
                         /\ \A n \in DOMAIN landed[d] : landed'[d][n] = landed[d][n]

\* What was read of a date stays what it was, whatever lands after.
LEMMA RowsStay ==
  ASSUME landed \in [Days -> Seq(Run)], Grows, NEW f, OnDisk(f), NEW t
  PROVE  OnDisk(f)' /\ RowsOf(t, f)' = RowsOf(t, f) /\ Written(t, f)' = Written(t, f)
<1> DEFINE d == f.day
           runs == f.prices
<1>1. /\ d \in Days /\ Len(landed[d]) \in Nat
      /\ runs \subseteq 1 .. Len(landed[d])
  BY DEF OnDisk
<1>2. \A n \in f.products \cup runs : Body_(d, n)' = Body_(d, n)
  BY <1>1 DEF OnDisk, Grows, Body_
<1>3. sealed_product_ids(d, f.products)' = sealed_product_ids(d, f.products)
  BY <1>2 DEF sealed_product_ids
<1> HIDE DEF d, runs
<1>4. read_date(d, runs)' = read_date(d, runs)
  <2> DEFINE by(g) == {n \in runs : Quoting(Body_(d, n), g) # {}}
             price(g) == LET b == Body_(d, Greatest(by(g))) IN b.entries[Least(Quoting(b, g))].quotes[g[3]]
             S == {g \in Grain : by(g) # {}}
  <2>1. \A g : by(g)' = by(g)
    BY <1>2 DEF Quoting
  <2>2. ASSUME NEW g, by(g) # {} PROVE price(g)' = price(g)
    <3> DEFINE n == Greatest(by(g))
    <3>1. n \in runs
      <4>1. by(g) \in SUBSET (1 .. Len(landed[d])) /\ by(g) \subseteq runs
        BY <1>1
      <4> HIDE DEF by
      <4> QED BY <1>1, <2>2, <4>1, GreatestOf
    <3>2. n' = n
      <4> HIDE DEF by
      <4> QED BY <2>1 DEF Greatest
    <3> HIDE DEF n
    <3>3. Body_(d, n)' = Body_(d, n)
      BY <1>2, <3>1, <3>2
    <3> DEFINE b == Body_(d, n)
               q == b.entries[Least(Quoting(b, g))].quotes[g[3]]
    <3>4. price(g) = q /\ price(g)' = q'
      BY DEF n
    <3>5. q' = q
      BY <3>2, <3>3
    <3> QED BY <3>4, <3>5
  <2> HIDE DEF by, price
  <2>3. S' = S /\ \A g \in S : price(g)' = price(g)
    BY <2>1, <2>2
  <2> HIDE DEF S
  <2>4. [g \in S |-> price(g)]' = [g \in S |-> price(g)]
    BY <2>3
  <2> QED BY <2>4 DEF read_date, S, by, price
<1>5. ASSUME NEW ids PROVE read_sealed(d, runs, ids)' = read_sealed(d, runs, ids)
  <2> DEFINE by(p) == {n \in runs : Mentions(Body_(d, n), p) # {}}
             entry(p) == LET b == Body_(d, Greatest(by(p))) IN b.entries[Least(Mentions(b, p))].quotes
             S == {j \in ids \X PriceTypes : by(j[1]) # {} /\ entry(j[1])[j[2]] # NoPrice}
  <2>1. \A p : by(p)' = by(p)
    BY <1>2 DEF Mentions
  <2>2. ASSUME NEW p, by(p) # {} PROVE entry(p)' = entry(p)
    <3> DEFINE n == Greatest(by(p))
    <3>1. n \in runs
      <4>1. by(p) \in SUBSET (1 .. Len(landed[d])) /\ by(p) \subseteq runs
        BY <1>1
      <4> HIDE DEF by
      <4> QED BY <1>1, <2>2, <4>1, GreatestOf
    <3>2. n' = n
      <4> HIDE DEF by
      <4> QED BY <2>1 DEF Greatest
    <3> HIDE DEF n
    <3>3. Body_(d, n)' = Body_(d, n)
      BY <1>2, <3>1, <3>2
    <3> QED BY <3>3 DEF n, Mentions, Least
  <2> HIDE DEF by, entry
  <2>3. S' = S /\ \A k \in S : entry(k[1])' = entry(k[1])
    BY <2>1, <2>2
  <2> HIDE DEF S
  <2>4. [k \in S |-> entry(k[1])[k[2]]]' = [k \in S |-> entry(k[1])[k[2]]]
    BY <2>3
  <2> QED BY <2>4 DEF read_sealed, S, by, entry
<1>6. RowsOf(t, f)' = RowsOf(t, f)
  BY <1>3, <1>4, <1>5 DEF RowsOf, d, runs
<1>7. OnDisk(f)'
  BY DEF OnDisk, Grows
<1> QED BY <1>6, <1>7 DEF Written

-----------------------------------------------------------------------------
(* The invariant. *)

Snapshot == [files : SUBSET File, snap : Nat]

Progress ==
    {Idle}
      \cup [phase : {"products"}, day : Days, products : Choice]
      \cup [phase : {"read"}, file : File]
      \cup [phase : {"loaded", "half"}, file : File, base : [Tables -> Snapshot]]

LakeTypeOK ==
    /\ landed \in [Days -> Seq(Run)]
    /\ tables \in [Tables -> Snapshot]
    /\ head \in Nat
    /\ build \in [Builders -> Progress]
    /\ torn \subseteq Days

AllLanded == UNION {{d} \X DOMAIN landed[d] : d \in Days}

\* No run has a number that is not a choice.
Counted == IsFiniteSet(AllLanded) /\ Cardinality(AllLanded) <= MaxLandings

\* Nothing is in a table, or about to be, but what was read of runs that are there.
AllRead ==
    /\ \A t \in Tables : \A f \in tables[t].files : OnDisk(f)
    /\ \A b \in Builders :
         /\ build[b].phase = "products" => build[b].products \subseteq DOMAIN landed[build[b].day]
         /\ build[b].phase \in {"read", "loaded", "half"} => OnDisk(build[b].file)

\* A table has one file of a day at most, and none without rows.
OneFileADay ==
    \A t \in Tables : \A f \in tables[t].files :
        Written(t, f) = {f} /\ \A g \in tables[t].files : g.day = f.day => g = f

\* A snapshot still at the head has the files it had when it was loaded.
Snapshots ==
    \A t \in Tables :
        /\ tables[t].snap <= head
        /\ \A b \in Builders : build[b].phase \in {"loaded", "half"} =>
             /\ build[b].base[t].snap <= head
             /\ Unmoved(t, b) => build[b].base[t].files = tables[t].files

Between(b, d) == build[b].phase = "half" /\ build[b].file.day = d

Halves ==
    \A b \in Builders : build[b].phase = "half" /\ Unmoved("sealed", b) =>
        LET f == build[b].file IN
        \/ FilesOf("prices", f.day) = Written("prices", f)
        \/ f.day \in torn
        \/ \E c \in Builders \ {b} : Between(c, f.day)

LakeInv ==
    /\ LakeTypeOK /\ Counted /\ AllRead /\ OneFileADay /\ Snapshots
    /\ Halves /\ SplitsAreReported

\* A builder's record by its phase.
LEMMA ByPhase ==
  ASSUME LakeTypeOK, NEW b \in Builders
  PROVE  /\ build[b].phase = "products" => /\ build[b].day \in Days /\ build[b].products \in Choice
         /\ build[b].phase \in {"read", "loaded", "half"} => build[b].file \in File
         /\ build[b].phase \in {"loaded", "half"} =>
              /\ build[b].base \in [Tables -> Snapshot]
              /\ build[b] = [phase |-> build[b].phase, file |-> build[b].file, base |-> build[b].base]
<1>1. build[b] \in Progress
  BY DEF LakeTypeOK
<1> QED BY <1>1 DEF Progress, Idle

\* Runs on disk are choices.
LEMMA ChoicesOnDisk ==
  ASSUME LakeTypeOK, Counted, NEW d \in Days
  PROVE  select_runs(d) \in Choice /\ select_runs(d) \subseteq DOMAIN landed[d]
<1>1. landed[d] \in Seq(Run) /\ Len(landed[d]) \in Nat /\ DOMAIN landed[d] = 1 .. Len(landed[d])
  BY DEF LakeTypeOK
<1>2. Cardinality({d} \X DOMAIN landed[d]) = Len(landed[d])
  <2>1. IsFiniteSet({d}) /\ Cardinality({d}) = 1
    BY FS_Singleton
  <2>2. IsFiniteSet(1 .. Len(landed[d])) /\ Cardinality(1 .. Len(landed[d])) = Len(landed[d])
    BY <1>1, FS_Interval
  <2>3. Cardinality({d} \X (1 .. Len(landed[d]))) = Cardinality({d}) * Cardinality(1 .. Len(landed[d]))
    BY <2>1, <2>2, FS_Product
  <2> QED BY <1>1, <2>1, <2>2, <2>3
<1>3. Cardinality({d} \X DOMAIN landed[d]) <= Cardinality(AllLanded) /\ Cardinality(AllLanded) \in Nat
  <2>1. {d} \X DOMAIN landed[d] \subseteq AllLanded
    BY DEF AllLanded
  <2> QED BY <2>1, FS_Subset, FS_CardinalityType DEF Counted
<1>4. Len(landed[d]) <= MaxLandings
  BY <1>1, <1>2, <1>3, LakeAssumption DEF Counted
<1>5. select_runs(d) \subseteq 1 .. Len(landed[d])
  BY <1>1, SelectsLanded
<1> QED BY <1>1, <1>4, <1>5, LakeAssumption DEF Choice

\* One run more.
LEMMA LandGrows ==
  ASSUME LakeTypeOK, Counted, Land
  PROVE  landed' \in [Days -> Seq(Run)] /\ Grows /\ Counted'
<1>1. PICK d \in Days, x \in Run :
         /\ Logged(landed) < MaxLandings
         /\ landed' = [landed EXCEPT ![d] = Append(landed[d], x)]
  BY DEF Land, Run
<1>2. /\ landed[d] \in Seq(Run) /\ Append(landed[d], x) \in Seq(Run)
      /\ DOMAIN Append(landed[d], x) = DOMAIN landed[d] \cup {Len(landed[d]) + 1}
      /\ \A n \in DOMAIN landed[d] : Append(landed[d], x)[n] = landed[d][n]
  BY <1>1 DEF LakeTypeOK
<1>3. landed' \in [Days -> Seq(Run)] /\ Grows
  BY <1>1, <1>2 DEF LakeTypeOK, Grows
<1>4. Counted'
  <2> DEFINE e == <<d, Len(landed[d]) + 1>>
  <2>1. AllLanded' = AllLanded \cup {e}
    <3>1. DOMAIN landed'[d] = DOMAIN landed[d] \cup {Len(landed[d]) + 1}
      BY <1>1, <1>2 DEF LakeTypeOK
    <3>2. \A c \in Days \ {d} : landed'[c] = landed[c]
      BY <1>1 DEF LakeTypeOK
    <3>3. \A c : c \in AllLanded' => c \in AllLanded \cup {e}
      BY <3>1, <3>2 DEF AllLanded
    <3>4. \A c : c \in AllLanded => c \in AllLanded'
      BY <3>1, <3>2 DEF AllLanded
    <3>5. e \in AllLanded'
      BY <3>1 DEF AllLanded
    <3> QED BY <3>3, <3>4, <3>5
  <2>2. Cardinality(AllLanded) < MaxLandings /\ Cardinality(AllLanded) \in Nat
    BY <1>1, FS_CardinalityType DEF Counted, Logged, AllLanded
  <2> HIDE DEF e
  <2>3. /\ IsFiniteSet(AllLanded \cup {e})
        /\ \/ Cardinality(AllLanded \cup {e}) = Cardinality(AllLanded)
           \/ Cardinality(AllLanded \cup {e}) = Cardinality(AllLanded) + 1
    BY FS_AddElement DEF Counted
  <2> QED BY <2>1, <2>2, <2>3, LakeAssumption DEF Counted
<1> QED BY <1>3, <1>4

\* A commit replaces the files of its day in its table by what its build wrote.
LEMMA CommitReplaces ==
  ASSUME LakeTypeOK, NEW t \in Tables, NEW base \in [Tables -> Snapshot], NEW f \in File,
         base[t].files = tables[t].files, Commit(t, base, f)
  PROVE  /\ head' = head + 1 /\ head' \in Nat
         /\ tables' \in [Tables -> Snapshot]
         /\ tables'[t].snap = head' /\ tables'[t].files = plan(t, tables[t], f)
         /\ \A u \in Tables \ {t} : tables'[u] = tables[u]
         /\ FilesOf(t, f.day)' = Written(t, f)
         /\ \A d \in Days \ {f.day} : FilesOf(t, d)' = FilesOf(t, d)
         /\ \A u \in Tables \ {t}, d \in Days : FilesOf(u, d)' = FilesOf(u, d)
<1>1. /\ head' = head + 1 /\ head' \in Nat
      /\ tables' = [tables EXCEPT ![t] = [files |-> plan(t, base[t], f), snap |-> head']]
  BY DEF Commit, LakeTypeOK
<1>2. plan(t, base[t], f) = plan(t, tables[t], f)
  BY DEF plan
<1>3. tables[t].files \subseteq File
  BY DEF LakeTypeOK, Snapshot
<1>4. plan(t, tables[t], f) = {g \in tables[t].files : g.day # f.day} \cup Written(t, f)
  BY DEF plan, Written
<1>5. Written(t, f) \subseteq {f}
  BY DEF Written
<1> DEFINE s == [files |-> plan(t, tables[t], f), snap |-> head']
<1>6. s \in Snapshot
  BY <1>1, <1>3, <1>4, <1>5 DEF Snapshot
<1>7. s.files = plan(t, tables[t], f) /\ s.snap = head' /\ tables' = [tables EXCEPT ![t] = s]
  BY <1>1, <1>2
<1> HIDE DEF s
<1>8. /\ tables' \in [Tables -> Snapshot] /\ tables'[t] = s
      /\ \A u \in Tables \ {t} : tables'[u] = tables[u]
  BY <1>6, <1>7 DEF LakeTypeOK
<1>9. FilesOf(t, f.day)' = Written(t, f)
  BY <1>4, <1>5, <1>7, <1>8 DEF FilesOf
<1>10. \A d \in Days \ {f.day} : FilesOf(t, d)' = FilesOf(t, d)
  BY <1>4, <1>5, <1>7, <1>8 DEF FilesOf
<1>11. \A u \in Tables \ {t}, d \in Days : FilesOf(u, d)' = FilesOf(u, d)
  BY <1>8 DEF FilesOf
<1> QED BY <1>1, <1>7, <1>8, <1>9, <1>10, <1>11

\* The two commits, each on the snapshot it was planned from.
LEMMA PricesCommitted ==
  ASSUME LakeTypeOK, Snapshots, NEW b \in Builders, CommitPrices(b)
  PROVE  /\ build[b].phase = "loaded" /\ build[b].file \in File /\ build[b].base \in [Tables -> Snapshot]
         /\ build[b].base["prices"].files = tables["prices"].files
         /\ Commit("prices", build[b].base, build[b].file)
         /\ build' = [build EXCEPT ![b] = [phase |-> "half", file |-> build[b].file, base |-> build[b].base]]
         /\ UNCHANGED <<landed, torn, sqlite, imports>>
<1>1. build[b].phase = "loaded" /\ Unmoved("prices", b) /\ "prices" \in Tables
  BY DEF CommitPrices, Tables
<1>2. /\ build[b].file \in File /\ build[b].base \in [Tables -> Snapshot]
      /\ build[b] = [phase |-> build[b].phase, file |-> build[b].file, base |-> build[b].base]
  BY <1>1, ByPhase
<1>3. build[b].base["prices"].files = tables["prices"].files
  BY <1>1 DEF Snapshots
<1>4. [build[b] EXCEPT !.phase = "half"] = [phase |-> "half", file |-> build[b].file, base |-> build[b].base]
  BY <1>2
<1> QED BY <1>1, <1>2, <1>3, <1>4 DEF CommitPrices, Step

LEMMA SealedCommitted ==
  ASSUME LakeTypeOK, Snapshots, NEW b \in Builders, CommitSealed(b)
  PROVE  /\ build[b].phase = "half" /\ build[b].file \in File /\ build[b].base \in [Tables -> Snapshot]
         /\ build[b].base["sealed"].files = tables["sealed"].files /\ Unmoved("sealed", b)
         /\ Commit("sealed", build[b].base, build[b].file)
         /\ build' = [build EXCEPT ![b] = Idle]
         /\ UNCHANGED <<landed, sqlite, imports>> /\ Mend(b)
<1>1. build[b].phase = "half" /\ Unmoved("sealed", b) /\ "sealed" \in Tables
  BY DEF CommitSealed, Tables
<1>2. /\ build[b].file \in File /\ build[b].base \in [Tables -> Snapshot]
  BY <1>1, ByPhase
<1>3. build[b].base["sealed"].files = tables["sealed"].files
  BY <1>1 DEF Snapshots
<1> QED BY <1>1, <1>2, <1>3 DEF CommitSealed, Step

-----------------------------------------------------------------------------
(* Types. *)

\* What a builder that is not committing becomes.
LEMMA BuildTypes ==
  ASSUME LakeTypeOK, NEW b \in Builders, NEW rec \in Progress, Step(b, rec)
  PROVE  build' \in [Builders -> Progress] /\ build'[b] = rec /\ \A c \in Builders \ {b} : build'[c] = build[c]
BY DEF LakeTypeOK, Step

LEMMA LakeTypes == LakeTypeOK /\ Counted /\ Snapshots /\ [LakeNext]_lakeVars => LakeTypeOK' /\ Counted'
<1> SUFFICES ASSUME LakeTypeOK, Counted, Snapshots, [LakeNext]_lakeVars PROVE LakeTypeOK' /\ Counted'
  OBVIOUS
<1>1. CASE Land
  BY <1>1, LandGrows DEF Land, LakeTypeOK
<1>2. ASSUME UNCHANGED <<landed, tables, head, torn>>, build' \in [Builders -> Progress]
      PROVE  LakeTypeOK' /\ Counted'
  BY <1>2 DEF LakeTypeOK, Counted, AllLanded
<1>3. CASE Derive
  BY <1>2, <1>3 DEF Derive, LakeTypeOK
<1>4. ASSUME NEW b \in Builders, ReadProducts(b) PROVE LakeTypeOK' /\ Counted'
  <2>1. PICK d \in Days : Step(b, [phase |-> "products", day |-> d, products |-> select_runs(d)])
    BY <1>4 DEF ReadProducts
  <2>2. [phase |-> "products", day |-> d, products |-> select_runs(d)] \in Progress
    BY ChoicesOnDisk DEF Progress
  <2> QED BY <1>2, <1>4, <2>1, <2>2, BuildTypes DEF ReadProducts
<1>5. ASSUME NEW b \in Builders, ReadPrices(b) PROVE LakeTypeOK' /\ Counted'
  <2> DEFINE f == [day |-> build[b].day, products |-> build[b].products, prices |-> select_runs(build[b].day)]
  <2>1. Step(b, [phase |-> "read", file |-> f])
    BY <1>5 DEF ReadPrices
  <2>2. f \in File
    BY <1>5, ByPhase, ChoicesOnDisk DEF ReadPrices, File
  <2> HIDE DEF f
  <2>3. [phase |-> "read", file |-> f] \in Progress
    BY <2>2 DEF Progress
  <2> QED BY <1>2, <1>5, <2>1, <2>3, BuildTypes DEF ReadPrices
<1>6. ASSUME NEW b \in Builders, LoadTables(b) PROVE LakeTypeOK' /\ Counted'
  <2>1. [phase |-> "loaded", file |-> build[b].file, base |-> tables] \in Progress
    BY <1>6, ByPhase DEF LoadTables, LakeTypeOK, Progress
  <2> QED BY <1>2, <1>6, <2>1, BuildTypes DEF LoadTables
<1>7. ASSUME NEW b \in Builders, CommitPrices(b) PROVE LakeTypeOK' /\ Counted'
  <2> "prices" \in Tables
    BY DEF Tables
  <2>1. tables' \in [Tables -> Snapshot] /\ head' \in Nat
    BY <1>7, PricesCommitted, CommitReplaces
  <2>2. [phase |-> "half", file |-> build[b].file, base |-> build[b].base] \in Progress
    BY <1>7, PricesCommitted DEF Progress
  <2>3. build' \in [Builders -> Progress]
    BY <1>7, <2>2, PricesCommitted DEF LakeTypeOK
  <2>4. UNCHANGED <<landed, torn>>
    BY <1>7, PricesCommitted
  <2> QED BY <2>1, <2>3, <2>4 DEF LakeTypeOK, Counted, AllLanded
<1>8. ASSUME NEW b \in Builders, CommitSealed(b) PROVE LakeTypeOK' /\ Counted'
  <2> "sealed" \in Tables
    BY DEF Tables
  <2>1. tables' \in [Tables -> Snapshot] /\ head' \in Nat
    BY <1>8, SealedCommitted, CommitReplaces
  <2>2. build' \in [Builders -> Progress]
    BY <1>8, SealedCommitted DEF LakeTypeOK, Progress
  <2>3. torn' \subseteq Days
    BY <1>8, SealedCommitted DEF Mend, LakeTypeOK
  <2>4. landed' = landed
    BY <1>8, SealedCommitted
  <2> QED BY <2>1, <2>2, <2>3, <2>4 DEF LakeTypeOK, Counted, AllLanded
<1>9. ASSUME NEW b \in Builders, Refused(b) \/ Die(b) PROVE LakeTypeOK' /\ Counted'
  <2>1. build' \in [Builders -> Progress]
    BY <1>9 DEF Refused, Die, Step, LakeTypeOK, Progress
  <2>2. torn' \subseteq Days
    <3>1. build[b].phase = "half" => build[b].file.day \in Days
      BY ByPhase DEF File
    <3> QED BY <1>9, <3>1 DEF Refused, Die, Tear, LakeTypeOK
  <2> QED BY <1>9, <2>1, <2>2 DEF Refused, Die, LakeTypeOK, Counted, AllLanded
<1>10. CASE UNCHANGED lakeVars
  BY <1>2, <1>10 DEF lakeVars, LakeTypeOK
<1> QED BY <1>1, <1>3, <1>4, <1>5, <1>6, <1>7, <1>8, <1>9, <1>10 DEF LakeNext

-----------------------------------------------------------------------------
(* Steps without a commit. *)

\* The runs grow and the tables stay; a builder that gives up between its commits
\* leaves its day torn, and one that goes on has read runs that are there.
Quiet ==
    /\ Grows /\ UNCHANGED <<tables, head>> /\ torn \subseteq torn'
    /\ \A b \in Builders : build'[b] # build[b] =>
         /\ build[b].phase = "half" => build[b].file.day \in torn'
         /\ \/ build'[b] = Idle
            \/ build'[b].phase = "products" /\ build'[b].products \subseteq DOMAIN landed[build'[b].day]
            \/ build'[b].phase = "read" /\ OnDisk(build'[b].file)
            \/ build'[b].phase = "loaded" /\ OnDisk(build'[b].file) /\ build'[b].base = tables

LEMMA QuietSteps ==
  ASSUME LakeTypeOK, Counted, AllRead, [LakeNext]_lakeVars,
         ~ \E b \in Builders : CommitPrices(b) \/ CommitSealed(b)
  PROVE  Quiet
<1>1. CASE Land
  BY <1>1, LandGrows DEF Quiet, Land
<1>2. CASE Derive
  BY <1>2 DEF Quiet, Derive, Grows
<1>3. CASE UNCHANGED lakeVars
  BY <1>3 DEF Quiet, lakeVars, Grows
<1>4. ASSUME NEW b \in Builders, ReadProducts(b) PROVE Quiet
  <2>1. PICK d \in Days : Step(b, [phase |-> "products", day |-> d, products |-> select_runs(d)])
    BY <1>4 DEF ReadProducts
  <2>2. select_runs(d) \subseteq DOMAIN landed[d]
    BY ChoicesOnDisk
  <2>3. build[b].phase # "half"
    BY <1>4 DEF ReadProducts, Idle
  <2>4. /\ build'[b] = [phase |-> "products", day |-> d, products |-> select_runs(d)]
        /\ \A c \in Builders \ {b} : build'[c] = build[c]
    BY <2>1 DEF LakeTypeOK, Step
  <2>5. Grows /\ UNCHANGED <<tables, head, torn>>
    BY <1>4 DEF ReadProducts, Grows
  <2> QED BY <2>2, <2>3, <2>4, <2>5 DEF Quiet
<1>5. ASSUME NEW b \in Builders, ReadPrices(b) PROVE Quiet
  <2> DEFINE f == [day |-> build[b].day, products |-> build[b].products, prices |-> select_runs(build[b].day)]
  <2>1. build[b].phase = "products" /\ build[b].day \in Days /\ build[b].products \subseteq DOMAIN landed[build[b].day]
    BY <1>5, ByPhase DEF ReadPrices, AllRead
  <2>2. OnDisk(f)
    BY <2>1, ChoicesOnDisk DEF OnDisk
  <2>3. Step(b, [phase |-> "read", file |-> f])
    BY <1>5 DEF ReadPrices
  <2> HIDE DEF f
  <2>4. build'[b] = [phase |-> "read", file |-> f] /\ \A c \in Builders \ {b} : build'[c] = build[c]
    BY <2>3 DEF LakeTypeOK, Step
  <2>5. Grows /\ UNCHANGED <<tables, head, torn>>
    BY <1>5 DEF ReadPrices, Grows
  <2> QED BY <2>1, <2>2, <2>4, <2>5 DEF Quiet
<1>6. ASSUME NEW b \in Builders, LoadTables(b) PROVE Quiet
  <2>1. build[b].phase = "read" /\ OnDisk(build[b].file)
    BY <1>6 DEF LoadTables, AllRead
  <2>2. /\ build'[b] = [phase |-> "loaded", file |-> build[b].file, base |-> tables]
        /\ \A c \in Builders \ {b} : build'[c] = build[c]
    BY <1>6 DEF LoadTables, LakeTypeOK, Step
  <2>3. Grows /\ UNCHANGED <<tables, head, torn>>
    BY <1>6 DEF LoadTables, Grows
  <2> QED BY <2>1, <2>2, <2>3 DEF Quiet
<1>7. ASSUME NEW b \in Builders, Refused(b) \/ Die(b) PROVE Quiet
  <2>1. build'[b] = Idle /\ \A c \in Builders \ {b} : build'[c] = build[c]
    BY <1>7 DEF Refused, Die, LakeTypeOK, Step
  <2>2. torn \subseteq torn' /\ (build[b].phase = "half" => build[b].file.day \in torn')
    BY <1>7 DEF Refused, Die, Tear
  <2>3. Grows /\ UNCHANGED <<tables, head>>
    BY <1>7 DEF Refused, Die, Grows
  <2> QED BY <2>1, <2>2, <2>3 DEF Quiet
<1> QED BY <1>1, <1>2, <1>3, <1>4, <1>5, <1>6, <1>7 DEF LakeNext

LEMMA QuietKeepsTables ==
  ASSUME LakeTypeOK, LakeTypeOK', AllRead, OneFileADay, Snapshots, Quiet
  PROVE  AllRead' /\ OneFileADay' /\ Snapshots'
<1>1. \A f : OnDisk(f) => OnDisk(f)'
  BY DEF OnDisk, Grows, Quiet
<1>2. AllRead'
  <2>1. \A t \in Tables : \A f \in tables'[t].files : OnDisk(f)'
    BY <1>1 DEF AllRead, Quiet
  <2>2. ASSUME NEW b \in Builders, build'[b].phase = "products"
        PROVE  build'[b].products \subseteq DOMAIN landed'[build'[b].day]
    <3>1. build'[b].day \in Days
      <4>1. build'[b] \in Progress
        BY DEF LakeTypeOK
      <4> QED BY <2>2, <4>1 DEF Progress, Idle
    <3>2. build'[b].products \subseteq DOMAIN landed[build'[b].day]
      BY <2>2 DEF AllRead, Quiet, Idle
    <3> QED BY <3>1, <3>2 DEF Quiet, Grows
  <2>3. ASSUME NEW b \in Builders, build'[b].phase \in {"read", "loaded", "half"}
        PROVE  OnDisk(build[b].file)'
    <3>1. OnDisk(build'[b].file)
      BY <2>3 DEF AllRead, Quiet, Idle
    <3> QED BY <3>1 DEF OnDisk, Grows, Quiet
  <2> QED BY <2>1, <2>2, <2>3 DEF AllRead
<1>3. OneFileADay'
  <2>1. \A t \in Tables : \A f \in tables[t].files : Written(t, f)' = Written(t, f)
    BY RowsStay DEF AllRead, LakeTypeOK, Quiet
  <2> QED BY <2>1 DEF OneFileADay, Quiet
<1>4. Snapshots'
  <2>1. ASSUME NEW t \in Tables, NEW b \in Builders, build'[b].phase \in {"loaded", "half"}
        PROVE  /\ build'[b].base[t].snap <= head'
               /\ tables'[t].snap = build'[b].base[t].snap => build'[b].base[t].files = tables'[t].files
    <3>1. CASE build'[b] = build[b]
      BY <2>1, <3>1 DEF Snapshots, Quiet, Unmoved
    <3>2. CASE build'[b] # build[b]
      BY <2>1, <3>2 DEF Snapshots, Quiet, Idle
    <3> QED BY <3>1, <3>2
  <2> QED BY <2>1 DEF Snapshots, Quiet, Unmoved
<1> QED BY <1>2, <1>3, <1>4

\* What holds between the tables holds on, whoever gives up.
LEMMA QuietKeepsHalves ==
  ASSUME LakeTypeOK, AllRead, Halves, SplitsAreReported, Quiet
  PROVE  Halves' /\ SplitsAreReported'
<1>1. ASSUME NEW t \in Tables, NEW d PROVE FilesOf(t, d)' = FilesOf(t, d)
  BY DEF FilesOf, Quiet
<1>2. ASSUME NEW f, OnDisk(f), NEW t PROVE Written(t, f)' = Written(t, f)
  BY <1>2, RowsStay DEF LakeTypeOK, Quiet
<1>3. ASSUME NEW b \in Builders, build'[b].phase = "half" PROVE build'[b] = build[b]
  BY <1>3 DEF Quiet, Idle
<1>4. ASSUME NEW b \in Builders, NEW d, Between(b, d) PROVE Between(b, d)' \/ d \in torn'
  BY <1>4 DEF Between, Quiet
<1>5. Halves'
  <2> SUFFICES ASSUME NEW b \in Builders,
                      (build[b].phase = "half" /\ Unmoved("sealed", b) /\ build[b].file.day \notin torn)'
               PROVE  (\/ FilesOf("prices", build[b].file.day) = Written("prices", build[b].file)
                       \/ \E c \in Builders \ {b} : Between(c, build[b].file.day))'
    BY DEF Halves
  <2>1. build'[b] = build[b] /\ build[b].phase = "half" /\ Unmoved("sealed", b)
    BY <1>3 DEF Unmoved, Quiet
  <2>2. OnDisk(build[b].file) /\ build[b].file.day \notin torn
    BY <2>1 DEF AllRead, Quiet
  <2>3. CASE FilesOf("prices", build[b].file.day) = Written("prices", build[b].file)
    <3>1. "prices" \in Tables
      BY DEF Tables
    <3>2. FilesOf("prices", build[b].file.day)' = FilesOf("prices", build[b].file.day)
      BY <2>1 DEF FilesOf, Quiet
    <3>3. Written("prices", build[b].file)' = Written("prices", build[b].file)
      <4> DEFINE f == build[b].file
      <4>1. f' = f
        BY <2>1
      <4>2. \A g : g = f => Written("prices", g)' = Written("prices", g)
        BY <1>2, <2>2
      <4> HIDE DEF f
      <4>3. PICK g : g = f
        OBVIOUS
      <4>4. Written("prices", f)' = Written("prices", g)'
        BY <4>1, <4>3 DEF Written, RowsOf
      <4> QED BY <4>2, <4>3, <4>4 DEF f
    <3> QED BY <2>3, <3>2, <3>3
  <2>4. CASE \E c \in Builders \ {b} : Between(c, build[b].file.day)
    <3>1. PICK c \in Builders \ {b} : Between(c, build[b].file.day)
      BY <2>4
    <3>2. Between(c, build[b].file.day)'
      BY <1>3, <2>1, <3>1 DEF Between, Quiet
    <3> QED BY <3>2
  <2> QED BY <2>1, <2>2, <2>3, <2>4 DEF Halves
<1>6. SplitsAreReported'
  <2> SUFFICES ASSUME NEW d \in Days, d \notin torn', \A b \in Builders : ~Between(b, d)'
               PROVE  OneBuild(d)'
    BY DEF SplitsAreReported, Between
  <2>1. d \notin torn /\ \A b \in Builders : ~Between(b, d)
    BY <1>4 DEF Quiet
  <2>2. OneBuild(d)
    BY <2>1 DEF SplitsAreReported, Between
  <2>3. \A t \in Tables : \A f \in FilesOf(t, d) : \A u \in Tables : Written(u, f)' = Written(u, f)
    BY <1>2 DEF AllRead, FilesOf
  <2> QED BY <1>1, <2>2, <2>3 DEF OneBuild
<1> QED BY <1>5, <1>6

-----------------------------------------------------------------------------
(* The two commits. *)

\* A commit of builder b, which ends or goes on with the same file and the same base.
Commits(b, t) ==
    /\ build[b].phase \in {"loaded", "half"}
    /\ build[b].file \in File /\ build[b].base \in [Tables -> Snapshot]
    /\ build[b].base[t].files = tables[t].files
    /\ Commit(t, build[b].base, build[b].file)
    /\ landed' = landed
    /\ \/ build'[b] = Idle
       \/ build'[b] = [phase |-> "half", file |-> build[b].file, base |-> build[b].base]
    /\ \A c \in Builders \ {b} : build'[c] = build[c]

LEMMA SameRows ==
  ASSUME LakeTypeOK, AllRead, landed' = landed, NEW f, OnDisk(f), NEW t
  PROVE  OnDisk(f)' /\ Written(t, f)' = Written(t, f)
BY RowsStay DEF LakeTypeOK, Grows

LEMMA CommitKeepsTables ==
  ASSUME LakeTypeOK, AllRead, OneFileADay, Snapshots, NEW b \in Builders, NEW t \in Tables, Commits(b, t)
  PROVE  AllRead' /\ OneFileADay' /\ Snapshots'
<1> DEFINE f == build[b].file
<1>1. /\ head' = head + 1 /\ head' \in Nat /\ head \in Nat
      /\ tables'[t].snap = head' /\ tables'[t].files = plan(t, tables[t], f)
      /\ \A u \in Tables \ {t} : tables'[u] = tables[u]
  BY CommitReplaces DEF Commits, LakeTypeOK
<1>2. OnDisk(f)
  BY DEF Commits, AllRead
<1>3. tables'[t].files = {g \in tables[t].files : g.day # f.day} \cup Written(t, f) /\ Written(t, f) \subseteq {f}
  BY <1>1 DEF plan, Written
<1>4. \A u \in Tables : \A g \in tables'[u].files : OnDisk(g)
  BY <1>1, <1>2, <1>3 DEF AllRead
<1>5. \A c \in Builders : build'[c].phase \in {"loaded", "half"} =>
         /\ build'[c].base = build[c].base /\ build'[c].file = build[c].file
         /\ build[c].phase \in {"loaded", "half"}
  BY DEF Commits, Idle
<1> HIDE DEF f
<1>6. AllRead'
  <2>1. \A g : OnDisk(g)' <=> OnDisk(g)
    BY DEF OnDisk, Commits
  <2>2. ASSUME NEW c \in Builders
        PROVE  /\ build'[c].phase = "products" => build'[c].products \subseteq DOMAIN landed'[build'[c].day]
               /\ build'[c].phase \in {"read", "loaded", "half"} => OnDisk(build'[c].file)
    <3>1. CASE build'[c] = build[c]
      BY <3>1 DEF AllRead, Commits
    <3>2. CASE build'[c] # build[c]
      BY <1>2, <3>2 DEF Commits, Idle, f
    <3> QED BY <3>1, <3>2
  <2>3. \A c \in Builders : OnDisk(build[c].file)' <=> OnDisk(build'[c].file)
    BY DEF OnDisk, Commits
  <2> QED BY <1>4, <2>1, <2>2, <2>3 DEF AllRead
<1>7. OneFileADay'
  <2>1. \A u \in Tables : \A g \in tables'[u].files : Written(u, g)' = Written(u, g)
    BY <1>4, SameRows DEF Commits
  <2>2. \A u \in Tables : \A g \in tables'[u].files :
           Written(u, g) = {g} /\ \A h \in tables'[u].files : h.day = g.day => h = g
    <3>1. \A g \in tables[t].files : Written(t, g) = {g} /\ \A h \in tables[t].files : h.day = g.day => h = g
      BY DEF OneFileADay
    <3>2. \A g \in Written(t, f) : Written(t, g) = {g}
      BY <1>3
    <3>3. \A g \in tables'[t].files :
             Written(t, g) = {g} /\ \A h \in tables'[t].files : h.day = g.day => h = g
      BY <1>3, <3>1, <3>2
    <3> QED BY <1>1, <3>3 DEF OneFileADay
  <2> QED BY <2>1, <2>2 DEF OneFileADay
<1>8. Snapshots'
  <2>1. ASSUME NEW u \in Tables PROVE tables'[u].snap <= head'
    <3>1. tables[u].snap \in Nat /\ tables[u].snap <= head
      BY DEF LakeTypeOK, Snapshot, Snapshots
    <3> QED BY <1>1, <3>1
  <2>2. ASSUME NEW u \in Tables, NEW c \in Builders, build'[c].phase \in {"loaded", "half"}
        PROVE  /\ build'[c].base[u].snap <= head'
               /\ tables'[u].snap = build'[c].base[u].snap => build'[c].base[u].files = tables'[u].files
    <3>1. /\ build'[c].base = build[c].base /\ build[c].phase \in {"loaded", "half"}
          /\ build[c].base[u].snap <= head
          /\ tables[u].snap = build[c].base[u].snap => build[c].base[u].files = tables[u].files
      BY <1>5, <2>2 DEF Snapshots, Unmoved
    <3>2. build[c].base[u].snap \in Nat
      BY <3>1, ByPhase DEF Snapshot
    <3>3. CASE u = t
      BY <1>1, <3>1, <3>2, <3>3
    <3>4. CASE u # t
      BY <1>1, <3>1, <3>2, <3>4
    <3> QED BY <3>3, <3>4
  <2> QED BY <2>1, <2>2 DEF Snapshots, Unmoved
<1> QED BY <1>6, <1>7, <1>8

\* After its first commit a build stands between its two commits, and every other
\* build there on that day sees it.
LEMMA PricesKeepHalves ==
  ASSUME LakeTypeOK, AllRead, Snapshots, Halves, SplitsAreReported, NEW b \in Builders, CommitPrices(b)
  PROVE  Commits(b, "prices") /\ Halves' /\ SplitsAreReported'
<1> "prices" \in Tables
  BY DEF Tables
<1>0. PICK f \in File : f = build[b].file
  BY PricesCommitted
<1>1. /\ build[b].phase = "loaded" /\ build[b].file = f /\ build[b].base \in [Tables -> Snapshot]
      /\ build[b].base["prices"].files = tables["prices"].files
      /\ Commit("prices", build[b].base, f) /\ UNCHANGED <<landed, torn>>
      /\ build'[b] = [phase |-> "half", file |-> f, base |-> build[b].base]
      /\ \A c \in Builders \ {b} : build'[c] = build[c]
  BY <1>0, PricesCommitted DEF LakeTypeOK
<1>2. Commits(b, "prices")
  BY <1>1 DEF Commits
<1>3. /\ FilesOf("prices", f.day)' = Written("prices", f)
      /\ \A d \in Days \ {f.day} : FilesOf("prices", d)' = FilesOf("prices", d)
      /\ \A d \in Days : FilesOf("sealed", d)' = FilesOf("sealed", d)
      /\ tables'["sealed"] = tables["sealed"]
  BY <1>1, CommitReplaces DEF Tables
<1>4. OnDisk(f) /\ f.day \in Days
  BY <1>1 DEF AllRead, File
<1>5. build'[b].phase = "half" /\ build'[b].file = f
  BY <1>1
<1>6. Halves'
  <2>1. ASSUME NEW c \in Builders, build'[c].phase = "half", tables'["sealed"].snap = build'[c].base["sealed"].snap
        PROVE  \/ {g \in tables'["prices"].files : g.day = build'[c].file.day} = Written("prices", build'[c].file)
               \/ build'[c].file.day \in torn'
               \/ \E e \in Builders \ {c} : build'[e].phase = "half" /\ build'[e].file.day = build'[c].file.day
    <3>1. CASE c = b
      BY <1>3, <1>5, <3>1 DEF FilesOf
    <3>2. CASE c # b /\ build[c].file.day = f.day
      BY <1>1, <1>5, <3>2
    <3>3. CASE c # b /\ build[c].file.day # f.day
      <4>1. build'[c] = build[c] /\ build[c].phase = "half" /\ Unmoved("sealed", c)
        BY <1>1, <1>3, <2>1, <3>3 DEF Unmoved
      <4>2. build[c].file.day \in Days
        BY <4>1 DEF AllRead, OnDisk
      <4>3. CASE FilesOf("prices", build[c].file.day) = Written("prices", build[c].file)
        BY <1>3, <3>3, <4>1, <4>2, <4>3 DEF FilesOf
      <4>4. CASE build[c].file.day \in torn
        BY <1>1, <4>1, <4>4
      <4>5. CASE \E e \in Builders \ {c} : Between(e, build[c].file.day)
        BY <1>1, <4>1, <4>5 DEF Between
      <4> QED BY <4>1, <4>3, <4>4, <4>5 DEF Halves
    <3> QED BY <3>1, <3>2, <3>3
  <2>2. ASSUME NEW c \in Builders, build'[c].phase = "half"
        PROVE  Written("prices", build[c].file)' = Written("prices", build'[c].file)
    <3>1. OnDisk(build'[c].file)
      BY <1>1, <1>4, <1>5, <2>2 DEF AllRead
    <3>2. \A g : g = build'[c].file => Written("prices", g)' = Written("prices", g)
      BY <1>1, <3>1, SameRows
    <3>3. PICK g : g = build'[c].file
      OBVIOUS
    <3>4. Written("prices", build[c].file)' = Written("prices", g)'
      BY <3>3 DEF Written, RowsOf
    <3> QED BY <3>2, <3>3, <3>4
  <2>3. ASSUME NEW c \in Builders
        PROVE  FilesOf("prices", build[c].file.day)' = {g \in tables'["prices"].files : g.day = build'[c].file.day}
    BY DEF FilesOf
  <2> SUFFICES ASSUME NEW c \in Builders, (build[c].phase = "half" /\ Unmoved("sealed", c))'
               PROVE  (\/ FilesOf("prices", build[c].file.day) = Written("prices", build[c].file)
                       \/ build[c].file.day \in torn
                       \/ \E e \in Builders \ {c} : Between(e, build[c].file.day))'
    BY DEF Halves
  <2>4. build'[c].phase = "half" /\ tables'["sealed"].snap = build'[c].base["sealed"].snap
    BY DEF Unmoved
  <2>5. \A e \in Builders : Between(e, build[c].file.day)' <=>
                              build'[e].phase = "half" /\ build'[e].file.day = build'[c].file.day
    BY DEF Between
  <2>6. CASE build'[c].file.day \in torn'
    BY <2>6
  <2>7. CASE {g \in tables'["prices"].files : g.day = build'[c].file.day} = Written("prices", build'[c].file)
    BY <2>2, <2>3, <2>4, <2>7
  <2>8. CASE \E e \in Builders \ {c} : build'[e].phase = "half" /\ build'[e].file.day = build'[c].file.day
    <3>1. PICK e \in Builders \ {c} : build'[e].phase = "half" /\ build'[e].file.day = build'[c].file.day
      BY <2>8
    <3>2. Between(e, build[c].file.day)'
      BY <2>5, <3>1
    <3>3. (\E g \in Builders \ {c} : Between(g, build[c].file.day))'
      BY <3>2
    <3> QED BY <3>3
  <2> QED BY <2>1, <2>4, <2>6, <2>7, <2>8
<1>7. SplitsAreReported'
  <2> SUFFICES ASSUME NEW d \in Days, d \notin torn', ~ \E c \in Builders : Between(c, d)'
               PROVE  OneBuild(d)'
    BY DEF SplitsAreReported, Between
  <2>1. d # f.day
    BY <1>5 DEF Between
  <2>2. d \notin torn /\ ~ \E c \in Builders : Between(c, d)
    BY <1>1 DEF Between
  <2>3. OneBuild(d)
    BY <2>2 DEF SplitsAreReported, Between
  <2>4. \A t \in Tables : FilesOf(t, d)' = FilesOf(t, d)
    BY <1>3, <2>1 DEF Tables
  <2>5. \A t \in Tables : \A g \in FilesOf(t, d) : \A u \in Tables : Written(u, g)' = Written(u, g)
    BY <1>1, SameRows DEF AllRead, FilesOf
  <2> QED BY <2>3, <2>4, <2>5 DEF OneBuild
<1> QED BY <1>2, <1>6, <1>7

\* The second commit makes the day whole, or leaves it torn, or leaves another build
\* between its commits; and no build between its commits can go through any more.
LEMMA SealedKeepsHalves ==
  ASSUME LakeTypeOK, AllRead, OneFileADay, Snapshots, Halves, SplitsAreReported,
         NEW b \in Builders, CommitSealed(b)
  PROVE  Commits(b, "sealed") /\ Halves' /\ SplitsAreReported'
<1> "sealed" \in Tables
  BY DEF Tables
<1>0. PICK f \in File : f = build[b].file
  BY SealedCommitted
<1>1. /\ build[b].phase = "half" /\ build[b].file = f /\ build[b].base \in [Tables -> Snapshot]
      /\ build[b].base["sealed"].files = tables["sealed"].files /\ Unmoved("sealed", b)
      /\ Commit("sealed", build[b].base, f) /\ landed' = landed /\ Mend(b)
      /\ build'[b] = Idle
      /\ \A c \in Builders \ {b} : build'[c] = build[c]
  BY <1>0, SealedCommitted DEF LakeTypeOK
<1>2. Commits(b, "sealed")
  BY <1>1 DEF Commits
<1>3. /\ FilesOf("sealed", f.day)' = Written("sealed", f)
      /\ \A d \in Days \ {f.day} : FilesOf("sealed", d)' = FilesOf("sealed", d)
      /\ \A d \in Days : FilesOf("prices", d)' = FilesOf("prices", d)
      /\ head' = head + 1 /\ tables'["sealed"].snap = head' /\ head \in Nat
  BY <1>1, CommitReplaces DEF Tables, LakeTypeOK
<1>4. OnDisk(f) /\ f.day \in Days
  BY <1>1 DEF AllRead, File
<1>5. torn' = IF f \in tables["prices"].files THEN torn \ {f.day} ELSE torn
  BY <1>1 DEF Mend
<1>6. FilesOf("prices", f.day) = Written("prices", f) \/ f.day \in torn \/ \E c \in Builders \ {b} : Between(c, f.day)
  BY <1>1 DEF Halves
<1>7. Halves'
  <2> SUFFICES ASSUME NEW c \in Builders, build'[c].phase = "half" PROVE ~Unmoved("sealed", c)'
    BY DEF Halves
  <2>1. build'[c] = build[c] /\ build[c].phase = "half"
    BY <1>1 DEF Idle
  <2>2. build[c].base["sealed"].snap \in Nat /\ build[c].base["sealed"].snap <= head
    BY <2>1, ByPhase DEF Snapshots, Snapshot
  <2> QED BY <1>3, <2>1, <2>2 DEF Unmoved
<1>8. SplitsAreReported'
  <2> SUFFICES ASSUME NEW d \in Days, d \notin torn', ~ \E c \in Builders : Between(c, d)'
               PROVE  OneBuild(d)'
    BY DEF SplitsAreReported, Between
  <2>1. ASSUME NEW g, OnDisk(g), NEW u \in Tables PROVE Written(u, g)' = Written(u, g)
    BY <1>1, <2>1, SameRows
  <2>2. CASE d # f.day
    <3>1. d \notin torn /\ ~ \E c \in Builders : Between(c, d)
      BY <1>1, <1>5, <2>2 DEF Between
    <3>2. OneBuild(d)
      BY <3>1 DEF SplitsAreReported, Between
    <3>3. \A t \in Tables : FilesOf(t, d)' = FilesOf(t, d)
      BY <1>3, <2>2 DEF Tables
    <3>4. \A t \in Tables : \A g \in FilesOf(t, d) : \A u \in Tables : Written(u, g)' = Written(u, g)
      BY <2>1 DEF AllRead, FilesOf
    <3> QED BY <3>2, <3>3, <3>4 DEF OneBuild
  <2>3. CASE d = f.day
    <3>1. ~ \E c \in Builders \ {b} : Between(c, f.day)
      BY <1>1, <2>3 DEF Between
    <3>2. FilesOf("prices", f.day) = Written("prices", f)
      <4>1. CASE f \in tables["prices"].files
        BY <4>1 DEF OneFileADay, FilesOf, Tables
      <4>2. CASE f \notin tables["prices"].files
        BY <1>5, <1>6, <2>3, <3>1, <4>2
      <4> QED BY <4>1, <4>2
    <3>3. \A t \in Tables : FilesOf(t, d)' = Written(t, f)
      BY <1>3, <1>4, <2>3, <3>2 DEF Tables
    <3>4. \A t \in Tables : Written(t, f)' = Written(t, f) /\ Written(t, f) \subseteq {f}
      BY <1>4, <2>1 DEF Written
    <3> QED BY <3>3, <3>4 DEF OneBuild
  <2> QED BY <2>2, <2>3
<1> QED BY <1>2, <1>7, <1>8

-----------------------------------------------------------------------------
(* The theorems. *)

LEMMA LakeStarts == LakeInit => LakeInv
<1> SUFFICES ASSUME LakeInit PROVE LakeInv
  OBVIOUS
<1>1. LakeTypeOK
  BY DEF LakeInit, LakeTypeOK, Snapshot, Progress, Idle
<1>2. Counted
  <2>1. AllLanded = {}
    BY DEF LakeInit, AllLanded
  <2> QED BY <2>1, FS_EmptySet, LakeAssumption DEF Counted
<1>3. \A b \in Builders : build[b].phase = "idle"
  BY DEF LakeInit, Idle
<1>4. \A t \in Tables : tables[t].files = {} /\ tables[t].snap = 0 /\ head = 0
  BY DEF LakeInit
<1>5. AllRead /\ OneFileADay /\ Snapshots /\ Halves
  BY <1>3, <1>4 DEF AllRead, OneFileADay, Snapshots, Halves
<1>6. SplitsAreReported
  BY <1>4 DEF SplitsAreReported, OneBuild, FilesOf
<1> QED BY <1>1, <1>2, <1>5, <1>6 DEF LakeInv

LEMMA LakeSteps == LakeInv /\ [LakeNext]_lakeVars => LakeInv'
<1> SUFFICES ASSUME LakeInv, [LakeNext]_lakeVars PROVE LakeInv'
  OBVIOUS
<1>1. LakeTypeOK' /\ Counted'
  BY LakeTypes DEF LakeInv
<1>2. CASE \E b \in Builders : CommitPrices(b) \/ CommitSealed(b)
  <2>1. PICK b \in Builders : CommitPrices(b) \/ CommitSealed(b)
    BY <1>2
  <2>2. PICK t \in Tables : Commits(b, t) /\ Halves' /\ SplitsAreReported'
    BY <2>1, PricesKeepHalves, SealedKeepsHalves DEF LakeInv, Tables
  <2>3. AllRead' /\ OneFileADay' /\ Snapshots'
    BY <2>2, CommitKeepsTables DEF LakeInv
  <2> QED BY <1>1, <2>2, <2>3 DEF LakeInv
<1>3. CASE ~ \E b \in Builders : CommitPrices(b) \/ CommitSealed(b)
  <2>1. Quiet
    BY <1>3, QuietSteps DEF LakeInv
  <2>2. AllRead' /\ OneFileADay' /\ Snapshots'
    BY <1>1, <2>1, QuietKeepsTables DEF LakeInv
  <2>3. Halves' /\ SplitsAreReported'
    BY <2>1, QuietKeepsHalves DEF LakeInv
  <2> QED BY <1>1, <2>2, <2>3 DEF LakeInv
<1> QED BY <1>2, <1>3

LEMMA LakeInvHolds == LakeSpec => []LakeInv
<1> QED BY LakeStarts, LakeSteps, PTL DEF LakeSpec

\* The tables' files, the snapshots and hashes they carry, and what each build has in hand
\* have their types in every reachable state.
THEOREM LakeTypeCorrect == LakeSpec => []LakeTypeOK
<1>1. LakeInv => LakeTypeOK
  BY DEF LakeInv
<1> QED BY <1>1, LakeInvHolds, PTL

\* The two tables never hold different builds of a day but while a build is between its
\* commits, or after one that ended there with an error, whichever builds overlap.
THEOREM SplitsStayReported == LakeSpec => []SplitsAreReported
<1>1. LakeInv => SplitsAreReported
  BY DEF LakeInv
<1> QED BY <1>1, LakeInvHolds, PTL

\* A commit is a replacement of one day by what one build wrote; no other step is seen.
LEMMA CommitIsReplacement ==
  ASSUME LakeInv, NEW b \in Builders, NEW t \in Tables, Commits(b, t)
  PROVE  \E d \in Days : \E r \in {{}} \cup {{f} : f \in File} :
            /\ [c \in Days |-> FilesOf(t, c)]' = [[c \in Days |-> FilesOf(t, c)] EXCEPT ![d] = r]
            /\ \A u \in Tables \ {t} : [c \in Days |-> FilesOf(u, c)]' = [c \in Days |-> FilesOf(u, c)]
<1>1. PICK f \in File : f = build[b].file
  BY DEF Commits
<1>2. /\ FilesOf(t, f.day)' = Written(t, f)
      /\ \A d \in Days \ {f.day} : FilesOf(t, d)' = FilesOf(t, d)
      /\ \A u \in Tables \ {t}, d \in Days : FilesOf(u, d)' = FilesOf(u, d)
  BY <1>1, CommitReplaces DEF Commits, LakeInv
<1>3. f.day \in Days /\ Written(t, f) \in {{}} \cup {{g} : g \in File}
  BY DEF File, Written
<1>4. [c \in Days |-> FilesOf(t, c)]' = [[c \in Days |-> FilesOf(t, c)] EXCEPT ![f.day] = Written(t, f)]
  BY <1>2
<1>5. \A u \in Tables \ {t} : [c \in Days |-> FilesOf(u, c)]' = [c \in Days |-> FilesOf(u, c)]
  BY <1>2
<1> QED BY <1>3, <1>4, <1>5

\* Each price table is a sequence of whole-day replacements: no day is doubled and none
\* taken back by a build that planned its commit from an older snapshot.
THEOREM TablesReplaceDays == LakeSpec => ImplementsTables
<1>1. LakeInit => PricesTable!Init /\ SealedTable!Init
  BY DEF LakeInit, PricesTable!Init, SealedTable!Init, FilesOf, Tables
<1>2. LakeInv /\ [LakeNext]_lakeVars => [PricesTable!Next]_([d \in Days |-> FilesOf("prices", d)])
                                     /\ [SealedTable!Next]_([d \in Days |-> FilesOf("sealed", d)])
  <2> SUFFICES ASSUME LakeInv, [LakeNext]_lakeVars
               PROVE  /\ [PricesTable!Next]_([d \in Days |-> FilesOf("prices", d)])
                      /\ [SealedTable!Next]_([d \in Days |-> FilesOf("sealed", d)])
    OBVIOUS
  <2> "prices" \in Tables /\ "sealed" \in Tables /\ "prices" # "sealed"
    BY DEF Tables
  <2>1. CASE ~ \E b \in Builders : CommitPrices(b) \/ CommitSealed(b)
    <3>1. tables' = tables
      BY <2>1, QuietSteps DEF LakeInv, Quiet
    <3> QED BY <3>1 DEF FilesOf
  <2>2. ASSUME NEW b \in Builders, CommitPrices(b)
        PROVE  /\ [PricesTable!Next]_([d \in Days |-> FilesOf("prices", d)])
               /\ [SealedTable!Next]_([d \in Days |-> FilesOf("sealed", d)])
    <3>1. Commits(b, "prices")
      BY <2>2, PricesKeepHalves DEF LakeInv
    <3>2. PICK d \in Days, r \in {{}} \cup {{f} : f \in File} :
            /\ [c \in Days |-> FilesOf("prices", c)]' = [[c \in Days |-> FilesOf("prices", c)] EXCEPT ![d] = r]
            /\ \A u \in Tables \ {"prices"} : [c \in Days |-> FilesOf(u, c)]' = [c \in Days |-> FilesOf(u, c)]
      BY <3>1, CommitIsReplacement
    <3>3. PricesTable!Replace(d, r)
      BY <3>2 DEF PricesTable!Replace
    <3>4. PricesTable!Next
      BY <3>3 DEF PricesTable!Next
    <3> QED BY <3>2, <3>4
  <2>3. ASSUME NEW b \in Builders, CommitSealed(b)
        PROVE  /\ [PricesTable!Next]_([d \in Days |-> FilesOf("prices", d)])
               /\ [SealedTable!Next]_([d \in Days |-> FilesOf("sealed", d)])
    <3>1. Commits(b, "sealed")
      BY <2>3, SealedKeepsHalves DEF LakeInv
    <3>2. PICK d \in Days, r \in {{}} \cup {{f} : f \in File} :
            /\ [c \in Days |-> FilesOf("sealed", c)]' = [[c \in Days |-> FilesOf("sealed", c)] EXCEPT ![d] = r]
            /\ \A u \in Tables \ {"sealed"} : [c \in Days |-> FilesOf(u, c)]' = [c \in Days |-> FilesOf(u, c)]
      BY <3>1, CommitIsReplacement
    <3>3. SealedTable!Replace(d, r)
      BY <3>2 DEF SealedTable!Replace
    <3>4. SealedTable!Next
      BY <3>3 DEF SealedTable!Next
    <3> QED BY <3>2, <3>4
  <2> QED BY <2>1, <2>2, <2>3
<1> QED BY <1>1, <1>2, LakeInvHolds, PTL DEF LakeSpec, ImplementsTables, PricesTable!Spec, SealedTable!Spec

-----------------------------------------------------------------------------
(***************************************************************************)
(* The two readers of a run.  The derivation goes through its entries one  *)
(* by one; what that comes to is shown by the least entry at which it      *)
(* would not (the library's induction over an operator is beyond the       *)
(* provers, a least element of a set is not).                              *)
(***************************************************************************)

\* A non-empty set of naturals has a least element.
LEMMA LeastOf ==
  ASSUME NEW S \in SUBSET Nat, S # {}
  PROVE  Least(S) \in S /\ \A x \in S : Least(S) <= x
<1> DEFINE R == {ss \in Nat \X Nat : ss[1] < ss[2]}
<1>1. IsWellFoundedOn(R, Nat)
  BY NatLessThanWellFounded DEF OpToRel
<1>2. \E m \in S : \A k \in S : <<k, m>> \notin R
  <2> HIDE DEF R
  <2> QED BY <1>1, WFMin
<1>3. \A m, k \in Nat : <<k, m>> \notin R => m <= k
  OBVIOUS
<1>4. \E m \in S : \A k \in S : m <= k
  <2> HIDE DEF R
  <2> QED BY <1>2, <1>3
<1> QED BY <1>4 DEF Least

\* Only one member of a set of integers is the least.
LEMMA LeastIs ==
  ASSUME NEW S \in SUBSET Int, NEW x \in S, \A y \in S : x <= y
  PROVE  Least(S) = x
<1>1. \A z \in S : (\A y \in S : z <= y) => z = x
  <2> TAKE z \in S
  <2> HAVE \A y \in S : z <= y
  <2>1. z \in Int /\ x \in Int /\ z <= x /\ x <= z
    OBVIOUS
  <2> QED BY <2>1
<1> QED BY <1>1 DEF Least

Entry == [product : Products, sub : Subs, quotes : [PriceTypes -> Int \cup {NoPrice}]]

\* The tables of shared.sqlite in the form a row is added to.
Sqlite(x) == x = [prices |-> x.prices, sealed |-> x.sealed, products |-> x.products]

\* What one entry adds: a sealed product's row, or a row per price quoted.
SealedAdded(d, x, e, y) ==
  /\ y.prices = x.prices
  /\ DOMAIN y.sealed = DOMAIN x.sealed \cup {<<e.product, d>>}
  /\ \A k \in DOMAIN y.sealed : y.sealed[k] = IF k \in DOMAIN x.sealed THEN x.sealed[k] ELSE e.quotes
CardAdded(d, x, e, y) ==
  /\ y.sealed = x.sealed
  /\ DOMAIN y.prices = DOMAIN x.prices \cup
       {<<e.product, e.sub, t, d>> : t \in {u \in PriceTypes : e.quotes[u] # NoPrice}}
  /\ \A k \in DOMAIN y.prices : y.prices[k] = IF k \in DOMAIN x.prices THEN x.prices[k] ELSE e.quotes[k[3]]

LEMMA EntryImported ==
  ASSUME NEW d, NEW x, Sqlite(x), NEW e \in Entry
  PROVE  LET y == import_price(d, x, e) IN
         /\ Sqlite(y) /\ y.products = x.products
         /\ e.product \in x.products => SealedAdded(d, x, e, y)
         /\ e.product \notin x.products => CardAdded(d, x, e, y)
<1> DEFINE y == import_price(d, x, e)
<1>1. CASE e.product \in x.products
  <2> DEFINE row == [k \in {<<e.product, d>>} |-> e.quotes]
             rows == OrIgnore(x.sealed, row)
  <2>1. DOMAIN row = {<<e.product, d>>} /\ row[<<e.product, d>>] = e.quotes
    OBVIOUS
  <2>2. /\ DOMAIN rows = DOMAIN x.sealed \cup {<<e.product, d>>}
        /\ \A k \in DOMAIN rows : rows[k] = IF k \in DOMAIN x.sealed THEN x.sealed[k] ELSE e.quotes
    <3> HIDE DEF row
    <3> QED BY <2>1 DEF OrIgnore
  <2>3. y = [x EXCEPT !.sealed = rows]
    BY <1>1 DEF import_price
  <2> HIDE DEF rows
  <2>4. y = [prices |-> x.prices, sealed |-> rows, products |-> x.products]
    BY <2>3 DEF Sqlite
  <2>5. Sqlite(y) /\ y.products = x.products /\ y.prices = x.prices /\ y.sealed = rows
    BY <2>4 DEF Sqlite
  <2> HIDE DEF y
  <2>6. SealedAdded(d, x, e, y)
    BY <2>2, <2>5 DEF SealedAdded
  <2> QED BY <1>1, <2>5, <2>6 DEF y
<1>2. CASE e.product \notin x.products
  <2> DEFINE keys == {<<e.product, e.sub, t, d>> : t \in {u \in PriceTypes : e.quotes[u] # NoPrice}}
             new  == [k \in keys |-> e.quotes[k[3]]]
             rows == OrIgnore(x.prices, new)
  <2>1. DOMAIN new = keys /\ \A k \in keys : new[k] = e.quotes[k[3]]
    OBVIOUS
  <2>2. /\ DOMAIN rows = DOMAIN x.prices \cup keys
        /\ \A k \in DOMAIN rows : rows[k] = IF k \in DOMAIN x.prices THEN x.prices[k] ELSE e.quotes[k[3]]
    <3> HIDE DEF new, keys
    <3> QED BY <2>1 DEF OrIgnore
  <2>3. y = [x EXCEPT !.prices = rows]
    BY <1>2 DEF import_price
  <2> HIDE DEF rows
  <2>4. y = [prices |-> rows, sealed |-> x.sealed, products |-> x.products]
    BY <2>3 DEF Sqlite
  <2>5. Sqlite(y) /\ y.products = x.products /\ y.sealed = x.sealed /\ y.prices = rows
    BY <2>4 DEF Sqlite
  <2> HIDE DEF y
  <2>6. CardAdded(d, x, e, y)
    BY <2>2, <2>5 DEF CardAdded
  <2> QED BY <1>2, <2>5, <2>6 DEF y
<1> QED BY <1>1, <1>2

\* The rows after the first entries exist, one entry after the other.
Row(d, x, b, n, after) ==
  after = [i \in 0 .. n |-> IF i = 0 THEN x ELSE import_price(d, after[i - 1], b.entries[i])]

LEMMA RowByRow ==
  ASSUME NEW d, NEW x, NEW b, Len(b.entries) \in Nat
  PROVE  \E after : Row(d, x, b, Len(b.entries), after) /\ import_prices(d, x, b) = after[Len(b.entries)]
<1> DEFINE None_ == {n \in Nat : ~ \E after : Row(d, x, b, n, after)}
<1>1. None_ = {}
  <2> SUFFICES ASSUME None_ # {} PROVE FALSE
    OBVIOUS
  <2> DEFINE m == Least(None_)
  <2>1. m \in None_ /\ \A n \in None_ : m <= n
    BY LeastOf
  <2> HIDE DEF m
  <2>2. CASE m = 0
    <3> DEFINE after == [i \in 0 .. 0 |-> x]
    <3>1. Row(d, x, b, 0, after)
      BY DEF Row
    <3> QED BY <2>1, <2>2, <3>1
  <2>3. CASE m # 0
    <3>1. m \in Nat /\ m - 1 \in Nat
      BY <2>1, <2>3
    <3>2. m - 1 \notin None_
      BY <2>1, <3>1
    <3>3. PICK g : Row(d, x, b, m - 1, g)
      BY <3>1, <3>2
    <3> DEFINE h == [i \in 0 .. m |-> IF i = m THEN import_price(d, g[m - 1], b.entries[m]) ELSE g[i]]
    <3>4. \A i \in 0 .. m - 1 : g[i] = IF i = 0 THEN x ELSE import_price(d, g[i - 1], b.entries[i])
      BY <3>1, <3>3 DEF Row
    <3>5. \A i \in 0 .. m : i # m => h[i] = g[i]
      OBVIOUS
    <3>6. \A i \in 0 .. m : h[i] = IF i = 0 THEN x ELSE import_price(d, h[i - 1], b.entries[i])
      <4> TAKE i \in 0 .. m
      <4>1. CASE i = 0
        BY <2>3, <3>1, <3>4, <3>5, <4>1
      <4>2. CASE i # 0
        <5>1. i - 1 \in 0 .. m - 1 /\ h[i - 1] = g[i - 1]
          BY <3>1, <3>5, <4>2
        <5>2. CASE i = m
          BY <3>1, <4>2, <5>1, <5>2
        <5>3. CASE i # m
          <6>1. i \in 0 .. m - 1
            BY <3>1, <5>3
          <6> HIDE DEF h
          <6> QED BY <3>4, <3>5, <4>2, <5>1, <5>3, <6>1
        <5> QED BY <5>2, <5>3
      <4> QED BY <4>1, <4>2
    <3>7. h = [i \in 0 .. m |-> h[i]]
      OBVIOUS
    <3> HIDE DEF h
    <3>8. Row(d, x, b, m, h)
      BY <3>6, <3>7 DEF Row
    <3> QED BY <2>1, <3>1, <3>8
  <2> QED BY <2>2, <2>3
<1>2. \E after : Row(d, x, b, Len(b.entries), after)
  BY <1>1
<1> DEFINE it == CHOOSE after : Row(d, x, b, Len(b.entries), after)
<1>3. Row(d, x, b, Len(b.entries), it)
  BY <1>2
<1>4. import_prices(d, x, b) = it[Len(b.entries)]
  BY DEF import_prices, Row
<1> QED BY <1>3, <1>4

\* What a run says of a grain, and of a sealed product.
CardPrice(b, g)    == b.entries[Least(Quoting(b, g))].quotes[g[3]]
SealedQuotes(b, p) == b.entries[Least(Mentions(b, p))].quotes

\* The rows the first n entries of b ask for.
SealedRow(d, x, b, n, k) ==
  \E j \in 1 .. n : b.entries[j].product \in x.products /\ k = <<b.entries[j].product, d>>
CardRow(d, x, b, n, k) ==
  \E p \in Products, s \in Subs, t \in PriceTypes :
     /\ k = <<p, s, t, d>> /\ p \notin x.products
     /\ \E j \in 1 .. n : j \in Quoting(b, <<p, s, t>>)

\* What shared.sqlite holds once the first n entries of b are in.
SealedImported(d, x, b, n, y) ==
  /\ \A k : k \in DOMAIN y.sealed <=> k \in DOMAIN x.sealed \/ SealedRow(d, x, b, n, k)
  /\ \A k \in DOMAIN x.sealed : y.sealed[k] = x.sealed[k]
  /\ \A p \in Products : <<p, d>> \in DOMAIN y.sealed \ DOMAIN x.sealed =>
       y.sealed[<<p, d>>] = SealedQuotes(b, p)
CardsImported(d, x, b, n, y) ==
  /\ \A k : k \in DOMAIN y.prices <=> k \in DOMAIN x.prices \/ CardRow(d, x, b, n, k)
  /\ \A k \in DOMAIN x.prices : y.prices[k] = x.prices[k]
  /\ \A p \in Products, s \in Subs, t \in PriceTypes : <<p, s, t, d>> \in DOMAIN y.prices \ DOMAIN x.prices =>
       y.prices[<<p, s, t, d>>] = CardPrice(b, <<p, s, t>>)
Imported(d, x, b, n, y) ==
  /\ Sqlite(y) /\ y.products = x.products
  /\ SealedImported(d, x, b, n, y) /\ CardsImported(d, x, b, n, y)

\* The entries of a run that quote a grain.
LEMMA QuotingIs ==
  ASSUME NEW b, NEW p, NEW s, NEW t, NEW j \in DOMAIN b.entries
  PROVE  j \in Quoting(b, <<p, s, t>>) <=>
           b.entries[j].product = p /\ b.entries[j].sub = s /\ b.entries[j].quotes[t] # NoPrice
<1> DEFINE g == <<p, s, t>>
<1>1. g[1] = p /\ g[2] = s /\ g[3] = t
  OBVIOUS
<1> HIDE DEF g
<1>2. j \in Quoting(b, g) <=> <<b.entries[j].product, b.entries[j].sub>> = <<p, s>> /\ b.entries[j].quotes[t] # NoPrice
  BY <1>1 DEF Quoting
<1> QED BY <1>2 DEF g

LEMMA NextImported ==
  ASSUME NEW d, NEW x, Sqlite(x), NEW b \in Body, NEW n \in Nat, n + 1 \in DOMAIN b.entries,
         NEW y, Imported(d, x, b, n, y)
  PROVE  Imported(d, x, b, n + 1, import_price(d, y, b.entries[n + 1]))
<1> DEFINE m == n + 1
           e == b.entries[m]
           z == import_price(d, y, e)
<1>1. b.entries \in Seq(Entry)
  BY DEF Body, Entry
<1>2. /\ m \in Nat /\ m \in 1 .. Len(b.entries) /\ DOMAIN b.entries = 1 .. Len(b.entries)
      /\ Len(b.entries) \in Nat
  BY <1>1
<1>3. e \in Entry /\ \A j \in 1 .. m : b.entries[j] \in Entry
  BY <1>1, <1>2
<1>4. e.product \in Products /\ e.sub \in Subs /\ e.quotes \in [PriceTypes -> Int \cup {NoPrice}]
  BY <1>3 DEF Entry
<1>5. \A j : j \in 1 .. m <=> j \in 1 .. n \/ j = m
  BY <1>2
<1>6. Sqlite(y) /\ y.products = x.products
  BY DEF Imported
<1> HIDE DEF m, e, z
<1>7. CASE e.product \in x.products
  <2>1. Sqlite(z) /\ z.products = x.products /\ SealedAdded(d, y, e, z)
    BY <1>3, <1>6, <1>7, EntryImported DEF z
  <2>2. \A k : SealedRow(d, x, b, m, k) <=> SealedRow(d, x, b, n, k) \/ k = <<e.product, d>>
    BY <1>5, <1>7 DEF SealedRow, e
  <2>3. \A k : k \in DOMAIN z.sealed <=> k \in DOMAIN y.sealed \/ k = <<e.product, d>>
    BY <2>1 DEF SealedAdded
  <2>4. \A k : k \in DOMAIN z.sealed <=> k \in DOMAIN x.sealed \/ SealedRow(d, x, b, m, k)
    BY <2>2, <2>3 DEF Imported, SealedImported
  <2>5. \A k \in DOMAIN x.sealed : z.sealed[k] = x.sealed[k]
    BY <2>1 DEF Imported, SealedImported, SealedAdded
  <2>6. ASSUME NEW p \in Products, <<p, d>> \in DOMAIN z.sealed \ DOMAIN x.sealed
        PROVE  z.sealed[<<p, d>>] = SealedQuotes(b, p)
    <3>1. CASE <<p, d>> \in DOMAIN y.sealed
      BY <2>1, <2>6, <3>1 DEF Imported, SealedImported, SealedAdded
    <3>2. CASE <<p, d>> \notin DOMAIN y.sealed
      <4>1. p = e.product /\ z.sealed[<<p, d>>] = e.quotes
        BY <2>1, <2>6, <3>2 DEF SealedAdded
      <4>2. \A j \in 1 .. n : b.entries[j].product # p
        BY <1>7, <3>2, <4>1 DEF Imported, SealedImported, SealedRow
      <4>3. Mentions(b, p) \in SUBSET Int /\ m \in Mentions(b, p)
        BY <1>2, <4>1 DEF Mentions, e
      <4>4. \A j \in Mentions(b, p) : m <= j
        BY <1>2, <4>2 DEF Mentions, m
      <4>5. Least(Mentions(b, p)) = m
        BY <4>3, <4>4, LeastIs
      <4> QED BY <4>1, <4>5 DEF SealedQuotes, e
    <3> QED BY <3>1, <3>2
  <2>7. SealedImported(d, x, b, m, z)
    BY <2>4, <2>5, <2>6 DEF SealedImported
  <2>8. \A k : CardRow(d, x, b, m, k) <=> CardRow(d, x, b, n, k)
    <3>1. \A p \in Products, s \in Subs, t \in PriceTypes : p \notin x.products => m \notin Quoting(b, <<p, s, t>>)
      <4>1. m \in DOMAIN b.entries /\ b.entries[m].product \in x.products
        BY <1>2, <1>7 DEF e
      <4> HIDE DEF e
      <4> TAKE p \in Products, s \in Subs, t \in PriceTypes
      <4>2. m \in Quoting(b, <<p, s, t>>) => b.entries[m].product = p
        BY <4>1, QuotingIs
      <4> QED BY <4>1, <4>2
    <3> TAKE k
    <3>2. CardRow(d, x, b, m, k) => CardRow(d, x, b, n, k)
      BY <1>5, <3>1 DEF CardRow
    <3>3. CardRow(d, x, b, n, k) => CardRow(d, x, b, m, k)
      BY <1>5 DEF CardRow
    <3> QED BY <3>2, <3>3
  <2>9. z.prices = y.prices
    BY <2>1 DEF SealedAdded
  <2>10. CardsImported(d, x, b, m, z)
    BY <2>8, <2>9 DEF Imported, CardsImported
  <2>11. Imported(d, x, b, m, z)
    BY <2>1, <2>7, <2>10 DEF Imported
  <2> QED BY <2>11 DEF m, e, z
<1>8. CASE e.product \notin x.products
  <2>1. Sqlite(z) /\ z.products = x.products /\ CardAdded(d, y, e, z)
    BY <1>3, <1>6, <1>8, EntryImported DEF z
  <2>2. \A k : SealedRow(d, x, b, m, k) <=> SealedRow(d, x, b, n, k)
    BY <1>5, <1>8 DEF SealedRow, e
  <2>3. z.sealed = y.sealed
    BY <2>1 DEF CardAdded
  <2>4. SealedImported(d, x, b, m, z)
    BY <2>2, <2>3 DEF Imported, SealedImported
  <2>5. \A p \in Products, s \in Subs, t \in PriceTypes :
          m \in Quoting(b, <<p, s, t>>) <=> p = e.product /\ s = e.sub /\ e.quotes[t] # NoPrice
    BY <1>2, QuotingIs DEF e
  <2> DEFINE Added(k) == \E t \in PriceTypes : e.quotes[t] # NoPrice /\ k = <<e.product, e.sub, t, d>>
  <2>6. \A k : CardRow(d, x, b, m, k) <=> CardRow(d, x, b, n, k) \/ Added(k)
    <3> TAKE k
    <3>1. ASSUME CardRow(d, x, b, m, k) PROVE CardRow(d, x, b, n, k) \/ Added(k)
      <4>1. PICK p \in Products, s \in Subs, t \in PriceTypes :
              /\ k = <<p, s, t, d>> /\ p \notin x.products
              /\ \E j \in 1 .. m : j \in Quoting(b, <<p, s, t>>)
        BY <3>1 DEF CardRow
      <4>2. CASE m \in Quoting(b, <<p, s, t>>)
        BY <2>5, <4>1, <4>2
      <4>3. CASE m \notin Quoting(b, <<p, s, t>>)
        <5>1. \E j \in 1 .. n : j \in Quoting(b, <<p, s, t>>)
          BY <1>5, <4>1, <4>3
        <5> QED BY <4>1, <5>1 DEF CardRow
      <4> QED BY <4>2, <4>3
    <3>2. ASSUME Added(k) PROVE CardRow(d, x, b, m, k)
      <4>1. PICK t \in PriceTypes : e.quotes[t] # NoPrice /\ k = <<e.product, e.sub, t, d>>
        BY <3>2
      <4>2. m \in 1 .. m /\ m \in Quoting(b, <<e.product, e.sub, t>>)
        BY <1>4, <1>5, <2>5, <4>1
      <4> QED BY <1>4, <1>8, <4>1, <4>2 DEF CardRow
    <3>3. CardRow(d, x, b, n, k) => CardRow(d, x, b, m, k)
      BY <1>5 DEF CardRow
    <3> QED BY <3>1, <3>2, <3>3
  <2>7. \A k : k \in DOMAIN z.prices <=> k \in DOMAIN y.prices \/ Added(k)
    BY <2>1 DEF CardAdded
  <2> HIDE DEF Added
  <2>8. \A k : k \in DOMAIN z.prices <=> k \in DOMAIN x.prices \/ CardRow(d, x, b, m, k)
    BY <2>6, <2>7 DEF Imported, CardsImported
  <2>9. \A k \in DOMAIN x.prices : z.prices[k] = x.prices[k]
    BY <2>1 DEF Imported, CardsImported, CardAdded
  <2>10. ASSUME NEW p \in Products, NEW s \in Subs, NEW t \in PriceTypes,
               <<p, s, t, d>> \in DOMAIN z.prices \ DOMAIN x.prices
        PROVE  z.prices[<<p, s, t, d>>] = CardPrice(b, <<p, s, t>>)
    <3>1. CASE <<p, s, t, d>> \in DOMAIN y.prices
      <4>1. z.prices[<<p, s, t, d>>] = y.prices[<<p, s, t, d>>]
        BY <2>1, <2>10, <3>1 DEF CardAdded
      <4> QED BY <2>10, <3>1, <4>1 DEF Imported, CardsImported
    <3>2. CASE <<p, s, t, d>> \notin DOMAIN y.prices
      <4> DEFINE k == <<p, s, t, d>>
      <4>1. k[3] = t
        OBVIOUS
      <4>2. Added(k)
        BY <2>7, <2>10, <3>2
      <4>3. p = e.product /\ s = e.sub /\ e.quotes[t] # NoPrice
        BY <4>2 DEF Added
      <4>4. z.prices[k] = e.quotes[t]
        <5> HIDE DEF k
        <5> QED BY <2>1, <2>10, <3>2, <4>1 DEF CardAdded, k
      <4>5. ~CardRow(d, x, b, n, k)
        BY <3>2 DEF Imported, CardsImported
      <4>6. \A j \in 1 .. n : j \notin Quoting(b, <<p, s, t>>)
        BY <1>8, <4>3, <4>5 DEF CardRow
      <4>7. Quoting(b, <<p, s, t>>) \subseteq DOMAIN b.entries /\ m \in Quoting(b, <<p, s, t>>)
        BY <2>5, <4>3 DEF Quoting
      <4> DEFINE Q == Quoting(b, <<p, s, t>>)
      <4>8. Q \in SUBSET Int /\ m \in Q /\ \A j \in 1 .. n : j \notin Q
        BY <1>2, <4>6, <4>7
      <4>9. \A j \in Q : m <= j
        <5>1. Q \subseteq 1 .. Len(b.entries)
          BY <1>2, <4>7
        <5> HIDE DEF Q
        <5> QED BY <1>2, <4>8, <5>1 DEF m
      <4>10. Least(Q) = m
        <5> HIDE DEF Q
        <5> QED BY <4>8, <4>9, LeastIs
      <4> QED BY <4>1, <4>4, <4>10 DEF CardPrice, e
    <3> QED BY <3>1, <3>2
  <2>11. CardsImported(d, x, b, m, z)
    BY <2>8, <2>9, <2>10 DEF CardsImported
  <2>12. Imported(d, x, b, m, z)
    BY <2>1, <2>4, <2>11 DEF Imported
  <2> QED BY <2>12 DEF m, e, z
<1> QED BY <1>7, <1>8

\* What the derivation of one run comes to.
LEMMA BodyImported ==
  ASSUME NEW d, NEW x, Sqlite(x), NEW b \in Body
  PROVE  Imported(d, x, b, Len(b.entries), import_prices(d, x, b))
<1> DEFINE l == Len(b.entries)
<1>1. l \in Nat /\ DOMAIN b.entries = 1 .. l
  <2>1. b.entries \in Seq(Entry)
    BY DEF Body, Entry
  <2> QED BY <2>1
<1>2. PICK after : Row(d, x, b, l, after) /\ import_prices(d, x, b) = after[l]
  BY <1>1, RowByRow
<1>3. \A i \in 0 .. l : after[i] = IF i = 0 THEN x ELSE import_price(d, after[i - 1], b.entries[i])
  BY <1>2 DEF Row
<1> HIDE DEF l
<1> DEFINE Not == {i \in 0 .. l : ~Imported(d, x, b, i, after[i])}
<1>4. Not = {}
  <2> SUFFICES ASSUME Not # {} PROVE FALSE
    OBVIOUS
  <2> DEFINE m == Least(Not)
  <2>1. m \in Not /\ \A i \in Not : m <= i
    <3>1. Not \in SUBSET Nat
      BY <1>1
    <3> HIDE DEF Not
    <3> QED BY <3>1, LeastOf
  <2> HIDE DEF m
  <2>2. CASE m = 0
    <3>1. after[0] = x
      BY <1>1, <1>3
    <3>2. Imported(d, x, b, 0, x)
      BY DEF Imported, SealedImported, CardsImported, SealedRow, CardRow
    <3> QED BY <2>1, <2>2, <3>1, <3>2
  <2>3. CASE m # 0
    <3>1. m \in 1 .. l /\ m - 1 \in Nat /\ m - 1 \in 0 .. l /\ (m - 1) + 1 = m
      BY <1>1, <2>1, <2>3
    <3>2. Imported(d, x, b, m - 1, after[m - 1])
      BY <2>1, <3>1
    <3>3. Imported(d, x, b, m, import_price(d, after[m - 1], b.entries[m]))
      BY <1>1, <3>1, <3>2, NextImported
    <3>4. after[m] = import_price(d, after[m - 1], b.entries[m])
      BY <1>3, <2>3, <3>1
    <3> QED BY <2>1, <3>3, <3>4
  <2> QED BY <2>2, <2>3
<1> QED BY <1>1, <1>2, <1>4 DEF l

\* What the i-th derivation of date d read, and what of it asks for a row.
Derivation(d, i) == Body_(d, imports[d][i].run)
CardSource(d, i, p, s, t) == p \notin imports[d][i].sealed /\ Quoting(Derivation(d, i), <<p, s, t>>) # {}
SealedSource(d, i, p) == p \in imports[d][i].sealed /\ Mentions(Derivation(d, i), p) # {}

ImportTypeOK ==
    /\ Sqlite(sqlite) /\ sqlite.products \subseteq Products
    /\ imports \in [Days -> Seq([run : Nat, sealed : SUBSET Products])]

\* A derivation read a run that is there, and routed as sealed its listing and only what
\* sealed_products lists.
ImportsLanded ==
    \A d \in Days : \A i \in DOMAIN imports[d] :
        /\ imports[d][i].run \in DOMAIN landed[d]
        /\ Derivation(d, i).sealed \subseteq imports[d][i].sealed
        /\ imports[d][i].sealed \subseteq sqlite.products

\* A row is there when a derivation asked for it, with what one of those said.
CardsDerived ==
    /\ \A k \in DOMAIN sqlite.prices : \E d \in Days, p \in Products, s \in Subs, t \in PriceTypes : k = <<p, s, t, d>>
    /\ \A d \in Days, p \in Products, s \in Subs, t \in PriceTypes :
         /\ \A i \in DOMAIN imports[d] : CardSource(d, i, p, s, t) => <<p, s, t, d>> \in DOMAIN sqlite.prices
         /\ <<p, s, t, d>> \in DOMAIN sqlite.prices =>
              \E i \in DOMAIN imports[d] :
                 CardSource(d, i, p, s, t) /\ sqlite.prices[<<p, s, t, d>>] = CardPrice(Derivation(d, i), <<p, s, t>>)

SealedDerived ==
    /\ \A k \in DOMAIN sqlite.sealed : \E d \in Days, p \in Products : k = <<p, d>>
    /\ \A d \in Days, p \in Products :
         /\ \A i \in DOMAIN imports[d] : SealedSource(d, i, p) => <<p, d>> \in DOMAIN sqlite.sealed
         /\ <<p, d>> \in DOMAIN sqlite.sealed =>
              \E i \in DOMAIN imports[d] :
                 SealedSource(d, i, p) /\ sqlite.sealed[<<p, d>>] = SealedQuotes(Derivation(d, i), p)

Derived == ImportTypeOK /\ ImportsLanded /\ CardsDerived /\ SealedDerived

LEMMA DerivedStarts == LakeInit => Derived
<1> SUFFICES ASSUME LakeInit PROVE Derived
  OBVIOUS
<1> DEFINE none == << >>
<1>1. sqlite = [prices |-> none, sealed |-> none, products |-> {}] /\ DOMAIN none = {}
  BY DEF LakeInit
<1>2. imports = [d \in Days |-> none] /\ \A R : none \in Seq(R)
  BY DEF LakeInit
<1> HIDE DEF none
<1>3. \A d \in Days : imports[d] = none
  BY <1>2
<1>4. ImportTypeOK
  BY <1>1, <1>2 DEF ImportTypeOK, Sqlite
<1>5. ImportsLanded
  BY <1>1, <1>3 DEF ImportsLanded
<1>6. CardsDerived /\ SealedDerived
  BY <1>1, <1>3 DEF CardsDerived, SealedDerived
<1> QED BY <1>4, <1>5, <1>6 DEF Derived

\* What a derivation read stays what it was.
LEMMA DerivationStays ==
  ASSUME ImportsLanded, Grows, NEW d \in Days, NEW i \in DOMAIN imports[d],
         i \in DOMAIN imports'[d], imports'[d][i] = imports[d][i]
  PROVE  /\ Derivation(d, i)' = Derivation(d, i)
         /\ \A p, s, t : CardSource(d, i, p, s, t)' = CardSource(d, i, p, s, t)
         /\ \A p : SealedSource(d, i, p)' = SealedSource(d, i, p)
<1>1. imports[d][i].run \in DOMAIN landed[d]
  BY DEF ImportsLanded
<1>2. Derivation(d, i)' = Derivation(d, i)
  BY <1>1 DEF Derivation, Body_, Grows
<1>3. \A p, s, t : Quoting(Derivation(d, i), <<p, s, t>>)' = Quoting(Derivation(d, i), <<p, s, t>>)
  BY <1>2 DEF Quoting
<1>4. \A p : Mentions(Derivation(d, i), p)' = Mentions(Derivation(d, i), p)
  BY <1>2 DEF Mentions
<1> QED BY <1>2, <1>3, <1>4 DEF CardSource, SealedSource

\* No other step adds to shared.sqlite.
LEMMA OthersKeepDerived ==
  ASSUME Derived, Grows, UNCHANGED <<sqlite, imports>>
  PROVE  Derived'
<1>1. \A d \in Days : \A i \in DOMAIN imports[d] :
        /\ Derivation(d, i)' = Derivation(d, i)
        /\ \A p, s, t : CardSource(d, i, p, s, t)' = CardSource(d, i, p, s, t)
        /\ \A p : SealedSource(d, i, p)' = SealedSource(d, i, p)
  BY DerivationStays DEF Derived
<1>2. ImportTypeOK'
  BY DEF Derived, ImportTypeOK, Sqlite
<1>3. ImportsLanded'
  BY <1>1 DEF Derived, ImportsLanded, Grows
<1>4. \A d, i, p, s, t : CardPrice(Derivation(d, i), <<p, s, t>>)' = CardPrice(Derivation(d, i)', <<p, s, t>>)
  BY DEF CardPrice, Quoting, Least
<1>5. \A d, i, p : SealedQuotes(Derivation(d, i), p)' = SealedQuotes(Derivation(d, i)', p)
  BY DEF SealedQuotes, Mentions, Least
<1>6. CardsDerived'
  BY <1>1, <1>4 DEF Derived, CardsDerived
<1>7. SealedDerived'
  BY <1>1, <1>5 DEF Derived, SealedDerived
<1> QED BY <1>2, <1>3, <1>6, <1>7 DEF Derived

\* A derivation of run n, whose payloads are b: the log has its i-th entry, and shared.sqlite
\* what the run asked for.
Deriving(d, n, b, i, x) ==
  /\ landed' = landed /\ n \in DOMAIN landed[d] /\ b = Body_(d, n)
  /\ Sqlite(x) /\ x.prices = sqlite.prices /\ x.sealed = sqlite.sealed
  /\ x.products = sqlite.products \cup b.sealed /\ x.products \subseteq Products
  /\ Imported(d, x, b, Len(b.entries), sqlite')
  /\ imports' \in [Days -> Seq([run : Nat, sealed : SUBSET Products])]
  /\ \A c \in Days \ {d} : imports'[c] = imports[c]
  /\ DOMAIN imports'[d] = DOMAIN imports[d] \cup {i} /\ i \notin DOMAIN imports[d]
  /\ \A j \in DOMAIN imports[d] : imports'[d][j] = imports[d][j]
  /\ imports'[d][i].run = n /\ imports'[d][i].sealed = x.products

LEMMA DeriveDerives ==
  ASSUME LakeTypeOK, Derived, Derive
  PROVE  \E d \in Days, n \in Nat, b \in Body, i \in Nat : \E x : Deriving(d, n, b, i, x)
<1>1. PICK d \in Days : \E n \in select_runs(d) :
        LET db_ == import_sealed_products(sqlite, Body_(d, n)) IN
          /\ sqlite' = import_prices(d, db_, Body_(d, n))
          /\ imports' = [imports EXCEPT ![d] = Append(imports[d], [run |-> n, sealed |-> db_.products])]
          /\ landed' = landed
  BY DEF Derive
<1>2. PICK n \in select_runs(d) :
        LET db_ == import_sealed_products(sqlite, Body_(d, n)) IN
          /\ sqlite' = import_prices(d, db_, Body_(d, n))
          /\ imports' = [imports EXCEPT ![d] = Append(imports[d], [run |-> n, sealed |-> db_.products])]
          /\ landed' = landed
  BY <1>1
<1> DEFINE b == Body_(d, n)
           x == import_sealed_products(sqlite, b)
           N == Len(imports[d]) + 1
           r == [run |-> n, sealed |-> x.products]
<1>3. landed[d] \in Seq(Run)
  BY DEF LakeTypeOK
<1>4. n \in DOMAIN landed[d] /\ n \in Nat
  BY <1>3, SelectsLanded
<1>5. b \in Body
  <2>1. landed[d][n] \in Run
    BY <1>3, <1>4
  <2> QED BY <2>1, LakeAssumption DEF Run, Body_
<1>6. sqlite' = import_prices(d, x, b) /\ imports' = [imports EXCEPT ![d] = Append(imports[d], r)] /\ landed' = landed
  BY <1>2
<1>7. /\ Sqlite(x) /\ x.prices = sqlite.prices /\ x.sealed = sqlite.sealed
      /\ x.products = sqlite.products \cup b.sealed
  <2>1. sqlite = [prices |-> sqlite.prices, sealed |-> sqlite.sealed, products |-> sqlite.products]
    BY DEF Derived, ImportTypeOK, Sqlite
  <2> DEFINE q == sqlite.products \cup b.sealed
  <2>2. x = [sqlite EXCEPT !.products = q]
    BY DEF import_sealed_products
  <2> HIDE DEF q, x
  <2>3. x = [prices |-> sqlite.prices, sealed |-> sqlite.sealed, products |-> q]
    BY <2>1, <2>2
  <2> QED BY <2>3 DEF Sqlite, q
<1>8. x.products \subseteq Products
  BY <1>5, <1>7 DEF Derived, ImportTypeOK, Body
<1> HIDE DEF x, b
<1>9. Imported(d, x, b, Len(b.entries), sqlite')
  BY <1>5, <1>6, <1>7, BodyImported
<1>10. imports[d] \in Seq([run : Nat, sealed : SUBSET Products]) /\ r \in [run : Nat, sealed : SUBSET Products]
  BY <1>4, <1>8 DEF Derived, ImportTypeOK
<1>11. r.run = n /\ r.sealed = x.products
  OBVIOUS
<1> HIDE DEF r
<1>12. /\ Append(imports[d], r) \in Seq([run : Nat, sealed : SUBSET Products])
       /\ DOMAIN Append(imports[d], r) = DOMAIN imports[d] \cup {N} /\ N \notin DOMAIN imports[d]
       /\ \A i \in DOMAIN imports[d] : Append(imports[d], r)[i] = imports[d][i]
       /\ Append(imports[d], r)[N] = r
  BY <1>10
<1>13. DOMAIN imports = Days /\ imports \in [Days -> Seq([run : Nat, sealed : SUBSET Products])]
  BY DEF Derived, ImportTypeOK
<1> DEFINE a == Append(imports[d], r)
<1> HIDE DEF a
<1>14. imports' \in [Days -> Seq([run : Nat, sealed : SUBSET Products])] /\ imports'[d] = a
       /\ \A c \in Days \ {d} : imports'[c] = imports[c]
  BY <1>6, <1>12, <1>13 DEF a
<1>15. /\ DOMAIN imports'[d] = DOMAIN imports[d] \cup {N} /\ N \notin DOMAIN imports[d]
       /\ \A i \in DOMAIN imports[d] : imports'[d][i] = imports[d][i]
       /\ imports'[d][N].run = n /\ imports'[d][N].sealed = x.products
  BY <1>11, <1>12, <1>14 DEF a
<1>16. N \in Nat
  BY <1>10
<1>17. landed' = landed /\ b = Body_(d, n)
  BY <1>6 DEF b
<1> HIDE DEF N
<1>18. Deriving(d, n, b, N, x)
  BY <1>4, <1>7, <1>8, <1>9, <1>14, <1>15, <1>17 DEF Deriving
<1> QED BY <1>4, <1>5, <1>16, <1>18

LEMMA DeriveKeepsDerived == LakeTypeOK /\ Derived /\ Derive => Derived'
<1> SUFFICES ASSUME LakeTypeOK, Derived, Derive PROVE Derived'
  OBVIOUS
<1>1. PICK c \in Days, n \in Nat, b \in Body, N \in Nat : \E x : Deriving(c, n, b, N, x)
  BY DeriveDerives
<1>0. PICK x : Deriving(c, n, b, N, x)
  BY <1>1
<1> DEFINE y == sqlite'
<1>2. /\ landed' = landed /\ n \in DOMAIN landed[c] /\ b = Body_(c, n)
      /\ Sqlite(x) /\ x.prices = sqlite.prices /\ x.sealed = sqlite.sealed
      /\ x.products = sqlite.products \cup b.sealed /\ x.products \subseteq Products
  BY <1>0 DEF Deriving
<1>3. Imported(c, x, b, Len(b.entries), y)
  BY <1>0 DEF Deriving
<1>4. /\ imports' \in [Days -> Seq([run : Nat, sealed : SUBSET Products])]
      /\ \A d \in Days \ {c} : imports'[d] = imports[d]
      /\ DOMAIN imports'[c] = DOMAIN imports[c] \cup {N} /\ N \notin DOMAIN imports[c]
      /\ \A i \in DOMAIN imports[c] : imports'[c][i] = imports[c][i]
      /\ imports'[c][N].run = n /\ imports'[c][N].sealed = x.products
  BY <1>0 DEF Deriving
<1>5. Derivation(c, N)' = b
  BY <1>2, <1>4 DEF Derivation, Body_
<1>6. \A d \in Days : \A i \in DOMAIN imports[d] :
        i \in DOMAIN imports'[d] /\ imports'[d][i] = imports[d][i]
  BY <1>4
<1>7. \A d \in Days : \A i \in DOMAIN imports[d] :
        /\ Derivation(d, i)' = Derivation(d, i)
        /\ \A p, s, t : CardSource(d, i, p, s, t)' = CardSource(d, i, p, s, t)
        /\ \A p : SealedSource(d, i, p)' = SealedSource(d, i, p)
  <2>1. Grows
    BY <1>2 DEF Grows
  <2> QED BY <1>6, <2>1, DerivationStays DEF Derived
<1>8. \A d \in Days : \A i \in DOMAIN imports'[d] : i \in DOMAIN imports[d] \/ (d = c /\ i = N)
  BY <1>4
<1>9. Sqlite(y) /\ y.products = x.products
  BY <1>3 DEF Imported
<1>10. ImportTypeOK'
  BY <1>2, <1>4, <1>9 DEF ImportTypeOK, Sqlite
<1>11. ImportsLanded'
  <2>1. ASSUME NEW d \in Days, NEW i \in DOMAIN imports[d]
        PROVE  /\ imports'[d][i].run \in DOMAIN landed'[d]
               /\ Derivation(d, i)'.sealed \subseteq imports'[d][i].sealed
               /\ imports'[d][i].sealed \subseteq y.products
    BY <1>2, <1>6, <1>7, <1>9 DEF Derived, ImportsLanded
  <2>2. /\ imports'[c][N].run \in DOMAIN landed'[c]
        /\ Derivation(c, N)'.sealed \subseteq imports'[c][N].sealed
        /\ imports'[c][N].sealed \subseteq y.products
    BY <1>2, <1>4, <1>5, <1>9
  <2> QED BY <1>8, <2>1, <2>2 DEF ImportsLanded
<1> DEFINE l == Len(b.entries)
<1>12. l \in Nat /\ DOMAIN b.entries = 1 .. l
  <2>1. b.entries \in Seq(Entry)
    BY <1>2 DEF Body, Entry
  <2> QED BY <2>1
<1> HIDE DEF y, l
<1>13. CardsDerived'
  <2>1. \A p, s, t : CardSource(c, N, p, s, t)' <=> p \notin x.products /\ Quoting(b, <<p, s, t>>) # {}
    <3>1. \A p, s, t : Quoting(Derivation(c, N), <<p, s, t>>)' = Quoting(b, <<p, s, t>>)
      BY <1>5 DEF Quoting
    <3> QED BY <1>4, <3>1 DEF CardSource
  <2>2. \A d \in Days, p \in Products, s \in Subs, t \in PriceTypes :
          CardRow(c, x, b, l, <<p, s, t, d>>) <=> d = c /\ CardSource(c, N, p, s, t)'
    <3>1. \A g : (\E j \in 1 .. l : j \in Quoting(b, g)) <=> Quoting(b, g) # {}
      BY <1>12 DEF Quoting
    <3> TAKE d \in Days, p \in Products, s \in Subs, t \in PriceTypes
    <3>2. CardRow(c, x, b, l, <<p, s, t, d>>) =>
            d = c /\ p \notin x.products /\ \E j \in 1 .. l : j \in Quoting(b, <<p, s, t>>)
      BY DEF CardRow
    <3>3. d = c /\ p \notin x.products /\ (\E j \in 1 .. l : j \in Quoting(b, <<p, s, t>>)) =>
            CardRow(c, x, b, l, <<p, s, t, d>>)
      BY DEF CardRow
    <3> QED BY <2>1, <3>1, <3>2, <3>3
  <2>3. /\ \A k : k \in DOMAIN y.prices <=> k \in DOMAIN sqlite.prices \/ CardRow(c, x, b, l, k)
        /\ \A k \in DOMAIN sqlite.prices : y.prices[k] = sqlite.prices[k]
        /\ \A p \in Products, s \in Subs, t \in PriceTypes :
             <<p, s, t, c>> \in DOMAIN y.prices \ DOMAIN sqlite.prices =>
               y.prices[<<p, s, t, c>>] = CardPrice(b, <<p, s, t>>)
    BY <1>2, <1>3 DEF Imported, CardsImported, l
  <2>4. \A k \in DOMAIN y.prices : \E d \in Days, p \in Products, s \in Subs, t \in PriceTypes : k = <<p, s, t, d>>
    <3>1. \A k : CardRow(c, x, b, l, k) => \E p \in Products, s \in Subs, t \in PriceTypes : k = <<p, s, t, c>>
      BY DEF CardRow
    <3>2. \A k \in DOMAIN sqlite.prices : \E d \in Days, p \in Products, s \in Subs, t \in PriceTypes : k = <<p, s, t, d>>
      BY DEF Derived, CardsDerived
    <3> QED BY <2>3, <3>1, <3>2
  <2>5. ASSUME NEW d \in Days, NEW p \in Products, NEW s \in Subs, NEW t \in PriceTypes
        PROVE  /\ \A i \in DOMAIN imports'[d] : CardSource(d, i, p, s, t)' => <<p, s, t, d>> \in DOMAIN y.prices
               /\ <<p, s, t, d>> \in DOMAIN y.prices =>
                    \E i \in DOMAIN imports'[d] : CardSource(d, i, p, s, t)'
                       /\ y.prices[<<p, s, t, d>>] = CardPrice(Derivation(d, i)', <<p, s, t>>)
    <3> DEFINE k == <<p, s, t, d>>
    <3>1. /\ \A i \in DOMAIN imports[d] : CardSource(d, i, p, s, t) => k \in DOMAIN sqlite.prices
          /\ k \in DOMAIN sqlite.prices =>
               \E i \in DOMAIN imports[d] : CardSource(d, i, p, s, t)
                  /\ sqlite.prices[k] = CardPrice(Derivation(d, i), <<p, s, t>>)
      BY DEF Derived, CardsDerived
    <3>2. CardRow(c, x, b, l, k) <=> d = c /\ CardSource(c, N, p, s, t)'
      BY <2>2
    <3>3. k \in DOMAIN y.prices /\ k \notin DOMAIN sqlite.prices =>
            d = c /\ CardSource(c, N, p, s, t)' /\ y.prices[k] = CardPrice(b, <<p, s, t>>)
      BY <2>3, <3>2
    <3> HIDE DEF k
    <3>4. ASSUME NEW i \in DOMAIN imports'[d], CardSource(d, i, p, s, t)' PROVE k \in DOMAIN y.prices
      BY <1>7, <1>8, <2>3, <3>1, <3>2, <3>4
    <3>5. ASSUME k \in DOMAIN y.prices, k \in DOMAIN sqlite.prices
          PROVE  \E i \in DOMAIN imports'[d] : CardSource(d, i, p, s, t)'
                    /\ y.prices[k] = CardPrice(Derivation(d, i)', <<p, s, t>>)
      BY <1>6, <1>7, <2>3, <3>1, <3>5
    <3>6. ASSUME k \in DOMAIN y.prices, k \notin DOMAIN sqlite.prices
          PROVE  \E i \in DOMAIN imports'[d] : CardSource(d, i, p, s, t)'
                    /\ y.prices[k] = CardPrice(Derivation(d, i)', <<p, s, t>>)
      BY <1>4, <1>5, <3>3, <3>6
    <3> QED BY <3>4, <3>5, <3>6 DEF k
  <2>6. \A d, i, p, s, t : CardPrice(Derivation(d, i), <<p, s, t>>)' = CardPrice(Derivation(d, i)', <<p, s, t>>)
    BY DEF CardPrice, Quoting, Least
  <2> QED BY <2>4, <2>5, <2>6 DEF CardsDerived, y
<1>14. SealedDerived'
  <2>1. \A p : SealedSource(c, N, p)' <=> p \in x.products /\ Mentions(b, p) # {}
    <3>1. \A p : Mentions(Derivation(c, N), p)' = Mentions(b, p)
      BY <1>5 DEF Mentions
    <3> QED BY <1>4, <3>1 DEF SealedSource
  <2>2. \A d \in Days, p \in Products : SealedRow(c, x, b, l, <<p, d>>) <=> d = c /\ SealedSource(c, N, p)'
    <3>1. \A p : (\E j \in 1 .. l : b.entries[j].product = p) <=> Mentions(b, p) # {}
      BY <1>12 DEF Mentions
    <3> QED BY <2>1, <3>1 DEF SealedRow
  <2>3. /\ \A k : k \in DOMAIN y.sealed <=> k \in DOMAIN sqlite.sealed \/ SealedRow(c, x, b, l, k)
        /\ \A k \in DOMAIN sqlite.sealed : y.sealed[k] = sqlite.sealed[k]
        /\ \A p \in Products : <<p, c>> \in DOMAIN y.sealed \ DOMAIN sqlite.sealed =>
             y.sealed[<<p, c>>] = SealedQuotes(b, p)
    BY <1>2, <1>3 DEF Imported, SealedImported, l
  <2>4. \A k \in DOMAIN y.sealed : \E d \in Days, p \in Products : k = <<p, d>>
    BY <1>2, <2>3 DEF Derived, SealedDerived, SealedRow
  <2>5. ASSUME NEW d \in Days, NEW p \in Products
        PROVE  /\ \A i \in DOMAIN imports'[d] : SealedSource(d, i, p)' => <<p, d>> \in DOMAIN y.sealed
               /\ <<p, d>> \in DOMAIN y.sealed =>
                    \E i \in DOMAIN imports'[d] : SealedSource(d, i, p)'
                       /\ y.sealed[<<p, d>>] = SealedQuotes(Derivation(d, i)', p)
    <3> DEFINE k == <<p, d>>
    <3>1. /\ \A i \in DOMAIN imports[d] : SealedSource(d, i, p) => k \in DOMAIN sqlite.sealed
          /\ k \in DOMAIN sqlite.sealed =>
               \E i \in DOMAIN imports[d] : SealedSource(d, i, p)
                  /\ sqlite.sealed[k] = SealedQuotes(Derivation(d, i), p)
      BY DEF Derived, SealedDerived
    <3>2. SealedRow(c, x, b, l, k) <=> d = c /\ SealedSource(c, N, p)'
      BY <2>2
    <3>3. k \in DOMAIN y.sealed /\ k \notin DOMAIN sqlite.sealed =>
            d = c /\ SealedSource(c, N, p)' /\ y.sealed[k] = SealedQuotes(b, p)
      BY <2>3, <3>2
    <3> HIDE DEF k
    <3>4. ASSUME NEW i \in DOMAIN imports'[d], SealedSource(d, i, p)' PROVE k \in DOMAIN y.sealed
      BY <1>7, <1>8, <2>3, <3>1, <3>2, <3>4
    <3>5. ASSUME k \in DOMAIN y.sealed, k \in DOMAIN sqlite.sealed
          PROVE  \E i \in DOMAIN imports'[d] : SealedSource(d, i, p)'
                    /\ y.sealed[k] = SealedQuotes(Derivation(d, i)', p)
      BY <1>6, <1>7, <2>3, <3>1, <3>5
    <3>6. ASSUME k \in DOMAIN y.sealed, k \notin DOMAIN sqlite.sealed
          PROVE  \E i \in DOMAIN imports'[d] : SealedSource(d, i, p)'
                    /\ y.sealed[k] = SealedQuotes(Derivation(d, i)', p)
      BY <1>4, <1>5, <3>3, <3>6
    <3> QED BY <3>4, <3>5, <3>6 DEF k
  <2>6. \A d, i, p : SealedQuotes(Derivation(d, i), p)' = SealedQuotes(Derivation(d, i)', p)
    BY DEF SealedQuotes, Mentions, Least
  <2> QED BY <2>4, <2>5, <2>6 DEF SealedDerived, y
<1> QED BY <1>10, <1>11, <1>13, <1>14 DEF Derived

LEMMA DerivedHolds == LakeSpec => []Derived
<1>1. LakeInv /\ Derived /\ [LakeNext]_lakeVars => Derived'
  <2> SUFFICES ASSUME LakeInv, Derived, [LakeNext]_lakeVars PROVE Derived'
    OBVIOUS
  <2>1. CASE Derive
    BY <2>1, DeriveKeepsDerived DEF LakeInv
  <2>2. CASE ~Derive
    <3>1. UNCHANGED <<sqlite, imports>>
      BY <2>2 DEF LakeNext, lakeVars, Land, ReadProducts, ReadPrices, LoadTables, CommitPrices, CommitSealed,
                  Refused, Die
    <3>2. Grows
      <4>1. CASE Land
        BY <4>1, LandGrows DEF LakeInv
      <4>2. CASE ~Land
        <5>1. landed' = landed
          BY <2>2, <4>2 DEF LakeNext, lakeVars, ReadProducts, ReadPrices, LoadTables, CommitPrices, CommitSealed,
                            Refused, Die
        <5> QED BY <5>1 DEF Grows
      <4> QED BY <4>1, <4>2
    <3> QED BY <3>1, <3>2, OthersKeepDerived
  <2> QED BY <2>1, <2>2
<1> QED BY <1>1, DerivedStarts, LakeInvHolds, PTL DEF LakeSpec

\* One run alone, in the lake's reading.
LEMMA GreatestOne ==
  ASSUME NEW n \in Nat
  PROVE  Greatest({n}) = n
<1>1. n >= n
  OBVIOUS
<1> QED BY <1>1 DEF Greatest

CardsSaid(rows, b) ==
  /\ DOMAIN rows = {g \in Grain : Quoting(b, g) # {}}
  /\ \A g \in DOMAIN rows : rows[g] = CardPrice(b, g)
SealedSaid(rows, b) ==
  /\ DOMAIN rows = {j \in b.sealed \X PriceTypes : Mentions(b, j[1]) # {} /\ SealedQuotes(b, j[1])[j[2]] # NoPrice}
  /\ \A k \in DOMAIN rows : rows[k] = SealedQuotes(b, k[1])[k[2]]

LEMMA CardsOfOne ==
  ASSUME NEW d, NEW n \in Nat, NEW b, b = Body_(d, n)
  PROVE  CardsSaid(read_date(d, {n}), b)
<1> DEFINE by(g) == {k \in {n} : Quoting(Body_(d, k), g) # {}}
           price(g) == LET a == Body_(d, Greatest(by(g))) IN a.entries[Least(Quoting(a, g))].quotes[g[3]]
           keys == {g \in Grain : by(g) # {}}
<1>1. \A g : Quoting(b, g) # {} => by(g) = {n}
  OBVIOUS
<1>2. \A g : by(g) # {} <=> Quoting(b, g) # {}
  OBVIOUS
<1>3. ASSUME NEW g, Quoting(b, g) # {} PROVE price(g) = CardPrice(b, g)
  <2>1. Greatest(by(g)) = n
    <3> HIDE DEF by
    <3> QED BY <1>1, <1>3, GreatestOne
  <2> HIDE DEF by
  <2> QED BY <2>1 DEF CardPrice
<1>4. read_date(d, {n}) = [g \in keys |-> price(g)]
  BY DEF read_date
<1> HIDE DEF by, price
<1>5. keys = {g \in Grain : Quoting(b, g) # {}}
  BY <1>2
<1> HIDE DEF keys
<1>6. DOMAIN read_date(d, {n}) = keys /\ \A g \in keys : read_date(d, {n})[g] = price(g)
  BY <1>4
<1> QED BY <1>3, <1>5, <1>6 DEF CardsSaid

LEMMA SealedOfOne ==
  ASSUME NEW d, NEW n \in Nat, NEW b, b = Body_(d, n)
  PROVE  /\ sealed_product_ids(d, {n}) = b.sealed
         /\ SealedSaid(read_sealed(d, {n}, sealed_product_ids(d, {n})), b)
<1> DEFINE ids == sealed_product_ids(d, {n})
           by(p) == {k \in {n} : Mentions(Body_(d, k), p) # {}}
           entry(p) == LET a == Body_(d, Greatest(by(p))) IN a.entries[Least(Mentions(a, p))].quotes
           keys == {j \in ids \X PriceTypes : by(j[1]) # {} /\ entry(j[1])[j[2]] # NoPrice}
           rows == read_sealed(d, {n}, ids)
<1>1. ids = b.sealed
  BY DEF sealed_product_ids
<1>2. \A p : by(p) # {} <=> Mentions(b, p) # {}
  OBVIOUS
<1>3. ASSUME NEW p, Mentions(b, p) # {} PROVE entry(p) = SealedQuotes(b, p)
  <2>1. by(p) = {n}
    BY <1>3
  <2>2. Greatest(by(p)) = n
    <3> HIDE DEF by
    <3> QED BY <2>1, GreatestOne
  <2> HIDE DEF by
  <2> QED BY <2>2 DEF SealedQuotes
<1>4. rows = [k \in keys |-> entry(k[1])[k[2]]]
  BY DEF read_sealed
<1> HIDE DEF by, entry, ids, rows
<1>5. keys = {j \in b.sealed \X PriceTypes : Mentions(b, j[1]) # {} /\ SealedQuotes(b, j[1])[j[2]] # NoPrice}
  BY <1>1, <1>2, <1>3
<1>6. \A k \in keys : entry(k[1])[k[2]] = SealedQuotes(b, k[1])[k[2]]
  BY <1>2, <1>3
<1> HIDE DEF keys
<1>7. DOMAIN rows = keys /\ \A k \in keys : rows[k] = entry(k[1])[k[2]]
  BY <1>4
<1> QED BY <1>1, <1>5, <1>6, <1>7 DEF rows, ids, SealedSaid

\* Both sides have read date d, of one run that says b.
BothRead(d, n, b) ==
  /\ n \in DOMAIN landed[d] /\ b = Body_(d, n) /\ select_runs(d) = {n}
  /\ DOMAIN imports[d] # {}
  /\ \A i \in DOMAIN imports[d] : Derivation(d, i) = b
  /\ \A t \in Tables : FilesOf(t, d) = Written(t, [day |-> d, products |-> {n}, prices |-> {n}])

LEMMA SameRunReadsOne ==
  ASSUME LakeTypeOK, Derived, NEW d \in Days, SameRun(d)
  PROVE  \E n \in Nat, b \in Body : BothRead(d, n, b)
<1>1. PICK n \in DOMAIN landed[d] :
        /\ select_runs(d) = {n} /\ imports[d] # << >>
        /\ \A i \in DOMAIN imports[d] : imports[d][i].run = n
        /\ \A t \in Tables : FilesOf(t, d) = Written(t, [day |-> d, products |-> {n}, prices |-> {n}])
  BY DEF SameRun
<1>2. landed[d] \in Seq(Run)
  BY DEF LakeTypeOK
<1>3. n \in Nat /\ landed[d][n] \in Run
  BY <1>2
<1>4. Body_(d, n) \in Body
  BY <1>3, LakeAssumption DEF Run, Body_
<1>5. DOMAIN imports[d] # {}
  <2>1. imports[d] \in Seq([run : Nat, sealed : SUBSET Products])
    BY DEF Derived, ImportTypeOK
  <2> QED BY <1>1, <2>1
<1>6. \A i \in DOMAIN imports[d] : Derivation(d, i) = Body_(d, n)
  BY <1>1 DEF Derivation
<1>7. BothRead(d, n, Body_(d, n))
  BY <1>1, <1>5, <1>6 DEF BothRead
<1> QED BY <1>3, <1>4, <1>7

\* A key and its value as a row.
LEMMA Appended ==
  /\ \A p, t, v : Append(<<p, t>>, v) = <<p, t, v>>
  /\ \A p, s, t, v : Append(<<p, s, t>>, v) = <<p, s, t, v>>
<1>1. ASSUME NEW S, NEW k \in Seq(S), NEW v \in S
      PROVE  /\ Append(k, v) \in Seq(S) /\ Len(Append(k, v)) = Len(k) + 1
             /\ \A i \in 1 .. Len(k) : Append(k, v)[i] = k[i]
             /\ Append(k, v)[Len(k) + 1] = v
  OBVIOUS
<1>2. ASSUME NEW p, NEW t, NEW v PROVE Append(<<p, t>>, v) = <<p, t, v>>
  <2> DEFINE S == {p, t, v}
             k == <<p, t>>
             r == <<p, t, v>>
  <2>1. k \in Seq(S) /\ v \in S /\ Len(k) = 2 /\ k[1] = p /\ k[2] = t
    OBVIOUS
  <2>2. r \in Seq(S) /\ Len(r) = 3 /\ r[1] = p /\ r[2] = t /\ r[3] = v
    OBVIOUS
  <2> HIDE DEF k, r, S
  <2>3. /\ Append(k, v) \in Seq(S) /\ Len(Append(k, v)) = Len(k) + 1
        /\ \A i \in 1 .. Len(k) : Append(k, v)[i] = k[i]
        /\ Append(k, v)[Len(k) + 1] = v
    BY <1>1, <2>1
  <2>4. Append(k, v) = r
    BY <2>1, <2>2, <2>3
  <2> QED BY <2>4 DEF k, r
<1>3. ASSUME NEW p, NEW s, NEW t, NEW v PROVE Append(<<p, s, t>>, v) = <<p, s, t, v>>
  <2> DEFINE S == {p, s, t, v}
             k == <<p, s, t>>
             r == <<p, s, t, v>>
  <2>1. k \in Seq(S) /\ v \in S /\ Len(k) = 3 /\ k[1] = p /\ k[2] = s /\ k[3] = t
    OBVIOUS
  <2>2. r \in Seq(S) /\ Len(r) = 4 /\ r[1] = p /\ r[2] = s /\ r[3] = t /\ r[4] = v
    OBVIOUS
  <2> HIDE DEF k, r, S
  <2>3. /\ Append(k, v) \in Seq(S) /\ Len(Append(k, v)) = Len(k) + 1
        /\ \A i \in 1 .. Len(k) : Append(k, v)[i] = k[i]
        /\ Append(k, v)[Len(k) + 1] = v
    BY <1>1, <2>1
  <2>4. Append(k, v) = r
    BY <2>1, <2>2, <2>3
  <2> QED BY <2>4 DEF k, r
<1> QED BY <1>2, <1>3

\* The rows of a date both sides have read, in the lake.
CardsInLake(d, b) ==
  \A r : r \in Rows("prices", d) <=>
            \E p \in Products, s \in Subs, t \in PriceTypes :
               Quoting(b, <<p, s, t>>) # {} /\ r = <<p, s, t, CardPrice(b, <<p, s, t>>)>>
SealedInLake(d, b) ==
  \A r : r \in Rows("sealed", d) <=>
            \E p \in b.sealed, t \in PriceTypes :
               Mentions(b, p) # {} /\ SealedQuotes(b, p)[t] # NoPrice /\ r = <<p, t, SealedQuotes(b, p)[t]>>

LEMMA LakeRows ==
  ASSUME NEW d, NEW n \in Nat, NEW b \in Body, BothRead(d, n, b)
  PROVE  CardsInLake(d, b) /\ SealedInLake(d, b)
<1> DEFINE f == [day |-> d, products |-> {n}, prices |-> {n}]
<1>1. /\ RowsOf("prices", f) = read_date(d, {n})
      /\ RowsOf("sealed", f) = read_sealed(d, {n}, sealed_product_ids(d, {n}))
  BY DEF RowsOf
<1>2. \A t \in Tables : FilesOf(t, d) = Written(t, f)
  BY DEF BothRead
<1> HIDE DEF f
<1>3. \A t \in Tables : \A r : r \in Rows(t, d) <=> \E k \in DOMAIN RowsOf(t, f) : r = Append(k, RowsOf(t, f)[k])
  <2> TAKE t \in Tables
  <2>1. CASE DOMAIN RowsOf(t, f) = {}
    BY <1>2, <2>1 DEF Rows, Written
  <2>2. CASE DOMAIN RowsOf(t, f) # {}
    BY <1>2, <2>2 DEF Rows, Written
  <2> QED BY <2>1, <2>2
<1>4. \A r : r \in Rows("prices", d) <=>
        \E p \in Products, s \in Subs, t \in PriceTypes :
           Quoting(b, <<p, s, t>>) # {} /\ r = <<p, s, t, CardPrice(b, <<p, s, t>>)>>
  <2> DEFINE x == read_date(d, {n})
  <2>1. DOMAIN x = {g \in Grain : Quoting(b, g) # {}} /\ \A g \in DOMAIN x : x[g] = CardPrice(b, g)
    <3>1. b = Body_(d, n)
      BY DEF BothRead
    <3>2. CardsSaid(x, b)
      BY <3>1, CardsOfOne
    <3> HIDE DEF x
    <3> QED BY <3>2 DEF CardsSaid
  <2>2. \A r : r \in Rows("prices", d) <=> \E k \in DOMAIN x : r = Append(k, x[k])
    BY <1>1, <1>3 DEF Tables
  <2> HIDE DEF x
  <2>3. \A p \in Products, s \in Subs, t \in PriceTypes : <<p, s, t>> \in Grain
    BY DEF Grain
  <2>4. \A g \in Grain : \E p \in Products, s \in Subs, t \in PriceTypes : g = <<p, s, t>>
    BY DEF Grain
  <2>5. \A p, s, t, v : Append(<<p, s, t>>, v) = <<p, s, t, v>>
    BY Appended
  <2> TAKE r
  <2>6. ASSUME r \in Rows("prices", d)
        PROVE  \E p \in Products, s \in Subs, t \in PriceTypes :
                 Quoting(b, <<p, s, t>>) # {} /\ r = <<p, s, t, CardPrice(b, <<p, s, t>>)>>
    <3>1. PICK k \in DOMAIN x : r = Append(k, x[k])
      BY <2>2, <2>6
    <3>2. k \in Grain /\ Quoting(b, k) # {} /\ x[k] = CardPrice(b, k)
      BY <2>1
    <3>3. PICK p \in Products, s \in Subs, t \in PriceTypes : k = <<p, s, t>>
      BY <2>4, <3>2
    <3>4. r = <<p, s, t, CardPrice(b, <<p, s, t>>)>> /\ Quoting(b, <<p, s, t>>) # {}
      BY <2>5, <3>1, <3>2, <3>3
    <3> QED BY <3>4
  <2>7. ASSUME NEW p \in Products, NEW s \in Subs, NEW t \in PriceTypes,
               Quoting(b, <<p, s, t>>) # {}, r = <<p, s, t, CardPrice(b, <<p, s, t>>)>>
        PROVE  r \in Rows("prices", d)
    <3> DEFINE k == <<p, s, t>>
    <3>1. k \in Grain /\ Append(k, CardPrice(b, k)) = r
      BY <2>3, <2>5, <2>7
    <3> HIDE DEF k
    <3> QED BY <2>1, <2>2, <2>7, <3>1 DEF k
  <2> QED BY <2>6, <2>7
<1>5. \A r : r \in Rows("sealed", d) <=>
        \E p \in b.sealed, t \in PriceTypes :
           Mentions(b, p) # {} /\ SealedQuotes(b, p)[t] # NoPrice /\ r = <<p, t, SealedQuotes(b, p)[t]>>
  <2> DEFINE x == read_sealed(d, {n}, sealed_product_ids(d, {n}))
  <2>1. /\ DOMAIN x = {j \in b.sealed \X PriceTypes :
                         Mentions(b, j[1]) # {} /\ SealedQuotes(b, j[1])[j[2]] # NoPrice}
        /\ \A k \in DOMAIN x : x[k] = SealedQuotes(b, k[1])[k[2]]
    <3>1. b = Body_(d, n)
      BY DEF BothRead
    <3>2. SealedSaid(x, b)
      BY <3>1, SealedOfOne
    <3> HIDE DEF x
    <3> QED BY <3>2 DEF SealedSaid
  <2>2. \A r : r \in Rows("sealed", d) <=> \E k \in DOMAIN x : r = Append(k, x[k])
    BY <1>1, <1>3 DEF Tables
  <2> HIDE DEF x
  <2>3. \A p, t, v : Append(<<p, t>>, v) = <<p, t, v>>
    BY Appended
  <2>4. \A p, t : <<p, t>> \in DOMAIN x <=>
          p \in b.sealed /\ t \in PriceTypes /\ Mentions(b, p) # {} /\ SealedQuotes(b, p)[t] # NoPrice
    BY <2>1
  <2>5. \A k \in DOMAIN x : \E p \in b.sealed, t \in PriceTypes : k = <<p, t>>
    BY <2>1
  <2>6. \A p, t : <<p, t>> \in DOMAIN x => x[<<p, t>>] = SealedQuotes(b, p)[t]
    BY <2>1
  <2> TAKE r
  <2>7. ASSUME r \in Rows("sealed", d)
        PROVE  \E p \in b.sealed, t \in PriceTypes :
                 Mentions(b, p) # {} /\ SealedQuotes(b, p)[t] # NoPrice /\ r = <<p, t, SealedQuotes(b, p)[t]>>
    <3>1. PICK k \in DOMAIN x : r = Append(k, x[k])
      BY <2>2, <2>7
    <3>2. PICK p \in b.sealed, t \in PriceTypes : k = <<p, t>>
      BY <2>5
    <3> QED BY <2>3, <2>4, <2>6, <3>1, <3>2
  <2>8. ASSUME NEW p \in b.sealed, NEW t \in PriceTypes,
               Mentions(b, p) # {}, SealedQuotes(b, p)[t] # NoPrice, r = <<p, t, SealedQuotes(b, p)[t]>>
        PROVE  r \in Rows("sealed", d)
    BY <2>2, <2>3, <2>4, <2>6, <2>8
  <2> QED BY <2>7, <2>8
<1> QED BY <1>4, <1>5 DEF CardsInLake, SealedInLake

\* The rows of a product that is settled on a date, in shared.sqlite.
CardsInSqlite(p, d, b) ==
  \A s \in Subs, t \in PriceTypes :
     /\ <<p, s, t, d>> \in DOMAIN sqlite.prices <=> p \notin sqlite.products /\ Quoting(b, <<p, s, t>>) # {}
     /\ <<p, s, t, d>> \in DOMAIN sqlite.prices => sqlite.prices[<<p, s, t, d>>] = CardPrice(b, <<p, s, t>>)
SealedInSqlite(p, d, b) ==
  /\ <<p, d>> \in DOMAIN sqlite.sealed <=> p \in sqlite.products /\ Mentions(b, p) # {}
  /\ <<p, d>> \in DOMAIN sqlite.sealed => sqlite.sealed[<<p, d>>] = SealedQuotes(b, p)

LEMMA SqliteRows ==
  ASSUME Derived, NEW d \in Days, NEW n, NEW b, BothRead(d, n, b), NEW p \in Products, Settled(p, d)
  PROVE  CardsInSqlite(p, d, b) /\ SealedInSqlite(p, d, b)
<1>1. /\ DOMAIN imports[d] # {}
      /\ \A i \in DOMAIN imports[d] : Derivation(d, i) = b /\ imports[d][i].sealed \subseteq sqlite.products
  BY DEF BothRead, Derived, ImportsLanded
<1>2. Mentions(b, p) # {} => \A i \in DOMAIN imports[d] : p \in imports[d][i].sealed <=> p \in sqlite.products
  <2>1. Mentions(b, p) # {} => p \in Quoted(b)
    BY DEF Mentions, Quoted
  <2>2. \A i \in DOMAIN imports[d] : Body_(d, imports[d][i].run) = b
    BY <1>1 DEF Derivation
  <2> QED BY <1>1, <2>1, <2>2 DEF Settled
<1>3. \A s, t : Quoting(b, <<p, s, t>>) # {} => Mentions(b, p) # {}
  <2> TAKE s, t
  <2>1. \A i \in Quoting(b, <<p, s, t>>) : i \in DOMAIN b.entries
    BY DEF Quoting
  <2>2. \A i \in Quoting(b, <<p, s, t>>) : b.entries[i].product = p
    BY <2>1, QuotingIs
  <2> QED BY <2>1, <2>2 DEF Mentions
<1>4. \A i \in DOMAIN imports[d] : SealedSource(d, i, p) <=> p \in sqlite.products /\ Mentions(b, p) # {}
  BY <1>1, <1>2 DEF SealedSource
<1>5. \A s, t : \A i \in DOMAIN imports[d] :
        CardSource(d, i, p, s, t) <=> p \notin sqlite.products /\ Quoting(b, <<p, s, t>>) # {}
  BY <1>1, <1>2, <1>3 DEF CardSource
<1>6. ASSUME NEW s \in Subs, NEW t \in PriceTypes
      PROVE  /\ <<p, s, t, d>> \in DOMAIN sqlite.prices <=> p \notin sqlite.products /\ Quoting(b, <<p, s, t>>) # {}
             /\ <<p, s, t, d>> \in DOMAIN sqlite.prices =>
                  sqlite.prices[<<p, s, t, d>>] = CardPrice(b, <<p, s, t>>)
  <2> DEFINE k == <<p, s, t, d>>
  <2>1. /\ \A i \in DOMAIN imports[d] : CardSource(d, i, p, s, t) => k \in DOMAIN sqlite.prices
        /\ k \in DOMAIN sqlite.prices =>
             \E i \in DOMAIN imports[d] :
                CardSource(d, i, p, s, t) /\ sqlite.prices[k] = CardPrice(Derivation(d, i), <<p, s, t>>)
    BY DEF Derived, CardsDerived
  <2> HIDE DEF k
  <2> QED BY <1>1, <1>5, <2>1 DEF k
<1>7. /\ <<p, d>> \in DOMAIN sqlite.sealed <=> p \in sqlite.products /\ Mentions(b, p) # {}
      /\ <<p, d>> \in DOMAIN sqlite.sealed => sqlite.sealed[<<p, d>>] = SealedQuotes(b, p)
  <2> DEFINE k == <<p, d>>
  <2>1. /\ \A i \in DOMAIN imports[d] : SealedSource(d, i, p) => k \in DOMAIN sqlite.sealed
        /\ k \in DOMAIN sqlite.sealed =>
             \E i \in DOMAIN imports[d] : SealedSource(d, i, p) /\ sqlite.sealed[k] = SealedQuotes(Derivation(d, i), p)
    BY DEF Derived, SealedDerived
  <2> HIDE DEF k
  <2> QED BY <1>1, <1>4, <2>1 DEF k
<1> QED BY <1>6, <1>7 DEF CardsInSqlite, SealedInSqlite

\* A sealed product's row has the price of the first entry that mentions it, and the lake's
\* prices have that price under the entry's sub-type.
LEMMA FirstMention ==
  ASSUME NEW b \in Body, NEW p \in Products, NEW t \in PriceTypes,
         Mentions(b, p) # {}, SealedQuotes(b, p)[t] # NoPrice
  PROVE  \E s \in Subs : Quoting(b, <<p, s, t>>) # {} /\ CardPrice(b, <<p, s, t>>) = SealedQuotes(b, p)[t]
<1> DEFINE i == Least(Mentions(b, p))
           s == b.entries[i].sub
<1>1. b.entries \in Seq(Entry)
  BY DEF Body, Entry
<1>2. DOMAIN b.entries \subseteq Nat
  BY <1>1
<1>3. Mentions(b, p) \subseteq DOMAIN b.entries
  BY DEF Mentions
<1>4. i \in Mentions(b, p) /\ \A j \in Mentions(b, p) : i <= j
  BY <1>2, <1>3, LeastOf
<1> HIDE DEF i
<1>5. i \in DOMAIN b.entries /\ b.entries[i].product = p
  BY <1>4 DEF Mentions
<1>6. s \in Subs
  <2>1. b.entries[i] \in Entry
    BY <1>1, <1>5
  <2> QED BY <2>1 DEF Entry
<1>7. b.entries[i].quotes[t] = SealedQuotes(b, p)[t]
  BY DEF SealedQuotes, i
<1> DEFINE Q == Quoting(b, <<p, s, t>>)
<1>8. i \in Q
  BY <1>5, <1>7, QuotingIs
<1>9. Q \subseteq Mentions(b, p)
  <2>1. \A j \in Q : j \in DOMAIN b.entries
    BY DEF Quoting
  <2>2. \A j \in Q : b.entries[j].product = p
    BY <2>1, QuotingIs
  <2> QED BY <2>1, <2>2 DEF Mentions
<1>10. Least(Q) = i
  <2>1. Q \in SUBSET Int
    BY <1>2, <1>3, <1>9
  <2> HIDE DEF Q
  <2> QED BY <1>4, <1>8, <1>9, <2>1, LeastIs
<1>11. CardPrice(b, <<p, s, t>>) = SealedQuotes(b, p)[t]
  BY <1>7, <1>10 DEF CardPrice
<1> HIDE DEF s
<1> QED BY <1>6, <1>8, <1>11

LEMMA SettledCompares ==
  ASSUME LakeInv, Derived, NEW d \in Days, SameRun(d), \A p \in Products : Settled(p, d)
  PROVE  Compare(d)
<1>1. PICK n \in Nat, b \in Body : BothRead(d, n, b)
  BY SameRunReadsOne DEF LakeInv
<1> DEFINE night  == sealed_product_ids(d, select_runs(d))
           priced == {r \in Sealed(d) : r[3] # NoPrice}
           lake   == Rows("prices", d)
           kept   == Rows("sealed", d)
           history == {r \in priced : r[1] \notin night /\ \A q \in kept : <<q[1], q[2]>> # <<r[1], r[2]>>}
<1>2. night = b.sealed
  <2>1. b = Body_(d, n) /\ select_runs(d) = {n}
    BY <1>1 DEF BothRead
  <2> QED BY <2>1, SealedOfOne
<1>3. \A r : r \in lake <=>
        \E p \in Products, s \in Subs, t \in PriceTypes :
           Quoting(b, <<p, s, t>>) # {} /\ r = <<p, s, t, CardPrice(b, <<p, s, t>>)>>
  BY <1>1, LakeRows DEF CardsInLake
<1>4. \A r : r \in kept <=>
        \E p \in b.sealed, t \in PriceTypes :
           Mentions(b, p) # {} /\ SealedQuotes(b, p)[t] # NoPrice /\ r = <<p, t, SealedQuotes(b, p)[t]>>
  BY <1>1, LakeRows DEF SealedInLake
<1>5. \A p \in Products, s \in Subs, t \in PriceTypes :
        /\ <<p, s, t, d>> \in DOMAIN sqlite.prices <=> p \notin sqlite.products /\ Quoting(b, <<p, s, t>>) # {}
        /\ <<p, s, t, d>> \in DOMAIN sqlite.prices => sqlite.prices[<<p, s, t, d>>] = CardPrice(b, <<p, s, t>>)
  <2>1. \A p \in Products : CardsInSqlite(p, d, b)
    BY <1>1, SqliteRows
  <2> QED BY <2>1 DEF CardsInSqlite
<1>6. \A p \in Products :
        /\ <<p, d>> \in DOMAIN sqlite.sealed <=> p \in sqlite.products /\ Mentions(b, p) # {}
        /\ <<p, d>> \in DOMAIN sqlite.sealed => sqlite.sealed[<<p, d>>] = SealedQuotes(b, p)
  BY <1>1, SqliteRows DEF SealedInSqlite
<1>7. b.sealed \subseteq sqlite.products /\ b.sealed \subseteq Products
  BY <1>1 DEF BothRead, Derived, ImportsLanded, Body
<1> HIDE DEF night, lake, kept
<1>8. Singles(d) = {r \in lake : r[1] \notin sqlite.products}
  <2>1. ASSUME NEW r \in Singles(d) PROVE r \in lake /\ r[1] \notin sqlite.products
    <3>1. PICK k \in DOMAIN sqlite.prices : k[4] = d /\ r = <<k[1], k[2], k[3], sqlite.prices[k]>>
      BY DEF Singles
    <3>2. PICK c \in Days, p \in Products, s \in Subs, t \in PriceTypes : k = <<p, s, t, c>>
      BY DEF Derived, CardsDerived
    <3>3. c = d /\ r = <<p, s, t, sqlite.prices[k]>>
      BY <3>1, <3>2
    <3>4. /\ k = <<p, s, t, d>> /\ p \notin sqlite.products /\ Quoting(b, <<p, s, t>>) # {}
          /\ sqlite.prices[k] = CardPrice(b, <<p, s, t>>)
      BY <1>5, <3>2, <3>3
    <3>5. r = <<p, s, t, CardPrice(b, <<p, s, t>>)>> /\ r[1] = p
      BY <3>3, <3>4
    <3> QED BY <1>3, <3>4, <3>5
  <2>2. ASSUME NEW r \in lake, r[1] \notin sqlite.products PROVE r \in Singles(d)
    <3>1. PICK p \in Products, s \in Subs, t \in PriceTypes :
            Quoting(b, <<p, s, t>>) # {} /\ r = <<p, s, t, CardPrice(b, <<p, s, t>>)>>
      BY <1>3
    <3> DEFINE k == <<p, s, t, d>>
    <3>2. k[1] = p /\ k[2] = s /\ k[3] = t /\ k[4] = d /\ p \notin sqlite.products
      BY <2>2, <3>1
    <3>3. k \in DOMAIN sqlite.prices /\ sqlite.prices[k] = CardPrice(b, <<p, s, t>>)
      BY <1>5, <3>1, <3>2
    <3> HIDE DEF k
    <3> QED BY <3>1, <3>2, <3>3 DEF Singles
  <2> QED BY <2>1, <2>2
<1>9. \A r : r \in priced <=>
        \E p \in Products, t \in PriceTypes :
           /\ p \in sqlite.products /\ Mentions(b, p) # {}
           /\ SealedQuotes(b, p)[t] # NoPrice /\ r = <<p, t, SealedQuotes(b, p)[t]>>
  <2>1. ASSUME NEW r \in priced
        PROVE  \E p \in Products, t \in PriceTypes :
                 /\ p \in sqlite.products /\ Mentions(b, p) # {}
                 /\ SealedQuotes(b, p)[t] # NoPrice /\ r = <<p, t, SealedQuotes(b, p)[t]>>
    <3>1. PICK k \in DOMAIN sqlite.sealed, t \in PriceTypes : k[2] = d /\ r = <<k[1], t, sqlite.sealed[k][t]>>
      BY DEF Sealed
    <3>2. PICK c \in Days, p \in Products : k = <<p, c>>
      BY DEF Derived, SealedDerived
    <3>3. c = d /\ r = <<p, t, sqlite.sealed[k][t]>> /\ r[3] # NoPrice
      BY <3>1, <3>2
    <3>4. k = <<p, d>> /\ p \in sqlite.products /\ Mentions(b, p) # {} /\ sqlite.sealed[k] = SealedQuotes(b, p)
      BY <1>6, <3>2, <3>3
    <3>5. r = <<p, t, SealedQuotes(b, p)[t]>> /\ SealedQuotes(b, p)[t] # NoPrice
      BY <3>3, <3>4
    <3> QED BY <3>4, <3>5
  <2>2. ASSUME NEW r, NEW p \in Products, NEW t \in PriceTypes,
               p \in sqlite.products, Mentions(b, p) # {}, SealedQuotes(b, p)[t] # NoPrice,
               r = <<p, t, SealedQuotes(b, p)[t]>>
        PROVE  r \in priced
    <3> DEFINE k == <<p, d>>
    <3>1. k[1] = p /\ k[2] = d
      OBVIOUS
    <3>2. k \in DOMAIN sqlite.sealed /\ sqlite.sealed[k] = SealedQuotes(b, p)
      BY <1>6, <2>2
    <3> HIDE DEF k
    <3>3. r \in Sealed(d)
      BY <2>2, <3>1, <3>2 DEF Sealed
    <3> QED BY <2>2, <3>3
  <2> QED BY <2>1, <2>2
<1> HIDE DEF priced
<1>10. \A r \in priced : \E q \in lake : <<q[1], q[3], q[4]>> = r
  <2> TAKE r \in priced
  <2>1. PICK p \in Products, t \in PriceTypes :
          /\ p \in sqlite.products /\ Mentions(b, p) # {}
          /\ SealedQuotes(b, p)[t] # NoPrice /\ r = <<p, t, SealedQuotes(b, p)[t]>>
    BY <1>9
  <2>2. PICK s \in Subs : Quoting(b, <<p, s, t>>) # {} /\ CardPrice(b, <<p, s, t>>) = SealedQuotes(b, p)[t]
    BY <2>1, FirstMention
  <2> DEFINE q == <<p, s, t, CardPrice(b, <<p, s, t>>)>>
  <2>3. <<q[1], q[3], q[4]>> = r
    BY <2>1, <2>2
  <2>4. q \in lake
    BY <1>3, <2>2
  <2> HIDE DEF q
  <2> QED BY <2>3, <2>4
<1>11. \A r \in priced : r \notin history <=> r[1] \in b.sealed
  <2> TAKE r \in priced
  <2>1. ASSUME NEW q \in kept, <<q[1], q[2]>> = <<r[1], r[2]>> PROVE r[1] \in b.sealed
    <3>1. PICK p \in b.sealed, t \in PriceTypes : q = <<p, t, SealedQuotes(b, p)[t]>>
      BY <1>4
    <3>2. q[1] = p /\ q[1] = r[1]
      BY <2>1, <3>1
    <3> QED BY <3>2
  <2> QED BY <1>2, <2>1
<1>12. priced \ history = kept
  <2>1. ASSUME NEW r \in priced, r \notin history PROVE r \in kept
    <3>1. PICK p \in Products, t \in PriceTypes :
            /\ p \in sqlite.products /\ Mentions(b, p) # {}
            /\ SealedQuotes(b, p)[t] # NoPrice /\ r = <<p, t, SealedQuotes(b, p)[t]>>
      BY <1>9
    <3>2. r[1] = p
      BY <3>1
    <3>3. p \in b.sealed
      BY <1>11, <2>1, <3>2
    <3> QED BY <1>4, <3>1, <3>3
  <2>2. ASSUME NEW r \in kept PROVE r \in priced /\ r \notin history
    <3>1. PICK p \in b.sealed, t \in PriceTypes :
            Mentions(b, p) # {} /\ SealedQuotes(b, p)[t] # NoPrice /\ r = <<p, t, SealedQuotes(b, p)[t]>>
      BY <1>4
    <3>2. r[1] = p
      BY <3>1
    <3>3. p \in Products /\ p \in sqlite.products
      BY <1>7
    <3>4. r \in priced
      BY <1>9, <3>1, <3>3
    <3> QED BY <1>11, <3>2, <3>4
  <2> QED BY <2>1, <2>2
<1> QED BY <1>8, <1>10, <1>12 DEF Compare, night, priced, lake, kept

\* Once both readers have read one run of a date, pkdump-lake-verify-prices finds no difference,
\* whatever the run's entries are, in whatever order, and however many derivations read it:
\* entry by entry into shared.sqlite and the whole night at once into the lake come to one result.
THEOREM VerifyIsTrue == LakeSpec => []VerifyAgrees
<1>1. LakeInv /\ Derived => VerifyAgrees
  BY SettledCompares DEF VerifyAgrees
<1> QED BY <1>1, LakeInvHolds, DerivedHolds, PTL

-----------------------------------------------------------------------------
(***************************************************************************)
(* Valued from either side.  Day by day the two sides quote the same, so   *)
(* the newest day that quotes a price is the same day.                     *)
(***************************************************************************)

\* The quotes of the newest day of S that has any.
NewestOf(date, S) ==
    LET days == {d \in Upto(date) : S[d] # {}} IN IF days = {} THEN {} ELSE S[Greatest(days)]

LEMMA GreatestUpto ==
  ASSUME NEW date \in Days, NEW S \in SUBSET Upto(date), S # {}
  PROVE  Greatest(S) \in S
<1> DEFINE T == {date - x : x \in S}
<1>1. \A x \in S : x \in Int /\ date \in Int /\ x <= date
  BY LakeAssumption DEF Upto
<1>2. T \in SUBSET Nat /\ T # {}
  <2>1. \A x \in S : date - x \in Nat
    BY <1>1
  <2> QED BY <2>1
<1> DEFINE m == Least(T)
<1>3. m \in T /\ \A k \in T : m <= k
  <2> HIDE DEF T
  <2> QED BY <1>2, LeastOf
<1> HIDE DEF m
<1>4. PICK x \in S : m = date - x
  BY <1>3
<1>5. ASSUME NEW y \in S PROVE x >= y
  <2>1. date - x <= date - y
    BY <1>3, <1>4
  <2> QED BY <1>1, <2>1
<1> QED BY <1>5 DEF Greatest

\* The newest quotes but the nulls, where a day has quotes exactly when it has prices.
NoNulls(quotes) == {q \in quotes : q[2] # NoPrice}

LEMMA NewestPriced ==
  ASSUME NEW date \in Days, NEW S, NEW T,
         \A d \in Upto(date) : S[d] = NoNulls(T[d]) /\ (S[d] = {} => T[d] = {})
  PROVE  NewestOf(date, S) = NoNulls(NewestOf(date, T))
<1> DEFINE days == {d \in Upto(date) : S[d] # {}}
<1>0. NoNulls({}) = {}
  BY DEF NoNulls
<1>1. days = {d \in Upto(date) : T[d] # {}}
  BY <1>0
<1>2. days \in SUBSET Upto(date)
  OBVIOUS
<1>3. days = {} => NewestOf(date, S) = {} /\ NewestOf(date, T) = {}
  BY <1>1 DEF NewestOf
<1>4. days # {} => NewestOf(date, S) = S[Greatest(days)] /\ NewestOf(date, T) = T[Greatest(days)]
  BY <1>1 DEF NewestOf
<1> HIDE DEF days
<1>5. CASE days = {}
  BY <1>0, <1>3, <1>5
<1>6. CASE days # {}
  <2>1. Greatest(days) \in Upto(date)
    BY <1>2, <1>6, GreatestUpto
  <2>2. S[Greatest(days)] = NoNulls(T[Greatest(days)])
    BY <2>1
  <2> QED BY <1>4, <1>6, <2>2
<1> QED BY <1>5, <1>6

\* What either side quotes of a day: of a card's market price, and of a sealed product.
LakeQuotes(d, p, s)   == {r[4] : r \in {q \in Rows("prices", d) : <<q[1], q[2], q[3]>> = <<p, s, "market">>}}
SqliteQuotes(d, p, s) == {sqlite.prices[k] : k \in DOMAIN sqlite.prices \cap {<<p, s, "market", d>>}}
LakeSealed(d, p)      == {<<r[2], r[3]>> : r \in {q \in Rows("sealed", d) : q[1] = p}}
SqliteSealed(d, p)    == {<<t, sqlite.sealed[k][t]>> : k \in DOMAIN sqlite.sealed \cap {<<p, d>>}, t \in PriceTypes}

LEMMA Spending ==
  ASSUME NEW date \in Days, NEW p
  PROVE  /\ \A s : market_prices(date, p, s) = NewestOf(date, [d \in Upto(date) |-> LakeQuotes(d, p, s)])
         /\ \A s : prices_asof(date, p, s) = NewestOf(date, [d \in Upto(date) |-> SqliteQuotes(d, p, s)])
         /\ sealed_market_prices(date, p) = Coalesce(NewestOf(date, [d \in Upto(date) |-> LakeSealed(d, p)]))
         /\ sealed_prices_asof(date, p) =
              Coalesce({q \in NewestOf(date, [d \in Upto(date) |-> SqliteSealed(d, p)]) : q[2] # NoPrice})
<1>1. ASSUME NEW s PROVE market_prices(date, p, s) = NewestOf(date, [d \in Upto(date) |-> LakeQuotes(d, p, s)])
  <2> DEFINE S == [d \in Upto(date) |-> LakeQuotes(d, p, s)]
             days == {d \in Upto(date) : LakeQuotes(d, p, s) # {}}
  <2>1. {d \in Upto(date) : S[d] # {}} = days /\ days \in SUBSET Upto(date)
    OBVIOUS
  <2>2. days # {} => S[Greatest(days)] = LakeQuotes(Greatest(days), p, s)
    <3>1. days # {} => Greatest(days) \in Upto(date)
      <4> HIDE DEF days
      <4> QED BY <2>1, GreatestUpto
    <3> HIDE DEF days
    <3> QED BY <3>1
  <2>3. NewestOf(date, S) = IF days = {} THEN {} ELSE LakeQuotes(Greatest(days), p, s)
    <3> HIDE DEF days, S
    <3> QED BY <2>1, <2>2 DEF NewestOf
  <2>4. market_prices(date, p, s) = IF days = {} THEN {} ELSE LakeQuotes(Greatest(days), p, s)
    BY DEF market_prices, Newest, LakeQuotes
  <2> HIDE DEF days
  <2> QED BY <2>3, <2>4
<1>2. ASSUME NEW s PROVE prices_asof(date, p, s) = NewestOf(date, [d \in Upto(date) |-> SqliteQuotes(d, p, s)])
  <2> DEFINE S == [d \in Upto(date) |-> SqliteQuotes(d, p, s)]
             days == {d \in Upto(date) : SqliteQuotes(d, p, s) # {}}
  <2>1. {d \in Upto(date) : S[d] # {}} = days /\ days \in SUBSET Upto(date)
    OBVIOUS
  <2>2. days # {} => S[Greatest(days)] = SqliteQuotes(Greatest(days), p, s)
    <3>1. days # {} => Greatest(days) \in Upto(date)
      <4> HIDE DEF days
      <4> QED BY <2>1, GreatestUpto
    <3> HIDE DEF days
    <3> QED BY <3>1
  <2>3. NewestOf(date, S) = IF days = {} THEN {} ELSE SqliteQuotes(Greatest(days), p, s)
    <3> HIDE DEF days, S
    <3> QED BY <2>1, <2>2 DEF NewestOf
  <2>4. prices_asof(date, p, s) = IF days = {} THEN {} ELSE SqliteQuotes(Greatest(days), p, s)
    BY DEF prices_asof, Newest, SqliteQuotes
  <2> HIDE DEF days
  <2> QED BY <2>3, <2>4
<1>3. sealed_market_prices(date, p) = Coalesce(NewestOf(date, [d \in Upto(date) |-> LakeSealed(d, p)]))
  <2> DEFINE S == [d \in Upto(date) |-> LakeSealed(d, p)]
             days == {d \in Upto(date) : LakeSealed(d, p) # {}}
  <2>1. {d \in Upto(date) : S[d] # {}} = days /\ days \in SUBSET Upto(date)
    OBVIOUS
  <2>2. days # {} => S[Greatest(days)] = LakeSealed(Greatest(days), p)
    <3>1. days # {} => Greatest(days) \in Upto(date)
      <4> HIDE DEF days
      <4> QED BY <2>1, GreatestUpto
    <3> HIDE DEF days
    <3> QED BY <3>1
  <2>3. NewestOf(date, S) = IF days = {} THEN {} ELSE LakeSealed(Greatest(days), p)
    <3> HIDE DEF days, S
    <3> QED BY <2>1, <2>2 DEF NewestOf
  <2>4. sealed_market_prices(date, p) = Coalesce(IF days = {} THEN {} ELSE LakeSealed(Greatest(days), p))
    BY DEF sealed_market_prices, Newest, LakeSealed
  <2> HIDE DEF days
  <2> QED BY <2>3, <2>4
<1>4. sealed_prices_asof(date, p) = Coalesce({q \in NewestOf(date, [d \in Upto(date) |-> SqliteSealed(d, p)]) : q[2] # NoPrice})
  <2> DEFINE S == [d \in Upto(date) |-> SqliteSealed(d, p)]
             days == {d \in Upto(date) : SqliteSealed(d, p) # {}}
  <2>1. {d \in Upto(date) : S[d] # {}} = days /\ days \in SUBSET Upto(date)
    OBVIOUS
  <2>2. days # {} => S[Greatest(days)] = SqliteSealed(Greatest(days), p)
    <3>1. days # {} => Greatest(days) \in Upto(date)
      <4> HIDE DEF days
      <4> QED BY <2>1, GreatestUpto
    <3> HIDE DEF days
    <3> QED BY <3>1
  <2>3. NewestOf(date, S) = IF days = {} THEN {} ELSE SqliteSealed(Greatest(days), p)
    <3> HIDE DEF days, S
    <3> QED BY <2>1, <2>2 DEF NewestOf
  <2>4. sealed_prices_asof(date, p) = Coalesce({q \in (IF days = {} THEN {} ELSE SqliteSealed(Greatest(days), p)) : q[2] # NoPrice})
    BY DEF sealed_prices_asof, Newest, SqliteSealed
  <2> HIDE DEF days
  <2> QED BY <2>3, <2>4
<1> QED BY <1>1, <1>2, <1>3, <1>4

\* Of a date both sides have read, or neither.
Reached(d) == SameRun(d) \/ (imports[d] = << >> /\ \A t \in Tables : FilesOf(t, d) = {})

LEMMA NothingRead ==
  ASSUME Derived, NEW d \in Days, imports[d] = << >>, \A t \in Tables : FilesOf(t, d) = {}, NEW p \in Products
  PROVE  /\ \A s \in Subs : LakeQuotes(d, p, s) = {} /\ SqliteQuotes(d, p, s) = {}
         /\ LakeSealed(d, p) = {} /\ SqliteSealed(d, p) = {}
<1>1. Rows("prices", d) = {} /\ Rows("sealed", d) = {}
  BY DEF Rows, Tables
<1>2. DOMAIN imports[d] = {}
  OBVIOUS
<1>3. \A s \in Subs : <<p, s, "market", d>> \notin DOMAIN sqlite.prices
  BY <1>2 DEF Derived, CardsDerived, PriceTypes
<1>4. <<p, d>> \notin DOMAIN sqlite.sealed
  BY <1>2 DEF Derived, SealedDerived
<1>5. \A s \in Subs : SqliteQuotes(d, p, s) = {}
  BY <1>3 DEF SqliteQuotes
<1>6. SqliteSealed(d, p) = {}
  BY <1>4 DEF SqliteSealed
<1>7. \A s \in Subs : LakeQuotes(d, p, s) = {}
  BY <1>1 DEF LakeQuotes
<1>8. LakeSealed(d, p) = {}
  BY <1>1 DEF LakeSealed
<1> QED BY <1>5, <1>6, <1>7, <1>8

\* A card is quoted alike.
LEMMA CardsAgree ==
  ASSUME LakeInv, Derived, NEW d \in Days, Reached(d),
         NEW p \in Products, Settled(p, d), p \notin sqlite.products, NEW s \in Subs
  PROVE  LakeQuotes(d, p, s) = SqliteQuotes(d, p, s)
<1>1. CASE ~SameRun(d)
  BY <1>1, NothingRead DEF Reached
<1>2. CASE SameRun(d)
  <2>1. PICK n \in Nat, b \in Body : BothRead(d, n, b)
    BY <1>2, SameRunReadsOne DEF LakeInv
  <2>2. "market" \in PriceTypes
    BY DEF PriceTypes
  <2> DEFINE g == <<p, s, "market">>
             k == <<p, s, "market", d>>
             v == CardPrice(b, g)
             w == <<p, s, "market", v>>
  <2>3. CardsInLake(d, b) /\ CardsInSqlite(p, d, b)
    BY <2>1, LakeRows, SqliteRows
  <2>4. (k \in DOMAIN sqlite.prices <=> Quoting(b, g) # {}) /\ (k \in DOMAIN sqlite.prices => sqlite.prices[k] = v)
    BY <2>2, <2>3 DEF CardsInSqlite
  <2>5. \A q \in Rows("prices", d) : <<q[1], q[2], q[3]>> = g => q = w /\ q[4] = v /\ Quoting(b, g) # {}
    <3> TAKE q \in Rows("prices", d)
    <3>1. PICK p_ \in Products, s_ \in Subs, t_ \in PriceTypes :
            Quoting(b, <<p_, s_, t_>>) # {} /\ q = <<p_, s_, t_, CardPrice(b, <<p_, s_, t_>>)>>
      BY <2>3 DEF CardsInLake
    <3>2. <<q[1], q[2], q[3]>> = <<p_, s_, t_>> /\ q[4] = CardPrice(b, <<p_, s_, t_>>)
      BY <3>1
    <3>3. ASSUME <<q[1], q[2], q[3]>> = g PROVE p_ = p /\ s_ = s /\ t_ = "market"
      BY <3>2, <3>3
    <3> QED BY <3>1, <3>2, <3>3
  <2>6. Quoting(b, g) # {} => w \in Rows("prices", d)
    BY <2>2, <2>3 DEF CardsInLake
  <2>7. <<w[1], w[2], w[3]>> = g /\ w[4] = v
    OBVIOUS
  <2> HIDE DEF g, k, v, w
  <2> DEFINE X == {q \in Rows("prices", d) : <<q[1], q[2], q[3]>> = g}
  <2>8. LakeQuotes(d, p, s) = {r[4] : r \in X}
    BY DEF LakeQuotes, g
  <2>9. SqliteQuotes(d, p, s) = {sqlite.prices[j] : j \in DOMAIN sqlite.prices \cap {k}}
    BY DEF SqliteQuotes, k
  <2>10. CASE Quoting(b, g) = {}
    <3>1. X = {}
      BY <2>5, <2>10
    <3>2. DOMAIN sqlite.prices \cap {k} = {}
      BY <2>4, <2>10
    <3> HIDE DEF X
    <3> QED BY <2>8, <2>9, <3>1, <3>2
  <2>11. CASE Quoting(b, g) # {}
    <3>1. X = {w}
      BY <2>5, <2>6, <2>7, <2>11
    <3>2. DOMAIN sqlite.prices \cap {k} = {k} /\ sqlite.prices[k] = v
      BY <2>4, <2>11
    <3> HIDE DEF X
    <3> QED BY <2>7, <2>8, <2>9, <3>1, <3>2
  <2> QED BY <2>10, <2>11
<1> QED BY <1>1, <1>2

\* A sealed product that the listings show and never quote by nulls alone is quoted alike, the
\* nulls of its row in shared.sqlite aside.
LEMMA SealedAgree ==
  ASSUME LakeInv, Derived, NEW date \in Days, NEW d \in Upto(date), Reached(d),
         NEW p \in Products, Settled(p, d), p \in sqlite.products, Listed(p, date)
  PROVE  /\ LakeSealed(d, p) = {q \in SqliteSealed(d, p) : q[2] # NoPrice}
         /\ LakeSealed(d, p) = {} => SqliteSealed(d, p) = {}
<1>0. d \in Days
  BY DEF Upto
<1>1. CASE ~SameRun(d)
  <2>1. LakeSealed(d, p) = {} /\ SqliteSealed(d, p) = {}
    BY <1>0, <1>1, NothingRead DEF Reached
  <2> QED BY <2>1
<1>2. CASE SameRun(d)
  <2>1. PICK n \in Nat, b \in Body : BothRead(d, n, b)
    BY <1>0, <1>2, SameRunReadsOne DEF LakeInv
  <2>2. SealedInLake(d, b) /\ SealedInSqlite(p, d, b)
    BY <1>0, <2>1, LakeRows, SqliteRows
  <2> DEFINE v == SealedQuotes(b, p)
             k == <<p, d>>
  <2>3. (k \in DOMAIN sqlite.sealed <=> Mentions(b, p) # {}) /\ (k \in DOMAIN sqlite.sealed => sqlite.sealed[k] = v)
    BY <2>2 DEF SealedInSqlite
  <2>4. \A q : q \in LakeSealed(d, p) <=>
          \E t \in PriceTypes : p \in b.sealed /\ Mentions(b, p) # {} /\ v[t] # NoPrice /\ q = <<t, v[t]>>
    <3> TAKE q
    <3>1. ASSUME q \in LakeSealed(d, p)
          PROVE  \E t \in PriceTypes : p \in b.sealed /\ Mentions(b, p) # {} /\ v[t] # NoPrice /\ q = <<t, v[t]>>
      <4>1. PICK r \in Rows("sealed", d) : r[1] = p /\ q = <<r[2], r[3]>>
        BY <3>1 DEF LakeSealed
      <4>2. PICK p_ \in b.sealed, t \in PriceTypes :
              /\ Mentions(b, p_) # {} /\ SealedQuotes(b, p_)[t] # NoPrice
              /\ r = <<p_, t, SealedQuotes(b, p_)[t]>>
        BY <2>2 DEF SealedInLake
      <4>3. p_ = p /\ q = <<t, SealedQuotes(b, p_)[t]>>
        BY <4>1, <4>2
      <4> QED BY <4>2, <4>3
    <3>2. ASSUME NEW t \in PriceTypes, p \in b.sealed, Mentions(b, p) # {}, v[t] # NoPrice, q = <<t, v[t]>>
          PROVE  q \in LakeSealed(d, p)
      <4> DEFINE r == <<p, t, v[t]>>
      <4>1. r[1] = p /\ <<r[2], r[3]>> = q
        BY <3>2
      <4>2. r \in Rows("sealed", d)
        BY <2>2, <3>2 DEF SealedInLake
      <4> HIDE DEF r
      <4> QED BY <4>1, <4>2 DEF LakeSealed
    <3> QED BY <3>1, <3>2
  <2>5. \A q : q \in SqliteSealed(d, p) <=> \E t \in PriceTypes : Mentions(b, p) # {} /\ q = <<t, v[t]>>
    <3> HIDE DEF v
    <3>1. SqliteSealed(d, p) = {<<t, sqlite.sealed[j][t]>> : j \in DOMAIN sqlite.sealed \cap {k}, t \in PriceTypes}
      BY DEF SqliteSealed
    <3> HIDE DEF k
    <3>2. CASE Mentions(b, p) = {}
      <4>1. DOMAIN sqlite.sealed \cap {k} = {}
        BY <2>3, <3>2
      <4> QED BY <3>1, <3>2, <4>1
    <3>3. CASE Mentions(b, p) # {}
      <4>1. DOMAIN sqlite.sealed \cap {k} = {k} /\ sqlite.sealed[k] = v
        BY <2>3, <3>3
      <4> QED BY <3>1, <3>3, <4>1
    <3> QED BY <3>2, <3>3
  <2>6. Mentions(b, p) # {} => p \in b.sealed /\ \E t \in PriceTypes : v[t] # NoPrice
    <3> SUFFICES ASSUME Mentions(b, p) # {} PROVE p \in b.sealed /\ \E t \in PriceTypes : v[t] # NoPrice
      OBVIOUS
    <3>1. n \in DOMAIN landed[d] /\ b = Body_(d, n)
      BY <2>1 DEF BothRead
    <3>2. p \in Quoted(b)
      BY DEF Mentions, Quoted
    <3>3. p \in b.sealed /\ \A i \in Mentions(b, p) : \E t \in PriceTypes : b.entries[i].quotes[t] # NoPrice
      BY <3>1, <3>2 DEF Listed
    <3>4. Mentions(b, p) \in SUBSET Nat
      <4>1. b.entries \in Seq(Entry)
        BY DEF Body, Entry
      <4> QED BY <4>1 DEF Mentions
    <3>5. Least(Mentions(b, p)) \in Mentions(b, p)
      BY <3>4, LeastOf
    <3> QED BY <3>3, <3>5 DEF SealedQuotes
  <2> HIDE DEF v
  <2>7. LakeSealed(d, p) = {} => SqliteSealed(d, p) = {}
    BY <2>4, <2>5, <2>6
  <2>8. ASSUME NEW q PROVE q \in LakeSealed(d, p) <=> q \in SqliteSealed(d, p) /\ q[2] # NoPrice
    <3>1. \A t : <<t, v[t]>>[2] = v[t]
      OBVIOUS
    <3> QED BY <2>4, <2>5, <2>6, <3>1
  <2> QED BY <2>7, <2>8
<1> QED BY <1>1, <1>2

\* Where every night up to a date reached both sides or neither, a card is valued from the lake
\* at what it is valued at from shared.sqlite, and so is a sealed product that the listings show
\* and never quote by nulls alone: entry by entry or a night at once, type by type or row by row.
THEOREM ValuesAgree == LakeSpec => []AsOfAgrees
<1>1. ASSUME LakeInv, Derived PROVE AsOfAgrees
  <2> SUFFICES ASSUME NEW date \in Days, \A d \in Upto(date) : Reached(d),
                      NEW p \in Products, \A d \in Upto(date) : Settled(p, d)
               PROVE  IF p \notin sqlite.products
                      THEN \A s \in Subs : market_prices(date, p, s) = prices_asof(date, p, s)
                      ELSE Listed(p, date) => sealed_market_prices(date, p) = sealed_prices_asof(date, p)
    BY DEF AsOfAgrees, Reached
  <2>1. \A d \in Upto(date) : d \in Days
    BY DEF Upto
  <2>2. ASSUME p \notin sqlite.products, NEW s \in Subs PROVE market_prices(date, p, s) = prices_asof(date, p, s)
    <3>1. \A d \in Upto(date) : LakeQuotes(d, p, s) = SqliteQuotes(d, p, s)
      BY <1>1, <2>1, <2>2, CardsAgree
    <3>2. [d \in Upto(date) |-> LakeQuotes(d, p, s)] = [d \in Upto(date) |-> SqliteQuotes(d, p, s)]
      BY <3>1
    <3>3. market_prices(date, p, s) = NewestOf(date, [d \in Upto(date) |-> LakeQuotes(d, p, s)])
      BY Spending
    <3>4. prices_asof(date, p, s) = NewestOf(date, [d \in Upto(date) |-> SqliteQuotes(d, p, s)])
      BY Spending
    <3> QED BY <3>2, <3>3, <3>4
  <2>3. ASSUME p \in sqlite.products, Listed(p, date)
        PROVE  sealed_market_prices(date, p) = sealed_prices_asof(date, p)
    <3> DEFINE S == [d \in Upto(date) |-> LakeSealed(d, p)]
               T == [d \in Upto(date) |-> SqliteSealed(d, p)]
    <3>1. \A d \in Upto(date) : /\ LakeSealed(d, p) = {q \in SqliteSealed(d, p) : q[2] # NoPrice}
                                /\ LakeSealed(d, p) = {} => SqliteSealed(d, p) = {}
      BY <1>1, <2>3, SealedAgree
    <3>2. \A d \in Upto(date) : S[d] = NoNulls(T[d]) /\ (S[d] = {} => T[d] = {})
      BY <3>1 DEF NoNulls
    <3>3. /\ sealed_market_prices(date, p) = Coalesce(NewestOf(date, S))
          /\ sealed_prices_asof(date, p) = Coalesce(NoNulls(NewestOf(date, T)))
      BY Spending DEF NoNulls
    <3> HIDE DEF S, T
    <3>4. NewestOf(date, S) = NoNulls(NewestOf(date, T))
      BY <3>2, NewestPriced
    <3> QED BY <3>3, <3>4
  <2> QED BY <2>2, <2>3
<1>2. LakeInv /\ Derived => AsOfAgrees
  BY <1>1
<1> QED BY <1>2, LakeInvHolds, DerivedHolds, PTL

-----------------------------------------------------------------------------
(***************************************************************************)
(* What the valuation promises for any number of tenants, dates, commits   *)
(* and overlapping runs.  A run's two prices are both of the commit it     *)
(* pinned (Priced).  What it values a tenant at is not behind the cursor   *)
(* as it stood when the run began, though it looks before it writes:       *)
(* staged holdings only ever get newer, since there is one read-back and   *)
(* the zone does not shrink (Staged, Current).                             *)
(***************************************************************************)

Pairs == {NoRows} \cup {[cards |-> CardsAt(c), sealed |-> 0] : c \in Nat} \cup {Prices(c) : c \in Nat}

Valuing ==
    [at : {"pin", "cards", "sealed", "tenants", "write"}, date : Dates, ref : Nat, prices : Pairs,
     todo : SUBSET Tenants, tenant : Tenants \cup {None}, wrote : [Tenants -> Int], since : [Tenants -> Nat]]

TenantFile ==
    [shipped : Nat, staged : Nat \cup {None}, rows : [Dates -> Pairs \cup {Local}], ref : [Dates -> Nat]]

ValuationTypeOK ==
    /\ branch \in Nat /\ zone \in [Tenants -> Nat]
    /\ db \in [Tenants -> TenantFile]
    /\ readBack \in {Nothing} \cup [tenant : Tenants, seq : Nat]
    /\ run \in [Runs -> {Resting} \cup Valuing]
    /\ ended \in [Runs -> [code : {0, 1, 2}, wrote : {<< >>} \cup [Tenants -> Int],
                           since : {<< >>} \cup [Tenants -> Nat]]]

Priced ==
    \A r \in Runs :
        /\ run[r].at \in {"pin", "cards"} => run[r].prices = NoRows
        /\ run[r].at = "sealed" => run[r].prices = [cards |-> CardsAt(run[r].ref), sealed |-> 0]
        /\ run[r].at \in {"tenants", "write"} => run[r].prices = Prices(run[r].ref)

Staged ==
    /\ \A t \in Tenants : db[t].staged <= zone[t]
    /\ readBack # Nothing =>
         db[readBack.tenant].staged <= readBack.seq /\ readBack.seq <= zone[readBack.tenant]

Current ==
    \A r \in Runs : run[r] # Resting =>
        /\ \A t \in Tenants :
             run[r].since[t] <= db[t].shipped /\ (run[r].wrote[t] # None => run[r].since[t] <= run[r].wrote[t])
        /\ run[r].at = "write" =>
             /\ run[r].tenant \in Tenants
             /\ db[run[r].tenant].staged # None
             /\ run[r].since[run[r].tenant] <= db[run[r].tenant].staged

ValuationInv ==
    /\ ValuationTypeOK /\ Priced /\ Staged /\ Current
    /\ RefExplainsRows /\ StatusTells

LEMMA UnderWay ==
  ASSUME ValuationTypeOK, NEW r \in Runs
  PROVE  /\ run[r] = Resting \/ run[r] \in Valuing
         /\ run[r].at # "idle" => run[r] \in Valuing /\ run[r] # Resting
         /\ run[r] = Resting => run[r].at = "idle"
         /\ run[r] # Resting => run[r].at # "idle"
BY DEF ValuationTypeOK, Resting, Valuing

LEMMA ValuationStarts == ValuationInit => ValuationInv
<1> SUFFICES ASSUME ValuationInit PROVE ValuationInv
  OBVIOUS
<1>1. ValuationTypeOK
  BY DEF ValuationInit, ValuationTypeOK, TenantFile, Pairs, None, Nothing
<1>2. Priced /\ Current
  BY DEF ValuationInit, Priced, Current, Resting
<1>3. Staged /\ RefExplainsRows /\ StatusTells
  BY DEF ValuationInit, Staged, RefExplainsRows, StatusTells, None
<1> QED BY <1>1, <1>2, <1>3 DEF ValuationInv

\* A step of one run that leaves the databases alone.
LEMMA RunGoesOn ==
  ASSUME ValuationInv, NEW r \in Runs, NEW rec \in Valuing,
         run' = [run EXCEPT ![r] = rec], UNCHANGED <<zone, db, readBack, ended>>, branch' = branch,
         /\ rec.at \in {"pin", "cards"} => rec.prices = NoRows
         /\ rec.at = "sealed" => rec.prices = [cards |-> CardsAt(rec.ref), sealed |-> 0]
         /\ rec.at \in {"tenants", "write"} => rec.prices = Prices(rec.ref),
         \A t \in Tenants : rec.since[t] <= db[t].shipped /\ (rec.wrote[t] # None => rec.since[t] <= rec.wrote[t]),
         rec.at = "write" => /\ rec.tenant \in Tenants /\ db[rec.tenant].staged # None
                             /\ rec.since[rec.tenant] <= db[rec.tenant].staged
  PROVE  ValuationInv'
<1>1. run' \in [Runs -> {Resting} \cup Valuing] /\ run'[r] = rec /\ \A q \in Runs \ {r} : run'[q] = run[q]
  BY DEF ValuationInv, ValuationTypeOK
<1>2. ValuationTypeOK'
  BY <1>1 DEF ValuationInv, ValuationTypeOK
<1>3. Priced'
  BY <1>1 DEF ValuationInv, Priced
<1>4. Staged' /\ RefExplainsRows' /\ StatusTells'
  BY DEF ValuationInv, Staged, RefExplainsRows, StatusTells
<1>5. Current'
  BY <1>1 DEF ValuationInv, Current
<1> QED BY <1>2, <1>3, <1>4, <1>5 DEF ValuationInv

\* A run that is over, or killed.
LEMMA RunRests ==
  ASSUME ValuationInv, NEW r \in Runs, run' = [run EXCEPT ![r] = Resting],
         UNCHANGED <<branch, zone, db, readBack>>,
         ended' \in [Runs -> [code : {0, 1, 2}, wrote : {<< >>} \cup [Tenants -> Int],
                              since : {<< >>} \cup [Tenants -> Nat]]],
         StatusTells'
  PROVE  ValuationInv'
<1>1. run' \in [Runs -> {Resting} \cup Valuing] /\ run'[r] = Resting /\ \A q \in Runs \ {r} : run'[q] = run[q]
  BY DEF ValuationInv, ValuationTypeOK
<1>2. ValuationTypeOK'
  BY <1>1 DEF ValuationInv, ValuationTypeOK
<1>3. Priced' /\ Current'
  BY <1>1 DEF ValuationInv, Priced, Current, Resting
<1>4. Staged' /\ RefExplainsRows'
  BY DEF ValuationInv, Staged, RefExplainsRows
<1> QED BY <1>2, <1>3, <1>4 DEF ValuationInv

LEMMA RunEnds ==
  ASSUME ValuationInv, NEW r \in Runs, run[r] \in Valuing, NEW code \in {0, 1, 2}, Ended(r, code),
         UNCHANGED <<branch, zone, db, readBack>>,
         code = 0 => \A t \in Tenants : run[r].wrote[t] # None,
         code = 2 => \E t, u \in Tenants : run[r].wrote[t] # None /\ run[r].wrote[u] = None
  PROVE  ValuationInv'
<1>1. run' = [run EXCEPT ![r] = Resting] /\ ended' = [ended EXCEPT ![r] =
         [code |-> code, wrote |-> run[r].wrote, since |-> run[r].since]]
  BY DEF Ended
<1>2. run[r].wrote \in [Tenants -> Int] /\ run[r].since \in [Tenants -> Nat] /\ run[r] # Resting
  BY DEF Valuing, Resting
<1>3. ended' \in [Runs -> [code : {0, 1, 2}, wrote : {<< >>} \cup [Tenants -> Int],
                           since : {<< >>} \cup [Tenants -> Nat]]]
  BY <1>1, <1>2 DEF ValuationInv, ValuationTypeOK
<1>4. /\ ended'[r] = [code |-> code, wrote |-> run[r].wrote, since |-> run[r].since]
      /\ \A q \in Runs \ {r} : ended'[q] = ended[q]
  BY <1>1 DEF ValuationInv, ValuationTypeOK
<1>5. \A t \in Tenants : run[r].wrote[t] # None => run[r].since[t] <= run[r].wrote[t]
  BY <1>2 DEF ValuationInv, Current
<1>6. StatusTells'
  BY <1>4, <1>5 DEF ValuationInv, StatusTells
<1> QED BY <1>1, <1>3, <1>6, RunRests

\* What goes on beside the runs only ever makes the zone and the staged holdings newer.
LEMMA BesideRuns ==
  ASSUME ValuationInv,
         \/ build_prices \/ materialize
         \/ \E t \in Tenants : Put(t) \/ Advance(t) \/ read(t) \/ \E d \in Dates : backfill_one_date(t, d)
  PROVE  ValuationInv'
<1>0. /\ branch \in Nat /\ zone \in [Tenants -> Nat] /\ db \in [Tenants -> TenantFile]
      /\ readBack \in {Nothing} \cup [tenant : Tenants, seq : Nat]
  BY DEF ValuationInv, ValuationTypeOK
<1>1. CASE build_prices
  BY <1>0, <1>1 DEF build_prices, ValuationInv, ValuationTypeOK, Priced, Staged, Current, RefExplainsRows, StatusTells
<1>2. CASE materialize
  <2> DEFINE u == readBack.tenant
             rec == [db[u] EXCEPT !.staged = readBack.seq]
  <2>1. /\ u \in Tenants /\ readBack.seq \in Nat /\ rec \in TenantFile
        /\ db[u].staged <= readBack.seq /\ readBack.seq <= zone[u]
    BY <1>0, <1>2 DEF materialize, TenantFile, ValuationInv, Staged
  <2>2. db' = [db EXCEPT ![u] = rec] /\ readBack' = Nothing /\ UNCHANGED <<branch, zone, run, ended>>
    BY <1>2 DEF materialize
  <2>3. /\ rec.staged = readBack.seq /\ rec.shipped = db[u].shipped
        /\ rec.rows = db[u].rows /\ rec.ref = db[u].ref
    BY <1>0, <2>1 DEF TenantFile
  <2>4. db[u].staged \in Nat \cup {None}
    BY <1>0, <2>1 DEF TenantFile
  <2> HIDE DEF rec
  <2>5. db' \in [Tenants -> TenantFile] /\ db'[u] = rec /\ \A t \in Tenants \ {u} : db'[t] = db[t]
    BY <1>0, <2>1, <2>2
  <2>6. ValuationTypeOK'
    BY <2>2, <2>5 DEF ValuationInv, ValuationTypeOK
  <2>7. Priced' /\ StatusTells'
    BY <2>2 DEF ValuationInv, Priced, StatusTells
  <2>8. Staged'
    BY <2>1, <2>2, <2>3, <2>5 DEF ValuationInv, Staged
  <2>9. \A t \in Tenants : /\ db'[t].shipped = db[t].shipped /\ db'[t].rows = db[t].rows /\ db'[t].ref = db[t].ref
                           /\ db[t].staged # None => db'[t].staged # None /\ db[t].staged <= db'[t].staged
    <3> SUFFICES ASSUME NEW t \in Tenants
                 PROVE  /\ db'[t].shipped = db[t].shipped /\ db'[t].rows = db[t].rows /\ db'[t].ref = db[t].ref
                        /\ db[t].staged # None => db'[t].staged # None /\ db[t].staged <= db'[t].staged
      OBVIOUS
    <3>1. db[t].staged \in Nat \cup {None}
      BY <1>0 DEF TenantFile
    <3>2. CASE t = u
      BY <2>1, <2>3, <2>5, <3>2 DEF None
    <3>3. CASE t # u
      BY <2>5, <3>1, <3>3 DEF None
    <3> QED BY <3>2, <3>3
  <2>10. RefExplainsRows'
    BY <2>9 DEF ValuationInv, RefExplainsRows
  <2>11. Current'
    <3> SUFFICES ASSUME NEW r \in Runs, run[r] # Resting
                 PROVE  /\ \A t \in Tenants :
                             /\ run[r].since[t] <= db'[t].shipped
                             /\ run[r].wrote[t] # None => run[r].since[t] <= run[r].wrote[t]
                        /\ run[r].at = "write" =>
                             /\ run[r].tenant \in Tenants
                             /\ db'[run[r].tenant].staged # None
                             /\ run[r].since[run[r].tenant] <= db'[run[r].tenant].staged
      BY <2>2 DEF Current
    <3>1. run[r] \in Valuing
      BY UnderWay DEF ValuationInv
    <3>2. \A t \in Tenants : run[r].since[t] \in Nat
      BY <3>1 DEF Valuing
    <3>3. \A t \in Tenants : db[t].staged \in Nat \cup {None} /\ db'[t].staged \in Nat \cup {None}
      BY <1>0, <2>5 DEF TenantFile
    <3>4. \A t \in Tenants : db[t].staged # None /\ run[r].since[t] <= db[t].staged =>
                                db'[t].staged # None /\ run[r].since[t] <= db'[t].staged
      <4> SUFFICES ASSUME NEW t \in Tenants, db[t].staged # None, run[r].since[t] <= db[t].staged
                   PROVE  db'[t].staged # None /\ run[r].since[t] <= db'[t].staged
        OBVIOUS
      <4>1. db'[t].staged # None /\ db[t].staged <= db'[t].staged
        BY <2>9
      <4> QED BY <3>2, <3>3, <4>1
    <3> QED BY <2>9, <3>4 DEF ValuationInv, Current
  <2> QED BY <2>6, <2>7, <2>8, <2>10, <2>11 DEF ValuationInv
<1>3. ASSUME NEW u \in Tenants, Put(u) PROVE ValuationInv'
  <2>1. /\ zone' \in [Tenants -> Nat] /\ UNCHANGED <<branch, db, readBack, run, ended>>
        /\ \A t \in Tenants : zone[t] <= zone'[t] /\ zone[t] \in Nat /\ zone'[t] \in Nat
    BY <1>0, <1>3 DEF Put
  <2>2. ValuationTypeOK'
    BY <2>1 DEF ValuationInv, ValuationTypeOK
  <2>3. Priced' /\ Current' /\ RefExplainsRows' /\ StatusTells'
    BY <2>1 DEF ValuationInv, Priced, Current, RefExplainsRows, StatusTells
  <2>4. \A t \in Tenants : db[t].staged \in Int
    BY <1>0 DEF TenantFile, None
  <2>5. readBack # Nothing => readBack.tenant \in Tenants /\ readBack.seq \in Nat
    BY <1>0
  <2>6. Staged'
    <3>1. \A t \in Tenants : db[t].staged <= zone'[t]
      BY <2>1, <2>4 DEF ValuationInv, Staged
    <3>2. readBack # Nothing => readBack.seq <= zone'[readBack.tenant]
      BY <2>1, <2>5 DEF ValuationInv, Staged
    <3> QED BY <2>1, <3>1, <3>2 DEF ValuationInv, Staged
  <2> QED BY <2>2, <2>3, <2>6 DEF ValuationInv
<1>4. ASSUME NEW u \in Tenants, read(u) PROVE ValuationInv'
  <2>1. readBack' = [tenant |-> u, seq |-> zone[u]] /\ UNCHANGED <<branch, zone, db, run, ended>> /\ zone[u] \in Nat
    BY <1>0, <1>4 DEF read
  <2>2. ValuationTypeOK'
    BY <2>1 DEF ValuationInv, ValuationTypeOK
  <2>3. Priced' /\ Current' /\ RefExplainsRows' /\ StatusTells'
    BY <2>1 DEF ValuationInv, Priced, Current, RefExplainsRows, StatusTells
  <2>4. Staged'
    BY <2>1 DEF ValuationInv, Staged
  <2> QED BY <2>2, <2>3, <2>4 DEF ValuationInv
<1>5. ASSUME NEW u \in Tenants, NEW d \in Dates, backfill_one_date(u, d) PROVE ValuationInv'
  <2> DEFINE rec == [db[u] EXCEPT !.rows[d] = Local]
  <2>1. db' = [db EXCEPT ![u] = rec] /\ UNCHANGED <<branch, zone, readBack, run, ended>>
    BY <1>5 DEF backfill_one_date
  <2>2. /\ rec \in TenantFile /\ rec.shipped = db[u].shipped /\ rec.staged = db[u].staged
        /\ rec.ref = db[u].ref /\ rec.rows = [db[u].rows EXCEPT ![d] = Local]
    BY <1>0 DEF TenantFile
  <2>3. db[u].rows \in [Dates -> Pairs \cup {Local}]
    BY <1>0 DEF TenantFile
  <2> HIDE DEF rec
  <2>4. db' \in [Tenants -> TenantFile] /\ db'[u] = rec /\ \A t \in Tenants \ {u} : db'[t] = db[t]
    BY <1>0, <2>1, <2>2
  <2>5. ValuationTypeOK'
    BY <2>1, <2>4 DEF ValuationInv, ValuationTypeOK
  <2>6. \A t \in Tenants : db'[t].shipped = db[t].shipped /\ db'[t].staged = db[t].staged
    BY <2>2, <2>4
  <2>7. Priced' /\ StatusTells'
    BY <2>1 DEF ValuationInv, Priced, StatusTells
  <2>8. Staged'
    BY <1>0, <2>1, <2>6 DEF ValuationInv, Staged
  <2>9. Current'
    BY <2>1, <2>6 DEF ValuationInv, Current
  <2>10. RefExplainsRows'
    BY <2>2, <2>3, <2>4 DEF ValuationInv, RefExplainsRows
  <2> QED BY <2>5, <2>7, <2>8, <2>9, <2>10 DEF ValuationInv
<1>6. ASSUME NEW u \in Tenants, Advance(u) PROVE ValuationInv'
  <2> DEFINE rec == [db[u] EXCEPT !.shipped = @ + 1]
  <2>1. db' = [db EXCEPT ![u] = rec] /\ UNCHANGED <<branch, zone, readBack, run, ended>>
    BY <1>6 DEF Advance
  <2>2. /\ rec \in TenantFile /\ rec.shipped = db[u].shipped + 1 /\ rec.staged = db[u].staged
        /\ rec.ref = db[u].ref /\ rec.rows = db[u].rows /\ db[u].shipped \in Nat
    BY <1>0 DEF TenantFile
  <2> HIDE DEF rec
  <2>3. db' \in [Tenants -> TenantFile] /\ db'[u] = rec /\ \A t \in Tenants \ {u} : db'[t] = db[t]
    BY <1>0, <2>1, <2>2
  <2>4. ValuationTypeOK'
    BY <2>1, <2>3 DEF ValuationInv, ValuationTypeOK
  <2>5. \A t \in Tenants : /\ db'[t].staged = db[t].staged /\ db'[t].rows = db[t].rows /\ db'[t].ref = db[t].ref
                           /\ db[t].shipped \in Nat /\ db'[t].shipped \in Nat /\ db[t].shipped <= db'[t].shipped
    <3> SUFFICES ASSUME NEW t \in Tenants
                 PROVE  /\ db'[t].staged = db[t].staged /\ db'[t].rows = db[t].rows /\ db'[t].ref = db[t].ref
                        /\ db[t].shipped \in Nat /\ db'[t].shipped \in Nat /\ db[t].shipped <= db'[t].shipped
      OBVIOUS
    <3>1. db[t].shipped \in Nat
      BY <1>0 DEF TenantFile
    <3>2. CASE t = u
      BY <2>2, <2>3, <3>1, <3>2
    <3>3. CASE t # u
      BY <2>3, <3>1, <3>3
    <3> QED BY <3>2, <3>3
  <2>6. Priced' /\ StatusTells' /\ RefExplainsRows'
    BY <2>1, <2>5 DEF ValuationInv, Priced, StatusTells, RefExplainsRows
  <2>7. Staged'
    BY <1>0, <2>1, <2>5 DEF ValuationInv, Staged
  <2>8. Current'
    <3> SUFFICES ASSUME NEW r \in Runs, run[r] # Resting
                 PROVE  /\ \A t \in Tenants :
                             /\ run[r].since[t] <= db'[t].shipped
                             /\ run[r].wrote[t] # None => run[r].since[t] <= run[r].wrote[t]
                        /\ run[r].at = "write" =>
                             /\ run[r].tenant \in Tenants
                             /\ db'[run[r].tenant].staged # None
                             /\ run[r].since[run[r].tenant] <= db'[run[r].tenant].staged
      BY <2>1 DEF Current
    <3>1. \A t \in Tenants : run[r].since[t] \in Nat
      BY UnderWay DEF ValuationInv, Valuing
    <3>2. \A t \in Tenants : run[r].since[t] <= db'[t].shipped
      BY <2>5, <3>1 DEF ValuationInv, Current
    <3> QED BY <2>5, <3>2 DEF ValuationInv, Current
  <2> QED BY <2>4, <2>6, <2>7, <2>8 DEF ValuationInv
<1> QED BY <1>1, <1>2, <1>3, <1>4, <1>5, <1>6

\* A cursor wound back takes what the runs owe back with it.
LEMMA WindBackKeeps ==
  ASSUME ValuationInv, NEW u \in Tenants, WindBack(u)
  PROVE  ValuationInv'
<1> DEFINE rec == [db[u] EXCEPT !.shipped = 0]
<1>0. db \in [Tenants -> TenantFile] /\ run \in [Runs -> {Resting} \cup Valuing]
  BY DEF ValuationInv, ValuationTypeOK
<1>1. db' = [db EXCEPT ![u] = rec] /\ UNCHANGED <<branch, zone, readBack, ended>> /\ run' = Owed(u, 0)
  BY DEF WindBack
<1>2. /\ rec \in TenantFile /\ rec.shipped = 0 /\ rec.staged = db[u].staged
      /\ rec.ref = db[u].ref /\ rec.rows = db[u].rows
  BY <1>0 DEF TenantFile
<1> HIDE DEF rec
<1>3. db' \in [Tenants -> TenantFile] /\ db'[u] = rec /\ \A t \in Tenants \ {u} : db'[t] = db[t]
  BY <1>0, <1>1, <1>2
<1>4. ASSUME NEW r \in Runs
      PROVE  /\ run'[r] \in {Resting} \cup Valuing
             /\ run[r] = Resting => run'[r] = Resting
             /\ run[r] # Resting => /\ run'[r] = [run[r] EXCEPT !.since = run'[r].since] /\ run'[r] # Resting
                                    /\ run'[r].since \in [Tenants -> Nat] /\ run'[r].since[u] = 0
                                    /\ \A t \in Tenants : run'[r].since[t] <= run[r].since[t]
                                    /\ \A t \in Tenants \ {u} : run'[r].since[t] = run[r].since[t]
  <2>1. run'[r] = IF run[r].at = "idle" \/ run[r].since[u] <= 0 THEN run[r] ELSE [run[r] EXCEPT !.since[u] = 0]
    BY <1>1 DEF Owed
  <2>2. CASE run[r] = Resting
    BY <2>1, <2>2 DEF Resting
  <2>3. CASE run[r] # Resting
    <3>1. run[r] \in Valuing /\ run[r].at # "idle"
      BY <2>3, UnderWay DEF ValuationInv
    <3>2. run[r].since \in [Tenants -> Nat]
      BY <3>1 DEF Valuing
    <3>3. CASE run[r].since[u] <= 0
      <4>1. run'[r] = run[r] /\ run[r].since[u] = 0
        BY <2>1, <3>2, <3>3
      <4>2. run[r] = [run[r] EXCEPT !.since = run[r].since]
        BY <3>1 DEF Valuing
      <4> QED BY <2>3, <3>1, <3>2, <4>1, <4>2
    <3>4. CASE ~(run[r].since[u] <= 0)
      <4>1. run'[r] = [run[r] EXCEPT !.since = [run[r].since EXCEPT ![u] = 0]]
        BY <2>1, <3>1, <3>4
      <4>2. [run[r].since EXCEPT ![u] = 0] \in [Tenants -> Nat]
        BY <3>2
      <4>3. run'[r] \in Valuing /\ run'[r].since = [run[r].since EXCEPT ![u] = 0]
        BY <3>1, <4>1, <4>2 DEF Valuing
      <4> QED BY <3>2, <4>1, <4>3 DEF Valuing, Resting
    <3> QED BY <3>3, <3>4
  <2> QED BY <2>2, <2>3
<1>5. ASSUME NEW r \in Runs, run[r] # Resting
      PROVE  /\ run[r] \in Valuing
             /\ run'[r].at = run[r].at /\ run'[r].ref = run[r].ref /\ run'[r].prices = run[r].prices
             /\ run'[r].tenant = run[r].tenant /\ run'[r].wrote = run[r].wrote
  <2>1. run[r] \in Valuing
    BY <1>5, UnderWay DEF ValuationInv
  <2> QED BY <1>4, <1>5, <2>1 DEF Valuing
<1>6. \A r \in Runs : run'[r].at = run[r].at /\ (run[r].at # "idle" => run[r] # Resting)
  BY <1>4, <1>5, UnderWay DEF ValuationInv
<1>7. ValuationTypeOK'
  <2>1. run' \in [Runs -> {Resting} \cup Valuing]
    <3>1. run' = [r \in Runs |-> run'[r]]
      BY <1>1 DEF Owed
    <3> QED BY <1>4, <3>1
  <2> QED BY <1>1, <1>3, <2>1 DEF ValuationInv, ValuationTypeOK
<1>8. Priced'
  <2> SUFFICES ASSUME NEW r \in Runs, run[r].at # "idle"
               PROVE  /\ run[r].at \in {"pin", "cards"} => run'[r].prices = NoRows
                      /\ run[r].at = "sealed" => run'[r].prices = [cards |-> CardsAt(run'[r].ref), sealed |-> 0]
                      /\ run[r].at \in {"tenants", "write"} => run'[r].prices = Prices(run'[r].ref)
    BY <1>6 DEF Priced
  <2> QED BY <1>5, <1>6 DEF ValuationInv, Priced
<1>9. \A t \in Tenants : /\ db'[t].staged = db[t].staged /\ db'[t].rows = db[t].rows /\ db'[t].ref = db[t].ref
                         /\ db'[t].shipped = IF t = u THEN 0 ELSE db[t].shipped
  BY <1>2, <1>3
<1>10. RefExplainsRows' /\ StatusTells'
  BY <1>1, <1>9 DEF ValuationInv, RefExplainsRows, StatusTells
<1>11. Staged'
  <2>1. readBack # Nothing => readBack.tenant \in Tenants
    BY DEF ValuationInv, ValuationTypeOK
  <2> QED BY <1>1, <1>9, <2>1 DEF ValuationInv, Staged
<1>12. Current'
  <2> SUFFICES ASSUME NEW r \in Runs, run[r] # Resting
               PROVE  /\ \A t \in Tenants :
                           /\ run'[r].since[t] <= db'[t].shipped
                           /\ run'[r].wrote[t] # None => run'[r].since[t] <= run'[r].wrote[t]
                      /\ run'[r].at = "write" =>
                           /\ run'[r].tenant \in Tenants
                           /\ db'[run'[r].tenant].staged # None
                           /\ run'[r].since[run'[r].tenant] <= db'[run'[r].tenant].staged
    BY <1>4 DEF Current
  <2>1. run[r].since \in [Tenants -> Nat] /\ run[r].wrote \in [Tenants -> Int] /\ run'[r].since \in [Tenants -> Nat]
    BY <1>4, <1>5 DEF Valuing
  <2>2. ASSUME NEW t \in Tenants
        PROVE  /\ run'[r].since[t] <= db'[t].shipped
               /\ run'[r].wrote[t] # None => run'[r].since[t] <= run'[r].wrote[t]
    <3>1. /\ run[r].since[t] <= db[t].shipped
          /\ run[r].wrote[t] # None => run[r].since[t] <= run[r].wrote[t]
      BY DEF ValuationInv, Current
    <3>2. /\ run[r].since[t] \in Nat /\ run'[r].since[t] \in Nat /\ run[r].wrote[t] \in Int
          /\ run'[r].since[t] <= run[r].since[t] /\ run'[r].wrote[t] = run[r].wrote[t]
      BY <1>4, <1>5, <2>1
    <3>3. run'[r].since[t] <= db'[t].shipped
      <4>1. CASE t = u
        <5>1. run'[r].since[t] = 0 /\ db'[t].shipped = 0
          BY <1>4, <1>9, <4>1
        <5> QED BY <5>1
      <4>2. CASE t # u
        <5>1. run'[r].since[t] = run[r].since[t] /\ db'[t].shipped = db[t].shipped
          BY <1>4, <1>9, <4>2
        <5> QED BY <3>1, <5>1
      <4> QED BY <4>1, <4>2
    <3> QED BY <3>1, <3>2, <3>3
  <2>3. ASSUME run'[r].at = "write"
        PROVE  /\ run'[r].tenant \in Tenants
               /\ db'[run'[r].tenant].staged # None
               /\ run'[r].since[run'[r].tenant] <= db'[run'[r].tenant].staged
    <3> DEFINE t == run[r].tenant
    <3>1. run'[r].tenant = t /\ t \in Tenants /\ db[t].staged # None /\ run[r].since[t] <= db[t].staged
      BY <1>5, <2>3 DEF ValuationInv, Current
    <3>2. db[t].staged \in Nat /\ run[r].since[t] \in Nat /\ run'[r].since[t] \in Nat
      BY <1>0, <2>1, <3>1 DEF TenantFile
    <3>3. run'[r].since[t] <= run[r].since[t] /\ db'[t].staged = db[t].staged
      BY <1>4, <1>9, <3>1
    <3> HIDE DEF t
    <3> QED BY <3>1, <3>2, <3>3
  <2> QED BY <2>2, <2>3
<1> QED BY <1>7, <1>8, <1>10, <1>11, <1>12 DEF ValuationInv

\* A run from its beginning to its look at a tenant.
LEMMA RunReads ==
  ASSUME ValuationInv, NEW r \in Runs,
         \/ \E d \in Dates : Begin(r, d)
         \/ pin(r) \/ read_market_prices(r) \/ read_sealed_market_prices(r)
         \/ \E t \in Tenants : Look(r, t)
  PROVE  ValuationInv'
<1>0. run[r] # Resting => run[r] \in Valuing
  BY UnderWay DEF ValuationInv
<1>a. run[r].at # "idle" => run[r] # Resting
  BY DEF Resting
<1>b. /\ branch \in Nat /\ \A t \in Tenants : db[t].shipped \in Nat /\ db[t].staged \in Nat \cup {None}
  BY DEF ValuationInv, ValuationTypeOK, TenantFile
<1>1. ASSUME NEW d \in Dates, Begin(r, d) PROVE ValuationInv'
  <2> DEFINE rec == [at |-> "pin", date |-> d, ref |-> 0, prices |-> NoRows, todo |-> Tenants, tenant |-> None,
                     wrote |-> [t \in Tenants |-> None], since |-> [t \in Tenants |-> db[t].shipped]]
  <2>1. rec \in Valuing
    BY <1>b DEF Valuing, Pairs, None
  <2>2. run' = [run EXCEPT ![r] = rec] /\ UNCHANGED <<branch, zone, db, readBack, ended>>
    BY <1>1 DEF Begin
  <2>3. /\ rec.at = "pin" /\ rec.prices = NoRows
        /\ \A t \in Tenants : rec.since[t] = db[t].shipped /\ rec.wrote[t] = None
    OBVIOUS
  <2> HIDE DEF rec
  <2>4. \A t \in Tenants : rec.since[t] <= db[t].shipped
    BY <1>b, <2>3
  <2> QED BY <2>1, <2>2, <2>3, <2>4, RunGoesOn
<1>2. CASE pin(r)
  <2> DEFINE rec == [run[r] EXCEPT !.at = "cards", !.ref = branch]
  <2>1. run[r] \in Valuing /\ run[r].prices = NoRows
    BY <1>0, <1>a, <1>2 DEF pin, ValuationInv, Priced
  <2>2. /\ rec \in Valuing /\ rec.at = "cards" /\ rec.prices = NoRows
        /\ rec.since = run[r].since /\ rec.wrote = run[r].wrote
    BY <1>b, <2>1 DEF Valuing
  <2>3. run' = [run EXCEPT ![r] = rec] /\ UNCHANGED <<branch, zone, db, readBack, ended>>
    BY <1>2 DEF pin
  <2> HIDE DEF rec
  <2>4. \A t \in Tenants : rec.since[t] <= db[t].shipped /\ (rec.wrote[t] # None => rec.since[t] <= rec.wrote[t])
    BY <1>2, <1>a, <2>2 DEF pin, ValuationInv, Current
  <2> QED BY <2>2, <2>3, <2>4, RunGoesOn
<1>3. CASE read_market_prices(r)
  <2>1. run[r].at = "cards" /\ run[r] \in Valuing /\ run[r].prices = NoRows
    BY <1>0, <1>a, <1>3 DEF read_market_prices, ValuationInv, Priced
  <2>2. CASE CardsAt(run[r].ref) = 0
    BY <1>3, <2>1, <2>2, RunEnds DEF read_market_prices
  <2>3. CASE CardsAt(run[r].ref) # 0
    <3> DEFINE rec == [run[r] EXCEPT !.at = "sealed", !.prices.cards = CardsAt(run[r].ref)]
    <3>1. run' = [run EXCEPT ![r] = rec] /\ UNCHANGED <<branch, zone, db, readBack, ended>>
      BY <1>3, <2>3 DEF read_market_prices
    <3>2. [NoRows EXCEPT !.cards = CardsAt(run[r].ref)] = [cards |-> CardsAt(run[r].ref), sealed |-> 0]
      BY DEF NoRows
    <3>3. run[r].ref \in Nat /\ [cards |-> CardsAt(run[r].ref), sealed |-> 0] \in Pairs
      BY <2>1 DEF Valuing, Pairs
    <3>4. rec = [run[r] EXCEPT !.at = "sealed", !.prices = [cards |-> CardsAt(run[r].ref), sealed |-> 0]]
      BY <2>1, <3>2 DEF Valuing
    <3> HIDE DEF rec
    <3>5. /\ rec \in Valuing /\ rec.at = "sealed" /\ rec.ref = run[r].ref
          /\ rec.prices = [cards |-> CardsAt(rec.ref), sealed |-> 0]
          /\ rec.since = run[r].since /\ rec.wrote = run[r].wrote
      BY <2>1, <3>3, <3>4 DEF Valuing
    <3>6. \A t \in Tenants : rec.since[t] <= db[t].shipped /\ (rec.wrote[t] # None => rec.since[t] <= rec.wrote[t])
      BY <1>a, <2>1, <3>5 DEF ValuationInv, Current
    <3> QED BY <3>1, <3>5, <3>6, RunGoesOn
  <2> QED BY <2>2, <2>3
<1>4. CASE read_sealed_market_prices(r)
  <2>1. /\ run[r].at = "sealed" /\ run[r] \in Valuing
        /\ run[r].prices = [cards |-> CardsAt(run[r].ref), sealed |-> 0]
    BY <1>0, <1>a, <1>4 DEF read_sealed_market_prices, ValuationInv, Priced
  <2> DEFINE rec == [run[r] EXCEPT !.at = "tenants", !.prices.sealed = SealedAt(run[r].ref)]
  <2>2. run' = [run EXCEPT ![r] = rec] /\ UNCHANGED <<branch, zone, db, readBack, ended>>
    BY <1>4 DEF read_sealed_market_prices
  <2>3. [run[r].prices EXCEPT !.sealed = SealedAt(run[r].ref)] = Prices(run[r].ref)
    BY <2>1 DEF Prices
  <2>4. run[r].ref \in Nat /\ Prices(run[r].ref) \in Pairs
    BY <2>1 DEF Valuing, Pairs
  <2>5. rec = [run[r] EXCEPT !.at = "tenants", !.prices = Prices(run[r].ref)]
    BY <2>1, <2>3 DEF Valuing
  <2> HIDE DEF rec
  <2>6. /\ rec \in Valuing /\ rec.at = "tenants" /\ rec.ref = run[r].ref /\ rec.prices = Prices(rec.ref)
        /\ rec.since = run[r].since /\ rec.wrote = run[r].wrote
    BY <2>1, <2>4, <2>5 DEF Valuing
  <2>7. \A t \in Tenants : rec.since[t] <= db[t].shipped /\ (rec.wrote[t] # None => rec.since[t] <= rec.wrote[t])
    BY <1>a, <2>1, <2>6 DEF ValuationInv, Current
  <2> QED BY <2>2, <2>6, <2>7, RunGoesOn
<1>5. ASSUME NEW t \in Tenants, Look(r, t) PROVE ValuationInv'
  <2>1. /\ run[r].at = "tenants" /\ run[r] \in Valuing /\ run[r].prices = Prices(run[r].ref)
        /\ UNCHANGED <<branch, zone, db, readBack, ended>>
    BY <1>0, <1>a, <1>5 DEF Look, ValuationInv, Priced
  <2>2. /\ run[r].since \in [Tenants -> Nat]
        /\ \A u \in Tenants : /\ run[r].since[u] <= db[u].shipped
                              /\ run[r].wrote[u] # None => run[r].since[u] <= run[r].wrote[u]
    BY <1>a, <2>1 DEF ValuationInv, Current, Valuing
  <2>3. CASE run' = [run EXCEPT ![r].at = "write", ![r].tenant = t] /\ require_zone_holdings(t)
    <3> DEFINE rec == [run[r] EXCEPT !.at = "write", !.tenant = t]
    <3>1. run' = [run EXCEPT ![r] = rec]
      BY <2>3
    <3>2. /\ rec \in Valuing /\ rec.at = "write" /\ rec.ref = run[r].ref /\ rec.prices = Prices(rec.ref)
          /\ rec.tenant = t /\ rec.since = run[r].since /\ rec.wrote = run[r].wrote
      BY <2>1 DEF Valuing
    <3> HIDE DEF rec
    <3>3. db[t].staged # None /\ db[t].shipped <= db[t].staged
      BY <2>3 DEF require_zone_holdings
    <3>4. rec.since[t] <= db[t].staged
      <4>1. rec.since[t] \in Nat /\ rec.since[t] <= db[t].shipped
        BY <2>2, <3>2
      <4>2. db[t].staged \in Nat /\ db[t].shipped \in Nat
        BY <1>b, <3>3
      <4> QED BY <3>3, <4>1, <4>2
    <3> QED BY <2>1, <2>2, <3>1, <3>2, <3>3, <3>4, RunGoesOn
  <2>4. CASE run' = [run EXCEPT ![r].todo = @ \ {t}]
    <3> DEFINE rec == [run[r] EXCEPT !.todo = @ \ {t}]
    <3>1. run' = [run EXCEPT ![r] = rec]
      BY <2>4
    <3>2. /\ rec \in Valuing /\ rec.at = "tenants" /\ rec.ref = run[r].ref /\ rec.prices = Prices(rec.ref)
          /\ rec.since = run[r].since /\ rec.wrote = run[r].wrote
      BY <2>1 DEF Valuing
    <3> HIDE DEF rec
    <3> QED BY <2>1, <2>2, <3>1, <3>2, RunGoesOn
  <2> QED BY <1>5, <2>3, <2>4 DEF Look
<1> QED BY <1>1, <1>2, <1>3, <1>4, <1>5

\* The rows of a date and the row that explains them go in together.
LEMMA RunWrites ==
  ASSUME ValuationInv, NEW r \in Runs, write_snapshot(r)
  PROVE  ValuationInv'
<1>1. /\ run[r].at = "write" /\ run[r] \in Valuing /\ run[r] # Resting /\ run[r].prices = Prices(run[r].ref)
      /\ UNCHANGED <<branch, zone, readBack, ended>>
  BY UnderWay DEF write_snapshot, ValuationInv, Priced
<1> DEFINE u == run[r].tenant
           d == run[r].date
<1>2. /\ u \in Tenants /\ d \in Dates /\ run[r].ref \in Nat /\ db[u] \in TenantFile
      /\ db[u].staged \in Nat /\ run[r].since[u] <= db[u].staged
      /\ run[r].wrote \in [Tenants -> Int] /\ run[r].todo \in SUBSET Tenants
  <2>1. u \in Tenants /\ db[u].staged # None /\ run[r].since[u] <= db[u].staged
    BY <1>1 DEF ValuationInv, Current
  <2>2. db[u] \in TenantFile
    BY <2>1 DEF ValuationInv, ValuationTypeOK
  <2> QED BY <1>1, <2>1, <2>2 DEF Valuing, TenantFile
<1>3. \A t \in Tenants : /\ run[r].since[t] <= db[t].shipped
                         /\ run[r].wrote[t] # None => run[r].since[t] <= run[r].wrote[t]
  BY <1>1 DEF ValuationInv, Current
<1>4. CASE UNCHANGED db /\ run' = [run EXCEPT ![r].at = "tenants", ![r].todo = @ \ {run[r].tenant}, ![r].tenant = None]
  <2> DEFINE rec == [run[r] EXCEPT !.at = "tenants", !.todo = @ \ {u}, !.tenant = None]
  <2>1. run' = [run EXCEPT ![r] = rec]
    BY <1>4
  <2>2. /\ rec \in Valuing /\ rec.at = "tenants" /\ rec.ref = run[r].ref /\ rec.prices = Prices(rec.ref)
        /\ rec.since = run[r].since /\ rec.wrote = run[r].wrote
    BY <1>1 DEF Valuing
  <2>3. /\ UNCHANGED <<zone, db, readBack, ended>> /\ branch' = branch /\ rec.at \notin {"pin", "cards", "sealed", "write"}
        /\ \A t \in Tenants : rec.since[t] <= db[t].shipped /\ (rec.wrote[t] # None => rec.since[t] <= rec.wrote[t])
    BY <1>1, <1>3, <1>4, <2>2
  <2> HIDE DEF rec
  <2> QED BY <2>1, <2>2, <2>3, RunGoesOn
<1>5. CASE /\ db' = [db EXCEPT ![u].rows[d] = run[r].prices, ![u].ref[d] = run[r].ref]
           /\ run' = [run EXCEPT ![r].at = "tenants", ![r].todo = @ \ {u}, ![r].tenant = None,
                                 ![r].wrote[u] = db[u].staged]
  <2> DEFINE rec == [run[r] EXCEPT !.at = "tenants", !.todo = @ \ {u}, !.tenant = None, !.wrote[u] = db[u].staged]
             file == [db[u] EXCEPT !.rows[d] = run[r].prices, !.ref[d] = run[r].ref]
  <2>1. run' = [run EXCEPT ![r] = rec] /\ db' = [db EXCEPT ![u] = file]
    BY <1>5
  <2>2. [run[r].wrote EXCEPT ![u] = db[u].staged] \in [Tenants -> Int]
    BY <1>2
  <2>3. /\ rec \in Valuing /\ rec.at = "tenants" /\ rec.ref = run[r].ref /\ rec.prices = Prices(rec.ref)
        /\ rec.since = run[r].since /\ rec.wrote = [run[r].wrote EXCEPT ![u] = db[u].staged] /\ rec # Resting
    BY <1>1, <2>2 DEF Valuing, Resting
  <2>4. /\ Prices(run[r].ref) \in Pairs
        /\ db[u].rows \in [Dates -> Pairs \cup {Local}] /\ db[u].ref \in [Dates -> Nat]
    BY <1>2 DEF Pairs, TenantFile
  <2>5. /\ file \in TenantFile /\ file.shipped = db[u].shipped /\ file.staged = db[u].staged
        /\ file.rows = [db[u].rows EXCEPT ![d] = Prices(run[r].ref)]
        /\ file.ref = [db[u].ref EXCEPT ![d] = run[r].ref]
    BY <1>1, <1>2, <2>4 DEF TenantFile
  <2> HIDE DEF rec, file
  <2>6. db' \in [Tenants -> TenantFile] /\ db'[u] = file /\ \A t \in Tenants \ {u} : db'[t] = db[t]
    BY <1>2, <2>1, <2>5 DEF ValuationInv, ValuationTypeOK
  <2>7. run' \in [Runs -> {Resting} \cup Valuing] /\ run'[r] = rec /\ \A q \in Runs \ {r} : run'[q] = run[q]
    BY <2>1, <2>3 DEF ValuationInv, ValuationTypeOK
  <2>8. ValuationTypeOK'
    BY <1>1, <2>6, <2>7 DEF ValuationInv, ValuationTypeOK
  <2>9. Priced'
    BY <2>3, <2>7 DEF ValuationInv, Priced
  <2>10. \A t \in Tenants : db'[t].shipped = db[t].shipped /\ db'[t].staged = db[t].staged
    BY <2>5, <2>6
  <2>11. Staged' /\ StatusTells'
    <3>1. readBack # Nothing => readBack.tenant \in Tenants
      BY DEF ValuationInv, ValuationTypeOK
    <3>2. Staged'
      BY <1>1, <2>10, <3>1 DEF ValuationInv, Staged
    <3>3. StatusTells'
      BY <1>1 DEF ValuationInv, StatusTells
    <3> QED BY <3>2, <3>3
  <2>12. RefExplainsRows'
    <3> SUFFICES ASSUME NEW t \in Tenants, NEW e \in Dates, db'[t].rows[e] \notin {NoRows, Local}
                 PROVE  db'[t].rows[e] = Prices(db'[t].ref[e])
      BY DEF RefExplainsRows
    <3>1. CASE t = u /\ e = d
      BY <1>2, <2>4, <2>5, <2>6, <3>1
    <3>2. CASE ~(t = u /\ e = d)
      <4>1. db'[t].rows[e] = db[t].rows[e] /\ db'[t].ref[e] = db[t].ref[e]
        BY <2>4, <2>5, <2>6, <3>2
      <4> QED BY <4>1 DEF ValuationInv, RefExplainsRows
    <3> QED BY <3>1, <3>2
  <2>13. Current'
    <3>1. \A t \in Tenants : rec.since[t] <= db[t].shipped /\ (rec.wrote[t] # None => rec.since[t] <= rec.wrote[t])
      BY <1>2, <1>3, <2>3
    <3> SUFFICES ASSUME NEW q \in Runs, run'[q] # Resting
                 PROVE  /\ \A t \in Tenants :
                             /\ run'[q].since[t] <= db'[t].shipped
                             /\ run'[q].wrote[t] # None => run'[q].since[t] <= run'[q].wrote[t]
                        /\ run'[q].at = "write" =>
                             /\ run'[q].tenant \in Tenants
                             /\ db'[run'[q].tenant].staged # None
                             /\ run'[q].since[run'[q].tenant] <= db'[run'[q].tenant].staged
      BY DEF Current
    <3>2. CASE q = r
      BY <2>3, <2>7, <2>10, <3>1, <3>2
    <3>3. CASE q # r
      BY <2>7, <2>10, <3>3 DEF ValuationInv, Current
    <3> QED BY <3>2, <3>3
  <2> QED BY <2>8, <2>9, <2>11, <2>12, <2>13 DEF ValuationInv
<1> QED BY <1>4, <1>5 DEF write_snapshot

LEMMA ValuationSteps == ValuationInv /\ [ValuationNext]_valuationVars => ValuationInv'
<1> SUFFICES ASSUME ValuationInv, [ValuationNext]_valuationVars PROVE ValuationInv'
  OBVIOUS
<1>1. ASSUME NEW r \in Runs, report(r) PROVE ValuationInv'
  <2> DEFINE done == {t \in Tenants : run[r].wrote[t] # None}
             code == IF done = {} THEN 1 ELSE IF done # Tenants THEN 2 ELSE 0
  <2>1. run[r] \in Valuing
    BY <1>1, UnderWay DEF report, ValuationInv
  <2>2. Ended(r, code) /\ UNCHANGED <<branch, zone, db, readBack>> /\ code \in {0, 1, 2}
    BY <1>1 DEF report
  <2>3. /\ code = 0 => \A t \in Tenants : run[r].wrote[t] # None
        /\ code = 2 => \E t, u \in Tenants : run[r].wrote[t] # None /\ run[r].wrote[u] = None
    OBVIOUS
  <2> HIDE DEF code
  <2> QED BY <2>1, <2>2, <2>3, RunEnds
<1>2. ASSUME NEW r \in Runs, Kill(r) PROVE ValuationInv'
  <2>1. run' = [run EXCEPT ![r] = Resting] /\ UNCHANGED <<branch, zone, db, readBack, ended>>
    BY <1>2 DEF Kill
  <2> QED BY <2>1, RunRests DEF ValuationInv, ValuationTypeOK, StatusTells
<1>3. CASE UNCHANGED valuationVars
  BY <1>3 DEF valuationVars, ValuationInv, ValuationTypeOK, Priced, Staged, Current, RefExplainsRows, StatusTells
<1>4. CASE ValuationNext
  BY <1>1, <1>2, <1>4, BesideRuns, WindBackKeeps, RunReads, RunWrites DEF ValuationNext
<1> QED BY <1>3, <1>4

LEMMA ValuationInvHolds == ValuationSpec => []ValuationInv
BY ValuationStarts, ValuationSteps, PTL DEF ValuationSpec

\* collection_value_snapshot_run names the commit both prices of the rows beside it came
\* from, however many runs value however many dates while the tables are rebuilt.
THEOREM RefsExplainRows == ValuationSpec => []RefExplainsRows
<1>1. ValuationInv => RefExplainsRows
  BY DEF ValuationInv
<1> QED BY <1>1, ValuationInvHolds, PTL

\* A run that ends with status 0 valued everybody, at holdings no older than what had been
\* shipped when it began; one that ends with status 2 valued some.
THEOREM StatusIsTrue == ValuationSpec => []StatusTells
<1>1. ValuationInv => StatusTells
  BY DEF ValuationInv
<1> QED BY <1>1, ValuationInvHolds, PTL
=============================================================================
