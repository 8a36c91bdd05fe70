--------------------------- MODULE OpeningProofs ----------------------------
(***************************************************************************)
(* What the fingerprint of the shared catalog tells, and what a derivation *)
(* leaves for the next one, for any number of builds, servers, derivations *)
(* and other opens, wherever they die.                                     *)
(*                                                                         *)
(* A convergence is eleven transactions and others write between them, so  *)
(* the invariant follows each process through its program: the seeds it    *)
(* has passed are its own build's or of a build that wrote beside it since *)
(* it passed the gate (SoFar).  The fingerprint it records last inherits   *)
(* that (Told).  A seed row whose target an ingest brought is owed by the  *)
(* derivation that is past its ingest, or by one that ended there          *)
(* (Underway).                                                             *)
(***************************************************************************)
EXTENDS Opening, TLAPS

-----------------------------------------------------------------------------
(* The programs. *)

Offset(p) == IF p \in Servers THEN 1 ELSE 0

LEMMA Converging ==
  /\ Len(converge) = 11
  /\ converge[1] = "gate" /\ converge[2] = "columns" /\ converge[3] = "shape"
  /\ converge[4] = "variants" /\ converge[5] = "sub_types" /\ converge[6] = "bundles"
  /\ converge[7] = "set_aliases" /\ converge[8] = "catalog_prices" /\ converge[9] = "search"
  /\ converge[10] = "stamp" /\ converge[11] = "record"
BY DEF converge

LEMMA Deriving ==
  /\ Len(derive) = 7
  /\ derive[1] = "variants" /\ derive[2] = "sub_types" /\ derive[3] = "bundles"
  /\ derive[4] = "begin" /\ derive[5] = "ingest" /\ derive[6] = "set_aliases"
  /\ derive[7] = "catalog_prices"
BY DEF derive

\* The derivation's program and the server's.
LEMMA DeriveProgram ==
  LET P == converge \o derive IN
  /\ Len(P) = 18
  /\ P[1] = "gate" /\ P[2] = "columns" /\ P[3] = "shape" /\ P[4] = "variants"
  /\ P[5] = "sub_types" /\ P[6] = "bundles" /\ P[7] = "set_aliases" /\ P[8] = "catalog_prices"
  /\ P[9] = "search" /\ P[10] = "stamp" /\ P[11] = "record" /\ P[12] = "variants"
  /\ P[13] = "sub_types" /\ P[14] = "bundles" /\ P[15] = "begin" /\ P[16] = "ingest"
  /\ P[17] = "set_aliases" /\ P[18] = "catalog_prices"
BY DEF converge, derive

LEMMA ServeProgram ==
  LET P == <<"probe">> \o converge IN
  /\ Len(P) = 12
  /\ P[1] = "probe" /\ P[2] = "gate" /\ P[3] = "columns" /\ P[4] = "shape"
  /\ P[5] = "variants" /\ P[6] = "sub_types" /\ P[7] = "bundles" /\ P[8] = "set_aliases"
  /\ P[9] = "catalog_prices" /\ P[10] = "search" /\ P[11] = "stamp" /\ P[12] = "record"
BY DEF converge

LEMMA OneOfEleven ==
  ASSUME NEW i \in 1 .. 11
  PROVE  i = 1 \/ i = 2 \/ i = 3 \/ i = 4 \/ i = 5 \/ i = 6 \/ i = 7 \/ i = 8 \/ i = 9 \/ i = 10 \/ i = 11
OBVIOUS

\* Every program is a convergence, after a server's probe and before a derivation's own steps.
LEMMA Programs ==
  ASSUME NEW p \in Procs
  PROVE  /\ Offset(p) \in {0, 1}
         /\ \A i \in 1 .. 11 : Program(p)[i + Offset(p)] = converge[i]
         /\ Offset(p) = 1 => Program(p)[1] = "probe"
         /\ p \notin Derives => Len(Program(p)) = 11 + Offset(p)
         /\ p \in Derives => /\ Len(Program(p)) = 18 /\ Offset(p) = 0
                             /\ \A i \in 1 .. 7 : Program(p)[11 + i] = derive[i]
<1>1. CASE p \in Derives
  <2>1. Program(p) = converge \o derive /\ Offset(p) = 0
    BY <1>1, OpeningAssumption DEF Program, Offset
  <2>2. ASSUME NEW i \in 1 .. 11 PROVE Program(p)[i + Offset(p)] = converge[i]
    <3>1. i + Offset(p) = i
      BY <2>1
    <3>2. (converge \o derive)[i] = converge[i]
      BY OneOfEleven, DeriveProgram, Converging
    <3> QED BY <2>1, <3>1, <3>2
  <2>3. ASSUME NEW i \in 1 .. 7 PROVE Program(p)[11 + i] = derive[i]
    <3>0. i = 1 \/ i = 2 \/ i = 3 \/ i = 4 \/ i = 5 \/ i = 6 \/ i = 7
      OBVIOUS
    <3>1. \/ (i = 1 /\ 11 + i = 12) \/ (i = 2 /\ 11 + i = 13) \/ (i = 3 /\ 11 + i = 14) \/ (i = 4 /\ 11 + i = 15)
          \/ (i = 5 /\ 11 + i = 16) \/ (i = 6 /\ 11 + i = 17) \/ (i = 7 /\ 11 + i = 18)
      BY <3>0
    <3>2. (converge \o derive)[11 + i] = derive[i]
      BY <3>1, DeriveProgram, Deriving
    <3> QED BY <2>1, <3>2
  <2>4. Len(Program(p)) = 18
    BY <2>1, DeriveProgram
  <2>5. Offset(p) \in {0, 1} /\ Offset(p) # 1
    BY <2>1
  <2> QED BY <1>1, <2>1, <2>2, <2>3, <2>4, <2>5, Zenon
<1>2. CASE p \in Servers
  <2>1. Program(p) = <<"probe">> \o converge /\ Offset(p) = 1 /\ p \notin Derives
    BY <1>2, OpeningAssumption DEF Program, Offset
  <2>2. ASSUME NEW i \in 1 .. 11 PROVE Program(p)[i + Offset(p)] = converge[i]
    <3>1. i + Offset(p) = i + 1
      BY <2>1
    <3>2. (<<"probe">> \o converge)[i + 1] = converge[i]
      BY OneOfEleven, ServeProgram, Converging
    <3> QED BY <2>1, <3>1, <3>2
  <2>3. Len(Program(p)) = 12 /\ Program(p)[1] = "probe"
    BY <2>1, ServeProgram
  <2> QED BY <2>1, <2>2, <2>3
<1>3. CASE p \notin Derives /\ p \notin Servers
  <2>1. Program(p) = converge /\ Offset(p) = 0
    BY <1>3 DEF Program, Offset
  <2>2. \A i \in 1 .. 11 : i + 0 = i
    OBVIOUS
  <2> QED BY <1>3, <2>1, <2>2, Converging
<1> QED BY <1>1, <1>2, <1>3

\* Where the steps are that the arguments turn on.
LEMMA Places ==
  ASSUME NEW p \in Procs, NEW i \in 1 .. Len(Program(p))
  PROVE  /\ Program(p)[i] = "gate" => i = 1 + Offset(p)
         /\ Program(p)[i] = "record" => i = 11 + Offset(p)
         /\ Program(p)[i] = "ingest" => p \in Derives /\ i = 16
         /\ Program(p)[i] = "columns" => i = 2 + Offset(p)
         /\ Program(p)[i] = "probe" => i = 1 /\ p \in Servers
         /\ Program(p)[i] = "begin" => i = 15
<1> DEFINE P == Program(p)
<1>1. CASE i <= Offset(p)
  <2>1. i = 1 /\ Offset(p) = 1 /\ P[i] = "probe" /\ p \in Servers
    BY <1>1, Programs DEF Offset
  <2> QED BY <2>1
<1>2. CASE i > Offset(p) /\ i <= 11 + Offset(p)
  <2>1. PICK j \in 1 .. 11 : i = j + Offset(p)
    <3>1. i - Offset(p) \in 1 .. 11 /\ i = (i - Offset(p)) + Offset(p)
      BY <1>2, Programs
    <3> QED BY <3>1
  <2>2. P[i] = converge[j]
    BY <2>1, Programs
  <2> HIDE DEF P
  <2>3. CASE j <= 6
    <3>1. \/ (j = 1 /\ P[i] = "gate") \/ (j = 2 /\ P[i] = "columns") \/ (j = 3 /\ P[i] = "shape")
          \/ (j = 4 /\ P[i] = "variants") \/ (j = 5 /\ P[i] = "sub_types") \/ (j = 6 /\ P[i] = "bundles")
      <4>1. j = 1 \/ j = 2 \/ j = 3 \/ j = 4 \/ j = 5 \/ j = 6
        BY <2>3, OneOfEleven
      <4> QED BY <4>1, <2>2, Converging
    <3> QED BY <2>1, <3>1 DEF P
  <2>4. CASE j > 6
    <3>1. \/ (j = 7 /\ P[i] = "set_aliases") \/ (j = 8 /\ P[i] = "catalog_prices") \/ (j = 9 /\ P[i] = "search")
          \/ (j = 10 /\ P[i] = "stamp") \/ (j = 11 /\ P[i] = "record")
      <4>1. j = 7 \/ j = 8 \/ j = 9 \/ j = 10 \/ j = 11
        BY <2>4, OneOfEleven
      <4> QED BY <4>1, <2>2, Converging
    <3> QED BY <2>1, <3>1 DEF P
  <2>5. j <= 6 \/ j > 6
    OBVIOUS
  <2> QED BY <2>3, <2>4, <2>5, Zenon
<1>3. CASE i > 11 + Offset(p)
  <2>1. p \in Derives /\ i \in 12 .. 18 /\ Offset(p) = 0
    <3>1. /\ Offset(p) \in {0, 1}
          /\ p \notin Derives => Len(Program(p)) = 11 + Offset(p)
          /\ p \in Derives => Len(Program(p)) = 18 /\ Offset(p) = 0
      BY Programs
    <3>2. CASE p \in Derives
      <4>1. i \in 1 .. 18 /\ i > 11 + 0
        BY <1>3, <3>1, <3>2
      <4> QED BY <4>1, <3>1, <3>2
    <3>3. CASE p \notin Derives
      <4>1. i <= 11 + Offset(p)
        BY <3>1, <3>3
      <4>2. i \in Int
        OBVIOUS
      <4> QED BY <1>3, <3>1, <4>1, <4>2
    <3> QED BY <3>2, <3>3
  <2>2. PICK j \in 1 .. 7 : i = 11 + j
    <3>1. i - 11 \in 1 .. 7 /\ i = 11 + (i - 11)
      BY <2>1
    <3> QED BY <3>1
  <2>3. P[i] = derive[j]
    BY <2>1, <2>2, Programs
  <2> HIDE DEF P
  <2>4. \/ (j = 1 /\ P[i] = "variants") \/ (j = 2 /\ P[i] = "sub_types") \/ (j = 3 /\ P[i] = "bundles")
        \/ (j = 4 /\ P[i] = "begin") \/ (j = 5 /\ P[i] = "ingest") \/ (j = 6 /\ P[i] = "set_aliases")
        \/ (j = 7 /\ P[i] = "catalog_prices")
    <3>1. j = 1 \/ j = 2 \/ j = 3 \/ j = 4 \/ j = 5 \/ j = 6 \/ j = 7
      BY <2>2
    <3> QED BY <3>1, <2>3, Deriving
  <2> QED BY <2>1, <2>2, <2>4 DEF P
<1> QED BY <1>1, <1>2, <1>3, Programs

\* No seed is written before the gate, every seed before the fingerprint.
LEMMA SeedsLieBetween ==
  ASSUME NEW p \in Procs
  PROVE  /\ \A i \in 1 .. Offset(p) + 2 : Program(p)[i] \notin Seeds
         /\ \A s \in Seeds : \E i \in 1 .. 10 + Offset(p) : Program(p)[i] = s
<1>1. ASSUME NEW i \in 1 .. Offset(p) + 2 PROVE Program(p)[i] \notin Seeds
  <2>1. Program(p)[i] \in {"probe", "gate", "columns"}
    <3>1. CASE Offset(p) = 0
      <4>1. Program(p)[1 + 0] = converge[1] /\ Program(p)[2 + 0] = converge[2]
        BY <3>1, Programs
      <4> QED BY <3>1, <4>1, Converging
    <3>2. CASE Offset(p) = 1
      <4>1. Program(p)[1] = "probe" /\ Program(p)[1 + 1] = converge[1] /\ Program(p)[2 + 1] = converge[2]
        BY <3>2, Programs
      <4> QED BY <3>2, <4>1, Converging
    <3> QED BY <3>1, <3>2, Programs
  <2> QED BY <2>1 DEF Seeds
<1>2. ASSUME NEW s \in Seeds PROVE \E i \in 1 .. 10 + Offset(p) : Program(p)[i] = s
  <2>1. PICK j \in 1 .. 10 : converge[j] = s
    <3>1. s = converge[3] \/ s = converge[4] \/ s = converge[5] \/ s = converge[6] \/ s = converge[9]
      BY Converging DEF Seeds
    <3> HIDE DEF converge
    <3> QED BY <3>1
  <2>2. Offset(p) \in {0, 1}
    BY Programs
  <2>3. Program(p)[j + Offset(p)] = s
    <3>1. j \in 1 .. 11 /\ \A i \in 1 .. 11 : Program(p)[i + Offset(p)] = converge[i]
      BY Programs
    <3> QED BY <2>1, <3>1, Zenon
  <2>4. j + Offset(p) \in 1 .. 10 + Offset(p)
    BY <2>2
  <2> QED BY <2>3, <2>4, Zenon
<1> QED BY <1>1, <1>2

-----------------------------------------------------------------------------
(* The invariant. *)

Written == Builds \cup {None}

Catalog == [user_version: Nat, fingerprint: Written, columns: SUBSET Builds, seed: [Seeds -> Written],
            sets: SUBSET Sets, tied: [IngestSeeds -> [Sets -> Written]]]

Process == {rec \in [state: {"down", "up", "serving", "failed", "refused"}, build: Written,
                     pc: Nat \ {0}, missing: BOOLEAN] : rec.state # "down" => rec.build \in Builds}

OpeningTypeOK ==
    /\ db \in Catalog
    /\ lock \in Procs \cup {None}
    /\ proc \in [Procs -> Process]
    /\ starts \in Nat
    /\ mixed \in SUBSET Builds
    /\ beside \in [Procs -> SUBSET Builds]
    /\ owed \in SUBSET (IngestSeeds \X Sets)

\* Every seed in the catalog is of the build of the fingerprint, or of one that wrote after or
\* beside the convergence that recorded it.
Told == db.fingerprint \in Builds => \A s \in Seeds : db.seed[s] \in {db.fingerprint} \cup mixed

\* What a convergence has passed is its own, or of a build that wrote beside it.
Passed(b, B, p, pc) == \A i \in 1 .. pc - 1 : Program(p)[i] \in Seeds => db.seed[Program(p)[i]] \in {b} \cup B

SoFar ==
    \A p \in Procs : proc[p].state = "up" /\ proc[p].pc <= 11 + Offset(p)
                        => Passed(Build(p), beside[p], p, proc[p].pc)

\* A derivation past its ingest has a seed still ahead of it.
Ahead(p, k) ==
    /\ proc[p].state = "up" /\ proc[p].pc > 16
    /\ \E i \in proc[p].pc .. Len(Program(p)) : Program(p)[i] = k

Underway == \A ks \in Missing : ks \in owed \/ \E p \in Derives : Ahead(p, ks[1])

OpeningInv == OpeningTypeOK /\ Told /\ SoFar /\ Underway

\* The catalog is what it was, and one process has moved.
LEMMA QuietMove ==
  ASSUME OpeningInv, NEW p \in Procs, NEW rec \in Process,
         proc' = [proc EXCEPT ![p] = rec],
         db' = db, mixed' = mixed,
         beside' = beside \/ beside' = [beside EXCEPT ![p] = {}],
         lock' \in Procs \cup {None}, starts' \in Nat,
         owed \subseteq owed', owed' \in SUBSET (IngestSeeds \X Sets),
         rec.state = "up" /\ rec.pc <= 11 + Offset(p) => Passed(rec.build, beside'[p], p, rec.pc),
         p \in Derives /\ proc[p].state = "up" /\ proc[p].pc > 16 => Missing \subseteq owed'
  PROVE  OpeningInv'
<1>1. OpeningTypeOK'
  BY DEF OpeningInv, OpeningTypeOK
<1>2. Told'
  BY DEF OpeningInv, Told
<1>3. \A q \in Procs : proc'[q] = IF q = p THEN rec ELSE proc[q]
  BY DEF OpeningInv, OpeningTypeOK
<1>4. \A q \in Procs : q # p => beside'[q] = beside[q]
  BY DEF OpeningInv, OpeningTypeOK
<1>5. SoFar'
  <2> SUFFICES ASSUME NEW q \in Procs, proc'[q].state = "up", proc'[q].pc <= 11 + Offset(q),
                      NEW i \in 1 .. proc'[q].pc - 1, Program(q)[i] \in Seeds
               PROVE  db'.seed[Program(q)[i]] \in {proc'[q].build} \cup beside'[q]
    BY DEF SoFar, Build, Passed
  <2>1. CASE q = p
    <3>1. proc'[q] = rec
      BY <1>3, <2>1
    <3>2. Passed(rec.build, beside'[p], p, rec.pc)
      BY <2>1, <3>1
    <3> QED BY <2>1, <3>1, <3>2 DEF Passed
  <2>2. CASE q # p
    <3>1. proc'[q] = proc[q] /\ beside'[q] = beside[q]
      BY <1>3, <1>4, <2>2
    <3>2. Passed(Build(q), beside[q], q, proc[q].pc)
      BY <3>1 DEF OpeningInv, SoFar
    <3> QED BY <3>1, <3>2 DEF Passed, Build
  <2> QED BY <2>1, <2>2
<1>6. Underway'
  <2> SUFFICES ASSUME NEW ks \in Missing
               PROVE  ks \in owed' \/ \E q \in Derives : Ahead(q, ks[1])'
    BY DEF Underway, Missing
  <2>1. CASE ks \in owed
    BY <2>1
  <2>2. ASSUME NEW q \in Derives, Ahead(q, ks[1]) PROVE ks \in owed' \/ Ahead(q, ks[1])'
    <3>1. CASE q = p
      BY <2>2, <3>1 DEF Ahead
    <3>2. CASE q # p
      <4>1. proc'[q] = proc[q]
        BY <1>3, <3>2 DEF Procs
      <4> QED BY <2>2, <4>1 DEF Ahead
    <3> QED BY <3>1, <3>2
  <2> QED BY <2>1, <2>2 DEF OpeningInv, Underway
<1> QED BY <1>1, <1>2, <1>5, <1>6 DEF OpeningInv

\* A process writes its step into the catalog and goes on.
LEMMA WritingMove ==
  ASSUME OpeningInv, NEW p \in Procs, NEW rec \in Process,
         proc[p].state = "up", proc[p].pc <= Len(Program(p)),
         proc' = [proc EXCEPT ![p] = rec],
         rec.build = Build(p), rec.pc = proc[p].pc + 1,
         proc[p].pc # Len(Program(p)) => rec.state = "up",
         Wrote(p), db' \in Catalog, db'.fingerprint = db.fingerprint,
         lock' \in Procs \cup {None}, starts' \in Nat, owed' \in SUBSET (IngestSeeds \X Sets),
         \A s \in Seeds : db'.seed[s] \in {db.seed[s], Build(p)},
         \A s \in Seeds : Program(p)[proc[p].pc] = s => db'.seed[s] = Build(p),
         \A ks \in Missing' :
             ks \in Missing /\ (ks \in owed => ks \in owed') /\ ks[1] # Program(p)[proc[p].pc]
  PROVE  OpeningInv'
<1>0. Build(p) \in Builds
  BY DEF OpeningInv, OpeningTypeOK, Process, Build
<1>1. OpeningTypeOK'
  BY <1>0 DEF OpeningInv, OpeningTypeOK, Wrote
<1>2. Told'
  <2> SUFFICES ASSUME db.fingerprint \in Builds, NEW s \in Seeds
               PROVE  db'.seed[s] \in {db.fingerprint} \cup mixed'
    BY DEF Told
  <2>1. db.seed[s] \in {db.fingerprint} \cup mixed
    BY DEF OpeningInv, Told
  <2> QED BY <2>1 DEF Wrote
<1>3. \A q \in Procs : proc'[q] = IF q = p THEN rec ELSE proc[q]
  BY DEF OpeningInv, OpeningTypeOK
<1>4. \A q \in Procs : beside'[q] = IF q = p THEN beside[q] ELSE beside[q] \cup {Build(p)}
  BY DEF Wrote
<1>5. SoFar'
  <2> SUFFICES ASSUME NEW q \in Procs, proc'[q].state = "up", proc'[q].pc <= 11 + Offset(q),
                      NEW i \in 1 .. proc'[q].pc - 1, Program(q)[i] \in Seeds
               PROVE  db'.seed[Program(q)[i]] \in {proc'[q].build} \cup beside'[q]
    BY DEF SoFar, Build, Passed
  <2>0. db'.seed[Program(q)[i]] \in {db.seed[Program(q)[i]], Build(p)}
    OBVIOUS
  <2>1. CASE q = p
    <3>1. proc'[q] = rec /\ beside'[q] = beside[q] /\ rec.build = Build(p)
      BY <1>3, <1>4, <2>1
    <3>2. proc[p].pc \in Nat /\ rec.pc = proc[p].pc + 1
      BY DEF OpeningInv, OpeningTypeOK, Process
    <3>3. CASE i = proc[p].pc
      <4>1. db'.seed[Program(p)[i]] = Build(p)
        BY <2>1, <3>3
      <4> QED BY <2>1, <3>1, <4>1
    <3>4. CASE i # proc[p].pc
      <4>1. proc[p].pc <= 11 + Offset(p)
        <5>1. Offset(p) \in {0, 1}
          BY DEF Offset
        <5>2. rec.pc <= 11 + Offset(p)
          BY <2>1, <3>1
        <5> QED BY <3>2, <5>1, <5>2
      <4>2. Passed(Build(p), beside[p], p, proc[p].pc)
        BY <4>1 DEF OpeningInv, SoFar
      <4>3. i \in 1 .. proc[p].pc - 1
        <5>1. i \in 1 .. rec.pc - 1
          BY <2>1, <3>1
        <5> QED BY <3>2, <3>4, <5>1
      <4>4. db.seed[Program(p)[i]] \in {Build(p)} \cup beside[p]
        BY <2>1, <4>2, <4>3 DEF Passed
      <4> QED BY <2>0, <2>1, <3>1, <4>4
    <3> QED BY <3>3, <3>4
  <2>2. CASE q # p
    <3>1. proc'[q] = proc[q] /\ beside'[q] = beside[q] \cup {Build(p)}
      BY <1>3, <1>4, <2>2
    <3>2. Passed(Build(q), beside[q], q, proc[q].pc)
      BY <3>1 DEF OpeningInv, SoFar
    <3>3. db.seed[Program(q)[i]] \in {Build(q)} \cup beside[q]
      BY <3>1, <3>2 DEF Passed
    <3> QED BY <2>0, <3>1, <3>3 DEF Build
  <2> QED BY <2>1, <2>2
<1>6. Underway'
  <2> SUFFICES ASSUME NEW ks \in Missing'
               PROVE  ks \in owed' \/ \E q \in Derives : Ahead(q, ks[1])'
    BY DEF Underway
  <2>0. ks \in Missing /\ ks[1] # Program(p)[proc[p].pc]
    OBVIOUS
  <2>1. CASE ks \in owed
    BY <2>1
  <2>2. ASSUME NEW q \in Derives, Ahead(q, ks[1]) PROVE Ahead(q, ks[1])'
    <3>1. CASE q = p
      <4>1. PICK i \in proc[p].pc .. Len(Program(p)) : Program(p)[i] = ks[1]
        BY <2>2, <3>1 DEF Ahead
      <4>2. proc[p].pc \in Nat /\ proc[p].pc > 16 /\ Len(Program(p)) = 18
        BY <2>2, <3>1, Programs DEF Ahead, OpeningInv, OpeningTypeOK, Process
      <4>3. i # proc[p].pc
        BY <2>0, <4>1
      <4>4. proc[p].pc + 1 > 16 /\ i \in proc[p].pc + 1 .. Len(Program(p)) /\ proc[p].pc # Len(Program(p))
        BY <4>2, <4>3
      <4>5. proc'[q] = rec /\ rec.state = "up" /\ rec.pc = proc[p].pc + 1
        BY <1>3, <3>1, <4>4
      <4> QED BY <3>1, <4>1, <4>4, <4>5 DEF Ahead
    <3>2. CASE q # p
      <4>1. proc'[q] = proc[q]
        BY <1>3, <3>2 DEF Procs
      <4> QED BY <2>2, <4>1 DEF Ahead
    <3> QED BY <3>1, <3>2
  <2> QED BY <2>0, <2>1, <2>2 DEF OpeningInv, Underway
<1> QED BY <1>1, <1>2, <1>5, <1>6 DEF OpeningInv

\* Where a process stands, and what is left of its own record.
LEMMA Standing ==
  ASSUME OpeningInv, NEW p \in Procs, NEW step, At(p, step)
  PROVE  /\ proc[p].state = "up" /\ proc[p].pc \in 1 .. Len(Program(p)) /\ Program(p)[proc[p].pc] = step
         /\ Build(p) \in Builds /\ proc[p] \in Process
         /\ Next_(p) \in Process /\ Next_(p).state = "up"
         /\ After(p) \in Process /\ (proc[p].pc # Len(Program(p)) => After(p).state = "up")
         /\ Next_(p).build = Build(p) /\ Next_(p).pc = proc[p].pc + 1
         /\ After(p).build = Build(p) /\ After(p).pc = proc[p].pc + 1
<1>1. proc[p] \in Process /\ proc[p].state = "up" /\ proc[p].pc <= Len(Program(p)) /\ Program(p)[proc[p].pc] = step
  BY DEF OpeningInv, OpeningTypeOK, At
<1>2. proc[p].pc \in Nat \ {0} /\ Build(p) \in Builds
  BY <1>1 DEF Process, Build
<1>3. Len(Program(p)) \in Nat
  BY Programs DEF Offset
<1>4. Next_(p) \in Process /\ Next_(p).state = "up" /\ Next_(p).build = Build(p) /\ Next_(p).pc = proc[p].pc + 1
  BY <1>1, <1>2 DEF Process, Next_, Build
<1>5. /\ Ended(p) \in Process /\ Ended(p).build = Build(p) /\ Ended(p).pc = proc[p].pc + 1
  BY <1>4, <1>2 DEF Process, Ended
<1> QED BY <1>1, <1>2, <1>3, <1>4, <1>5 DEF After

LEMMA RecordStep ==
  ASSUME OpeningInv, NEW p \in Procs, Record(p)
  PROVE  OpeningInv'
<1>1. /\ proc[p].state = "up" /\ proc[p].pc = 11 + Offset(p) /\ Build(p) \in Builds /\ After(p) \in Process
      /\ After(p).build = Build(p) /\ After(p).pc = proc[p].pc + 1
  BY Standing, Places DEF Record
<1>2. Offset(p) \in {0, 1}
  BY DEF Offset
<1>3. /\ db' = [db EXCEPT !.fingerprint = Build(p)] /\ mixed' = beside[p] /\ lock' = lock /\ starts' = starts
      /\ owed' = owed /\ proc' = [proc EXCEPT ![p] = After(p)]
      /\ beside' = [q \in Procs |-> IF q = p THEN beside[q] ELSE beside[q] \cup {Build(p)}]
  BY DEF Record, Goto
<1>4. db' \in Catalog /\ db'.seed = db.seed /\ db'.fingerprint = Build(p) /\ db'.sets = db.sets /\ db'.tied = db.tied
  BY <1>1, <1>3 DEF OpeningInv, OpeningTypeOK, Catalog, Written
<1>5. OpeningTypeOK'
  BY <1>1, <1>3, <1>4 DEF OpeningInv, OpeningTypeOK
<1>6. Told'
  <2> SUFFICES ASSUME NEW s \in Seeds PROVE db'.seed[s] \in {db'.fingerprint} \cup mixed'
    BY DEF Told
  <2>1. PICK i \in 1 .. 10 + Offset(p) : Program(p)[i] = s
    BY SeedsLieBetween
  <2>2. i \in 1 .. proc[p].pc - 1 /\ proc[p].pc <= 11 + Offset(p)
    BY <1>1, <1>2
  <2>3. db.seed[s] \in {Build(p)} \cup beside[p]
    BY <1>1, <2>1, <2>2 DEF OpeningInv, SoFar, Passed
  <2> QED BY <1>3, <1>4, <2>3
<1>7. \A q \in Procs : /\ proc'[q] = IF q = p THEN After(p) ELSE proc[q]
                       /\ beside[q] \subseteq beside'[q]
  BY <1>3 DEF OpeningInv, OpeningTypeOK
<1>8. SoFar'
  <2> SUFFICES ASSUME NEW q \in Procs, proc'[q].state = "up", proc'[q].pc <= 11 + Offset(q),
                      NEW i \in 1 .. proc'[q].pc - 1, Program(q)[i] \in Seeds
               PROVE  db'.seed[Program(q)[i]] \in {proc'[q].build} \cup beside'[q]
    BY DEF SoFar, Build, Passed
  <2>1. q # p
    <3>1. SUFFICES ASSUME q = p PROVE FALSE
      OBVIOUS
    <3>2. proc'[p].pc = proc[p].pc + 1 /\ proc'[p].pc <= 11 + Offset(p)
      BY <1>1, <1>7, <3>1
    <3> QED BY <1>1, <1>2, <3>2
  <2>2. proc'[q] = proc[q]
    BY <1>7, <2>1
  <2>3. db.seed[Program(q)[i]] \in {Build(q)} \cup beside[q]
    BY <2>2 DEF OpeningInv, SoFar, Passed, Build
  <2> QED BY <1>4, <1>7, <2>2, <2>3 DEF Build
<1>9. Underway'
  <2> SUFFICES ASSUME NEW ks \in Missing
               PROVE  ks \in owed' \/ \E q \in Derives : Ahead(q, ks[1])'
    BY <1>4 DEF Underway, Missing
  <2>1. CASE ks \in owed
    BY <1>3, <2>1
  <2>2. ASSUME NEW q \in Derives, Ahead(q, ks[1]) PROVE Ahead(q, ks[1])'
    <3>1. q # p
      BY <1>1, <1>2, <2>2 DEF Ahead
    <3>2. proc'[q] = proc[q]
      BY <1>7, <3>1 DEF Procs
    <3> QED BY <2>2, <3>2 DEF Ahead
  <2> QED BY <2>1, <2>2 DEF OpeningInv, Underway
<1> QED BY <1>5, <1>6, <1>8, <1>9 DEF OpeningInv

LEMMA IngestStep ==
  ASSUME OpeningInv, NEW p \in Procs, Ingest(p)
  PROVE  OpeningInv'
<1>0. PICK s \in Sets : /\ At(p, "ingest") /\ db' = [db EXCEPT !.sets = @ \cup {s}]
                        /\ lock' = None /\ proc' = [proc EXCEPT ![p] = After(p)]
                        /\ starts' = starts /\ owed' = owed /\ mixed' = mixed /\ beside' = beside
  BY DEF Ingest, Goto, Quiet
<1>1. /\ p \in Derives /\ proc[p].state = "up" /\ proc[p].pc = 16 /\ After(p) \in Process
      /\ After(p).pc = 17 /\ After(p).build = Build(p)
  <2>1. proc[p].pc \in 1 .. Len(Program(p)) /\ Program(p)[proc[p].pc] = "ingest" /\ proc[p].state = "up"
    BY <1>0, Standing
  <2>2. p \in Derives /\ proc[p].pc = 16
    BY <2>1, Places
  <2>3. After(p) \in Process /\ After(p).pc = 16 + 1 /\ After(p).build = Build(p)
    BY <1>0, <2>2, Standing
  <2> QED BY <2>1, <2>2, <2>3
<1>2. Len(Program(p)) = 18 /\ Offset(p) = 0 /\ Program(p)[17] = "set_aliases" /\ Program(p)[18] = "catalog_prices"
  <2>1. \A i \in 1 .. 7 : Program(p)[11 + i] = derive[i]
    BY <1>1, Programs
  <2>2. Program(p)[11 + 6] = derive[6] /\ Program(p)[11 + 7] = derive[7]
    BY <2>1
  <2> QED BY <1>1, <2>2, Programs, Deriving
<1>3. After(p).state = "up"
  <2>1. proc[p].pc # Len(Program(p))
    BY <1>1, <1>2
  <2> QED BY <1>0, <2>1, Standing
<1>4. db' \in Catalog /\ db'.seed = db.seed /\ db'.fingerprint = db.fingerprint /\ db'.tied = db.tied
      /\ db'.sets = db.sets \cup {s}
  BY <1>0 DEF OpeningInv, OpeningTypeOK, Catalog
<1>5. OpeningTypeOK'
  BY <1>0, <1>1, <1>4 DEF OpeningInv, OpeningTypeOK
<1>6. Told'
  BY <1>0, <1>4 DEF OpeningInv, Told
<1>7. \A q \in Procs : proc'[q] = IF q = p THEN After(p) ELSE proc[q]
  BY <1>0 DEF OpeningInv, OpeningTypeOK
<1>8. SoFar'
  <2> SUFFICES ASSUME NEW q \in Procs, proc'[q].state = "up", proc'[q].pc <= 11 + Offset(q),
                      NEW i \in 1 .. proc'[q].pc - 1, Program(q)[i] \in Seeds
               PROVE  db'.seed[Program(q)[i]] \in {proc'[q].build} \cup beside'[q]
    BY DEF SoFar, Build, Passed
  <2>1. q # p
    BY <1>1, <1>2, <1>7
  <2>2. proc'[q] = proc[q]
    BY <1>7, <2>1
  <2>3. db.seed[Program(q)[i]] \in {Build(q)} \cup beside[q]
    BY <2>2 DEF OpeningInv, SoFar, Passed, Build
  <2> QED BY <1>0, <1>4, <2>2, <2>3 DEF Build
<1>9. Underway'
  <2> SUFFICES ASSUME NEW ks \in Missing'
               PROVE  ks \in owed' \/ \E q \in Derives : Ahead(q, ks[1])'
    BY DEF Underway
  <2>0. ks[1] \in IngestSeeds
    BY DEF Missing
  <2>1. CASE ks[1] = Program(p)[17] \/ ks[1] = Program(p)[18]
    <3>1. 17 \in 17 .. 18 /\ 18 \in 17 .. 18 /\ 17 > 16
      OBVIOUS
    <3>2. Ahead(p, ks[1])'
      BY <1>1, <1>2, <1>3, <1>7, <2>1, <3>1 DEF Ahead
    <3> QED BY <1>1, <3>2
  <2> QED BY <1>2, <2>0, <2>1 DEF IngestSeeds
<1> QED BY <1>5, <1>6, <1>8, <1>9 DEF OpeningInv

\* The steps that leave the catalog alone.
LEMMA QuietSteps ==
  ASSUME OpeningInv, NEW p \in Procs,
         \/ \E b \in Builds : Start(p, b)
         \/ Restart(p) \/ Probe(p) \/ Gate(p) \/ Columns(p) \/ BeginIngest(p) \/ GiveUp(p) \/ Die(p)
  PROVE  OpeningInv'
<1>0. /\ db \in Catalog /\ lock \in Procs \cup {None} /\ starts \in Nat /\ mixed \in SUBSET Builds
      /\ owed \in SUBSET (IngestSeeds \X Sets) /\ proc[p] \in Process /\ Offset(p) \in {0, 1}
      /\ beside \in [Procs -> SUBSET Builds]
  BY DEF OpeningInv, OpeningTypeOK, Offset
<1>1. ASSUME NEW b \in Builds, Start(p, b) PROVE OpeningInv'
  <2> DEFINE rec == [state |-> "up", build |-> b, pc |-> 1, missing |-> FALSE]
  <2>1. rec \in Process /\ rec.pc = 1
    BY DEF Process, Written
  <2>2. Passed(rec.build, beside'[p], p, rec.pc)
    BY DEF Passed
  <2>3. p \in Derives => proc[p].state # "up"
    BY <1>1, OpeningAssumption DEF Start
  <2> HIDE DEF rec
  <2>4. /\ proc' = [proc EXCEPT ![p] = rec] /\ db' = db /\ mixed' = mixed /\ beside' = beside
        /\ lock' = lock /\ starts' = starts + 1 /\ owed' = owed
    BY <1>1 DEF Start, Goto, Quiet, rec
  <2>5. starts + 1 \in Nat
    BY <1>0
  <2> QED BY <1>0, <2>1, <2>2, <2>3, <2>4, <2>5, QuietMove
<1>2. CASE Restart(p)
  <2> DEFINE rec == [proc[p] EXCEPT !.state = "up", !.pc = 1]
  <2>1. rec \in Process /\ rec.pc = 1
    <3>1. /\ proc[p] \in [state: {"down", "up", "serving", "failed", "refused"}, build: Written,
                          pc: Nat \ {0}, missing: BOOLEAN]
          /\ proc[p].build \in Builds
      BY <1>0, <1>2 DEF Restart, Process
    <3>2. /\ rec.build = proc[p].build /\ rec.pc = 1
          /\ rec \in [state: {"down", "up", "serving", "failed", "refused"}, build: Written,
                      pc: Nat \ {0}, missing: BOOLEAN]
      <4> DEFINE again == [proc[p] EXCEPT !.state = "up"]
      <4>1. /\ again.build = proc[p].build
            /\ again \in [state: {"down", "up", "serving", "failed", "refused"}, build: Written,
                         pc: Nat \ {0}, missing: BOOLEAN]
        BY <3>1
      <4>2. rec = [again EXCEPT !.pc = 1]
        OBVIOUS
      <4> HIDE DEF again, rec
      <4>3. 1 \in Nat \ {0}
        OBVIOUS
      <4> QED BY <4>1, <4>2, <4>3
    <3> HIDE DEF rec
    <3> QED BY <3>1, <3>2 DEF Process
  <2>2. Passed(rec.build, beside'[p], p, rec.pc)
    BY <2>1 DEF Passed
  <2>3. p \notin Derives
    BY <1>2, OpeningAssumption DEF Restart
  <2> HIDE DEF rec
  <2>4. /\ proc' = [proc EXCEPT ![p] = rec] /\ db' = db /\ mixed' = mixed /\ beside' = beside
        /\ lock' = lock /\ starts' = starts /\ owed' = owed
    BY <1>2 DEF Restart, Goto, Quiet, rec
  <2> QED BY <1>0, <2>1, <2>2, <2>3, <2>4, QuietMove
<1>3. CASE Probe(p)
  <2>1. /\ proc[p].pc = 1 /\ p \in Servers /\ Program(p)[1] = "probe"
        /\ Next_(p) \in Process /\ Next_(p).pc = proc[p].pc + 1
    <3>1. /\ proc[p].pc \in 1 .. Len(Program(p)) /\ Program(p)[proc[p].pc] = "probe"
          /\ Next_(p) \in Process /\ Next_(p).pc = proc[p].pc + 1
      BY <1>3, Standing DEF Probe
    <3> QED BY <3>1, Places
  <2>2. p \notin Derives
    BY <2>1, OpeningAssumption
  <2>3. PICK rec \in Process : /\ proc' = [proc EXCEPT ![p] = rec]
                               /\ rec.state = "up" => rec.pc = 2
    <3>1. Next_(p).pc = 2
      BY <2>1
    <3>2. CASE proc' = [proc EXCEPT ![p] = Next_(p)]
      BY <2>1, <3>1, <3>2
    <3>3. CASE proc' = [proc EXCEPT ![p] = [proc[p] EXCEPT !.state = "serving"]]
      <4>1. [proc[p] EXCEPT !.state = "serving"] \in Process
            /\ [proc[p] EXCEPT !.state = "serving"].state = "serving"
        <5>1. proc[p].state = "up"
          BY <1>3, Standing DEF Probe
        <5> QED BY <1>0, <5>1 DEF Process
      <4> QED BY <3>3, <4>1
    <3> QED BY <1>3, <3>2, <3>3 DEF Probe, Goto
  <2>4. rec.state = "up" => Passed(rec.build, beside'[p], p, rec.pc)
    <3>1. \A i \in 1 .. 2 - 1 : i = 1
      OBVIOUS
    <3>2. "probe" \notin Seeds
      BY DEF Seeds
    <3> QED BY <2>1, <2>3, <3>1, <3>2 DEF Passed
  <2>5. /\ db' = db /\ mixed' = mixed /\ beside' = beside /\ lock' = lock /\ starts' = starts /\ owed' = owed
    BY <1>3 DEF Probe, Quiet
  <2> QED BY <1>0, <2>2, <2>3, <2>4, <2>5, QuietMove
<1>4. CASE Gate(p)
  <2>1. /\ proc[p].pc = 1 + Offset(p) /\ Next_(p) \in Process /\ Next_(p).pc = proc[p].pc + 1
        /\ proc[p].state = "up"
    BY <1>4, Standing, Places DEF Gate
  <2>2. ~(proc[p].pc > 16)
    BY <1>0, <2>1
  <2> DEFINE out == [proc[p] EXCEPT !.state = IF p \in Servers THEN "refused" ELSE "down"]
  <2>3. out \in Process /\ out.state # "up"
    BY <1>0, <2>1 DEF Process
  <2>4. PICK rec \in Process : /\ proc' = [proc EXCEPT ![p] = rec]
                               /\ rec.state = "up" => rec.pc = 2 + Offset(p)
    <3>1. Next_(p).pc = 2 + Offset(p)
      BY <1>0, <2>1
    <3> HIDE DEF out
    <3>2. CASE proc' = [proc EXCEPT ![p] = Next_(p)]
      BY <2>1, <3>1, <3>2
    <3>3. CASE proc' = [proc EXCEPT ![p] = out]
      BY <2>3, <3>3
    <3>4. proc' = [proc EXCEPT ![p] = out] \/ proc' = [proc EXCEPT ![p] = Next_(p)]
      BY <1>4 DEF Gate, Goto, out
    <3> QED BY <3>2, <3>3, <3>4
  <2> HIDE DEF out
  <2>5. rec.state = "up" => Passed(rec.build, beside'[p], p, rec.pc)
    <3>1. SUFFICES ASSUME rec.pc = 2 + Offset(p), NEW i \in 1 .. rec.pc - 1
                   PROVE  Program(p)[i] \notin Seeds
      BY <2>4 DEF Passed
    <3>2. i \in 1 .. Offset(p) + 2
      BY <1>0, <3>1
    <3> QED BY <3>2, SeedsLieBetween
  <2>6. /\ db' = db /\ mixed' = mixed /\ beside' = [beside EXCEPT ![p] = {}] /\ lock' = lock
        /\ starts' = starts /\ owed' = owed
    BY <1>4 DEF Gate
  <2> QED BY <1>0, <2>2, <2>4, <2>5, <2>6, QuietMove
<1>5. CASE Columns(p)
  <2>1. /\ proc[p].pc = 2 + Offset(p) /\ Next_(p) \in Process /\ Next_(p).pc = proc[p].pc + 1
    BY <1>5, Standing, Places DEF Columns
  <2>2. ~(proc[p].pc > 16)
    BY <1>0, <2>1
  <2> DEFINE rec == [Next_(p) EXCEPT !.missing = Build(p) \notin db.columns]
  <2>3. rec \in Process /\ rec.pc = Next_(p).pc
    BY <2>1 DEF Process
  <2>4. Passed(rec.build, beside'[p], p, rec.pc)
    <3>0. rec.pc = (2 + Offset(p)) + 1
      BY <2>1, <2>3
    <3> HIDE DEF rec
    <3>1. ASSUME NEW i \in 1 .. rec.pc - 1 PROVE i \in 1 .. Offset(p) + 2
      BY <1>0, <3>0
    <3> QED BY <3>1, SeedsLieBetween DEF Passed
  <2> HIDE DEF rec
  <2>5. /\ proc' = [proc EXCEPT ![p] = rec] /\ db' = db /\ mixed' = mixed /\ beside' = beside
        /\ lock' = lock /\ starts' = starts /\ owed' = owed
    BY <1>5 DEF Columns, Goto, Quiet, rec
  <2> QED BY <1>0, <2>2, <2>3, <2>4, <2>5, QuietMove
<1>6. CASE BeginIngest(p)
  <2>1. /\ proc[p].pc = 15 /\ Next_(p) \in Process /\ Next_(p).pc = 15 + 1
    BY <1>6, Standing, Places DEF BeginIngest
  <2>2. ~(proc[p].pc > 16) /\ ~(Next_(p).pc <= 11 + Offset(p))
    BY <1>0, <2>1
  <2>3. /\ proc' = [proc EXCEPT ![p] = Next_(p)] /\ db' = db /\ mixed' = mixed /\ beside' = beside
        /\ lock' = p /\ starts' = starts /\ owed' = owed
    BY <1>6 DEF BeginIngest, Goto, Quiet
  <2> QED BY <1>0, <2>1, <2>2, <2>3, QuietMove
<1>7. CASE Fail(p) /\ proc[p].state = "up" /\ starts' \in Nat
  <2> DEFINE rec == [proc[p] EXCEPT !.state = IF p \in Servers THEN "failed" ELSE "down"]
  <2>1. rec \in Process /\ rec.state # "up"
    BY <1>0, <1>7 DEF Process
  <2> HIDE DEF rec
  <2>2. /\ proc' = [proc EXCEPT ![p] = rec] /\ db' = db /\ mixed' = mixed /\ beside' = beside
        /\ lock' \in {lock, None} /\ (p \in Derives => Missing \subseteq owed')
        /\ owed' \in {owed, owed \cup Missing}
    BY <1>7 DEF Fail, Goto, Quiet, rec
  <2>3. Missing \subseteq IngestSeeds \X Sets
    BY <1>0 DEF Missing, Catalog
  <2> QED BY <1>0, <1>7, <2>1, <2>2, <2>3, QuietMove
<1>8. CASE GiveUp(p)
  BY <1>0, <1>7, <1>8 DEF GiveUp, At
<1>9. CASE Die(p)
  BY <1>0, <1>7, <1>9 DEF Die
<1> QED BY <1>1, <1>2, <1>3, <1>4, <1>5, <1>6, <1>8, <1>9

\* The steps that write the catalog, the fingerprint and the ingest apart.
LEMMA ShapeStep ==
  ASSUME OpeningInv, NEW p \in Procs, Shape(p)
  PROVE  OpeningInv'
<1>1. At(p, "shape") /\ Goto(p, Next_(p)) /\ Wrote(p) /\ lock' = lock /\ starts' = starts /\ owed' = owed
      /\ db' = [db EXCEPT !.columns = @ \cup {Build(p)}, !.seed.shape = Build(p)]
  BY DEF Shape
<1>2. /\ proc[p].state = "up" /\ proc[p].pc <= Len(Program(p)) /\ Program(p)[proc[p].pc] = "shape"
      /\ Next_(p) \in Process /\ Next_(p).state = "up" /\ Next_(p).build = Build(p)
      /\ Next_(p).pc = proc[p].pc + 1 /\ Build(p) \in Builds
  <2>1. Len(Program(p)) \in Nat
    BY Programs DEF Offset
  <2> QED BY <1>1, <2>1, Standing
<1>3. db \in Catalog /\ "shape" \in Seeds /\ "shape" \notin IngestSeeds
  BY DEF OpeningInv, OpeningTypeOK, Seeds, IngestSeeds
<1>4. /\ db' \in Catalog /\ db'.fingerprint = db.fingerprint /\ db'.sets = db.sets /\ db'.tied = db.tied
      /\ \A s \in Seeds : db'.seed[s] = IF s = "shape" THEN Build(p) ELSE db.seed[s]
  BY <1>1, <1>2, <1>3 DEF Catalog, Written
<1>5. ASSUME NEW ks \in Missing' PROVE ks \in Missing /\ ks[1] \in IngestSeeds
  BY <1>4 DEF Missing
<1>6. lock' \in Procs \cup {None} /\ starts' \in Nat /\ owed' \in SUBSET (IngestSeeds \X Sets)
  BY <1>1 DEF OpeningInv, OpeningTypeOK
<1>7. proc' = [proc EXCEPT ![p] = Next_(p)]
  BY <1>1 DEF Goto
<1> QED BY <1>1, <1>2, <1>3, <1>4, <1>5, <1>6, <1>7, WritingMove

LEMMA SeedStep ==
  ASSUME OpeningInv, NEW p \in Procs, NEW k \in Seeds, ReconcileSeed(p, k)
  PROVE  OpeningInv'
<1>1. At(p, k) /\ Goto(p, Next_(p)) /\ Wrote(p) /\ lock' = lock /\ starts' = starts /\ owed' = owed
      /\ db' = [db EXCEPT !.seed[k] = Build(p)]
  BY DEF ReconcileSeed
<1>2. /\ proc[p].state = "up" /\ proc[p].pc <= Len(Program(p)) /\ Program(p)[proc[p].pc] = k
      /\ Next_(p) \in Process /\ Next_(p).state = "up" /\ Next_(p).build = Build(p)
      /\ Next_(p).pc = proc[p].pc + 1 /\ Build(p) \in Builds
  <2>1. Len(Program(p)) \in Nat
    BY Programs DEF Offset
  <2> QED BY <1>1, <2>1, Standing
<1>3. db \in Catalog /\ k \notin IngestSeeds
  BY DEF OpeningInv, OpeningTypeOK, Seeds, IngestSeeds
<1>4. /\ db' \in Catalog /\ db'.fingerprint = db.fingerprint /\ db'.sets = db.sets /\ db'.tied = db.tied
      /\ \A s \in Seeds : db'.seed[s] = IF s = k THEN Build(p) ELSE db.seed[s]
  BY <1>1, <1>2, <1>3 DEF Catalog, Written
<1>5. ASSUME NEW ks \in Missing' PROVE ks \in Missing /\ ks[1] \in IngestSeeds
  BY <1>4 DEF Missing
<1>6. lock' \in Procs \cup {None} /\ starts' \in Nat /\ owed' \in SUBSET (IngestSeeds \X Sets)
  BY <1>1 DEF OpeningInv, OpeningTypeOK
<1>7. proc' = [proc EXCEPT ![p] = Next_(p)]
  BY <1>1 DEF Goto
<1> QED BY <1>1, <1>2, <1>3, <1>4, <1>5, <1>6, <1>7, WritingMove

LEMMA TiedStep ==
  ASSUME OpeningInv, NEW p \in Procs, NEW k \in IngestSeeds, ReconcileTied(p, k)
  PROVE  OpeningInv'
<1>1. At(p, k) /\ Goto(p, After(p)) /\ Wrote(p) /\ lock' = lock /\ starts' = starts
      /\ owed' = owed \ ({k} \X Sets)
      /\ db' = [db EXCEPT !.tied[k] = [s \in Sets |-> IF s \in db.sets THEN Build(p) ELSE @[s]]]
  BY DEF ReconcileTied
<1>2. /\ proc[p].state = "up" /\ proc[p].pc <= Len(Program(p)) /\ Program(p)[proc[p].pc] = k
      /\ After(p) \in Process /\ (proc[p].pc # Len(Program(p)) => After(p).state = "up")
      /\ After(p).build = Build(p) /\ After(p).pc = proc[p].pc + 1 /\ Build(p) \in Builds
  <2>1. Len(Program(p)) \in Nat
    BY Programs DEF Offset
  <2> QED BY <1>1, <2>1, Standing
<1>3. db \in Catalog /\ k \notin Seeds /\ None \notin Builds
  BY OpeningAssumption DEF OpeningInv, OpeningTypeOK, Seeds, IngestSeeds
<1>4. db' \in Catalog /\ db'.fingerprint = db.fingerprint /\ db'.sets = db.sets /\ db'.seed = db.seed
  BY <1>1, <1>2, <1>3 DEF Catalog, Written
<1>5. \A j \in IngestSeeds, s \in Sets :
        db'.tied[j][s] = IF j = k /\ s \in db.sets THEN Build(p) ELSE db.tied[j][s]
  BY <1>1, <1>3 DEF Catalog
<1>6. ASSUME NEW ks \in Missing'
      PROVE  ks \in Missing /\ (ks \in owed => ks \in owed') /\ ks[1] # k
  <2>1. ks \in IngestSeeds \X db.sets /\ db'.tied[ks[1]][ks[2]] = None
    BY <1>4 DEF Missing
  <2>2. ks[1] \in IngestSeeds /\ ks[2] \in db.sets /\ ks[2] \in Sets
    BY <1>3, <2>1 DEF Catalog
  <2>3. ks[1] # k
    BY <1>2, <1>3, <1>5, <2>1, <2>2
  <2>4. db.tied[ks[1]][ks[2]] = None
    BY <1>5, <2>1, <2>2, <2>3
  <2> QED BY <1>1, <2>1, <2>3, <2>4 DEF Missing
<1>7. lock' \in Procs \cup {None} /\ starts' \in Nat /\ owed' \in SUBSET (IngestSeeds \X Sets)
  BY <1>1 DEF OpeningInv, OpeningTypeOK
<1>8. proc' = [proc EXCEPT ![p] = After(p)]
  BY <1>1 DEF Goto
<1> QED BY <1>1, <1>2, <1>3, <1>4, <1>6, <1>7, <1>8, WritingMove

LEMMA StampStep ==
  ASSUME OpeningInv, NEW p \in Procs, Stamp(p)
  PROVE  OpeningInv'
<1>1. At(p, "stamp") /\ Goto(p, After(p)) /\ Wrote(p) /\ lock' = lock /\ starts' = starts /\ owed' = owed
      /\ db' = [db EXCEPT !.user_version = VersionOf[Build(p)]]
  BY DEF Stamp
<1>2. /\ proc[p].state = "up" /\ proc[p].pc <= Len(Program(p)) /\ Program(p)[proc[p].pc] = "stamp"
      /\ After(p) \in Process /\ (proc[p].pc # Len(Program(p)) => After(p).state = "up")
      /\ After(p).build = Build(p) /\ After(p).pc = proc[p].pc + 1 /\ Build(p) \in Builds
  <2>1. Len(Program(p)) \in Nat
    BY Programs DEF Offset
  <2> QED BY <1>1, <2>1, Standing
<1>3. db \in Catalog /\ "stamp" \notin Seeds /\ "stamp" \notin IngestSeeds
  BY DEF OpeningInv, OpeningTypeOK, Seeds, IngestSeeds
<1>4. VersionOf[Build(p)] \in Nat
  BY <1>2, OpeningAssumption
<1>5. /\ db' \in Catalog /\ db'.fingerprint = db.fingerprint /\ db'.sets = db.sets /\ db'.tied = db.tied
      /\ db'.seed = db.seed
  BY <1>1, <1>3, <1>4 DEF Catalog
<1>6. ASSUME NEW ks \in Missing' PROVE ks \in Missing /\ ks[1] \in IngestSeeds
  BY <1>5 DEF Missing
<1>7. lock' \in Procs \cup {None} /\ starts' \in Nat /\ owed' \in SUBSET (IngestSeeds \X Sets)
  BY <1>1 DEF OpeningInv, OpeningTypeOK
<1>8. proc' = [proc EXCEPT ![p] = After(p)]
  BY <1>1 DEF Goto
<1> QED BY <1>1, <1>2, <1>3, <1>5, <1>6, <1>7, <1>8, WritingMove

LEMMA OpeningInit ==
  ASSUME Init
  PROVE  OpeningInv
<1>1. OpeningTypeOK
  BY DEF Init, OpeningTypeOK, Catalog, Process, Written
<1>2. Told
  BY OpeningAssumption DEF Init, Told
<1>3. SoFar
  BY DEF Init, SoFar
<1>4. Underway
  BY DEF Init, Underway, Missing
<1> QED BY <1>1, <1>2, <1>3, <1>4 DEF OpeningInv

LEMMA OpeningStep ==
  ASSUME OpeningInv, [Next]_openingVars
  PROVE  OpeningInv'
<1>1. CASE UNCHANGED openingVars
  BY <1>1 DEF openingVars, OpeningInv, OpeningTypeOK, Told, SoFar, Passed, Build, Underway, Ahead, Missing
<1>2. CASE Next
  <2>1. PICK p \in Procs : (\E b \in Builds : Start(p, b)) \/ Restart(p) \/ Run(p) \/ GiveUp(p) \/ Die(p)
    BY <1>2 DEF Next
  <2>2. CASE Run(p)
    <3>1. CASE Probe(p) \/ Gate(p) \/ Columns(p) \/ BeginIngest(p)
      BY <3>1, QuietSteps
    <3>2. CASE Variants(p) \/ SubTypeMap(p) \/ Bundles(p) \/ SearchMeta(p)
      <4>1. PICK k \in Seeds : ReconcileSeed(p, k)
        BY <3>2 DEF Variants, SubTypeMap, Bundles, SearchMeta, Seeds
      <4> QED BY <4>1, SeedStep
    <3>3. CASE SetAliases(p) \/ CatalogPrices(p)
      <4>1. PICK k \in IngestSeeds : ReconcileTied(p, k)
        BY <3>3 DEF SetAliases, CatalogPrices, IngestSeeds
      <4> QED BY <4>1, TiedStep
    <3> QED BY <2>2, <3>1, <3>2, <3>3, ShapeStep, StampStep, RecordStep, IngestStep DEF Run
  <2> QED BY <2>1, <2>2, QuietSteps
<1> QED BY <1>1, <1>2

-----------------------------------------------------------------------------
(* The theorems. *)

LEMMA OpeningInvariant == Spec => []OpeningInv
<1>1. Init => OpeningInv
  BY OpeningInit
<1>2. OpeningInv /\ [Next]_openingVars => OpeningInv'
  BY OpeningStep
<1> QED BY <1>1, <1>2, PTL DEF Spec

\* Type correctness: what the catalog says of itself is always a build that exists, or nothing, and a process that runs has a build.
THEOREM OpeningTypeCorrect == Spec => []OpeningTypeOK
<1>1. OpeningInv => OpeningTypeOK
  BY DEF OpeningInv
<1> QED BY <1>1, OpeningInvariant, PTL

\* However many opens interleave their transactions and wherever they die, a fingerprint that
\* matches a build tells the truth about every seed (converge and is_converged).
THEOREM FingerprintIsTrue == Spec => []FingerprintTells
<1>1. OpeningInv => FingerprintTells
  BY DEF OpeningInv, Told, FingerprintTells, is_converged
<1> QED BY <1>1, OpeningInvariant, PTL

\* What any ingest brings has its aliases and its curated prices, or has a derivation still
\* to give them, or one that ended after its ingest (derive's second reconcile).
THEOREM SeedsAreReached == Spec => []SeedsReachTheirTargets
<1>1. ASSUME OpeningInv PROVE SeedsReachTheirTargets
  <2> SUFFICES ASSUME NEW ks \in Missing, ks \notin owed
               PROVE  \E p \in Derives : \E i \in proc[p].pc .. Len(Program(p)) :
                          proc[p].state = "up" /\ i > Len(converge) /\ Program(p)[i] = ks[1]
    BY DEF SeedsReachTheirTargets
  <2>1. PICK p \in Derives : Ahead(p, ks[1])
    BY <1>1 DEF OpeningInv, Underway
  <2>2. PICK i \in proc[p].pc .. Len(Program(p)) : Program(p)[i] = ks[1]
    BY <2>1 DEF Ahead
  <2>3. proc[p].pc \in Nat /\ proc[p].pc > 16 /\ proc[p].state = "up"
    BY <1>1, <2>1 DEF Ahead, OpeningInv, OpeningTypeOK, Process, Procs
  <2>4. i > Len(converge)
    BY <2>3, Converging
  <2> QED BY <2>2, <2>3, <2>4
<1> QED BY <1>1, OpeningInvariant, PTL
=============================================================================
