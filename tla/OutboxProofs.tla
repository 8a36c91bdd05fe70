---------------------------- MODULE OutboxProofs ----------------------------
(***************************************************************************)
(* What Outbox promises for every number of tables, rows, emitters and     *)
(* events, and below it what Shipper does.                                 *)
(*                                                                         *)
(* Every transaction that writes events does it through AppendEvents, so   *)
(* the argument is made once, for an append of drafts that are Sound: they *)
(* are dated no earlier than what the outbox already holds for their keys, *)
(* and the last of them for a key says what the transaction leaves there.  *)
(* Each action is then shown to append sound drafts.  Before that, the     *)
(* outbox as a numbered log, whatever its events say: the drafts of a      *)
(* transaction have the positions 1..n, one each, and the log grows by     *)
(* the next n numbers of its sequence.                                     *)
(***************************************************************************)
EXTENDS Shipper, FiniteSetTheorems, WellFoundedInduction, TLAPS

\* No two drafts of a transaction share a statement and a key.
Distinct(D) == \A c, d \in D : c.stage = d.stage /\ c.key = d.key => c = d

Ordered(D) ==
    /\ IsFiniteSet(D) /\ Distinct(D)
    /\ \A d \in D : d.stage \in Nat /\ d.key \in Keys

-----------------------------------------------------------------------------
(* Positions. *)

\* A tenant database has finitely many row keys.
LEMMA KeysFinite == IsFiniteSet(Keys)
<1>1. NumTables \in Int /\ MaxId \in Int
  BY BoundsAssumption
<1>2. IsFiniteSet(1 .. NumTables) /\ IsFiniteSet(1 .. MaxId)
  BY <1>1, FS_Interval
<1> QED BY <1>2, FS_Product DEF Keys

LEMMA PositionBounds ==
  ASSUME NEW D, IsFiniteSet(D), NEW d \in D
  PROVE  Position(D, d) \in 1 .. Cardinality(D)
<1> DEFINE P == {c \in D : c = d \/ WrittenBefore(c, d)}
<1>1. /\ IsFiniteSet(P) /\ Cardinality(P) <= Cardinality(D)
  BY FS_Subset
<1>2. Cardinality(P) \in Nat /\ Cardinality(D) \in Nat
  BY <1>1, FS_CardinalityType
<1>3. Cardinality(P) # 0
  BY <1>1, FS_EmptySet
<1> QED BY <1>1, <1>2, <1>3 DEF Position

\* Keys are totally ordered, and so are the drafts of one transaction.
LEMMA WriteOrder ==
  ASSUME NEW D, Ordered(D), NEW c \in D, NEW d \in D
  PROVE  /\ ~WrittenBefore(c, c)
         /\ WrittenBefore(c, d) => ~WrittenBefore(d, c)
         /\ \A b \in D : WrittenBefore(b, c) /\ WrittenBefore(c, d) => WrittenBefore(b, d)
         /\ WrittenBefore(c, d) \/ WrittenBefore(d, c) \/ (c.stage = d.stage /\ c.key = d.key)
<1>1. \A b \in D : /\ b.stage \in Nat
                   /\ b.key = <<b.key[1], b.key[2]>>
                   /\ b.key[1] \in Int /\ b.key[2] \in Int
  BY DEF Ordered, Keys
<1> QED BY <1>1 DEF WrittenBefore, KeyBefore

LEMMA PositionOrder ==
  ASSUME NEW D, Ordered(D),
         NEW c \in D, NEW d \in D, WrittenBefore(c, d)
  PROVE  Position(D, c) < Position(D, d)
<1> DEFINE P(x) == {b \in D : b = x \/ WrittenBefore(b, x)}
<1>1. P(c) \subseteq P(d) /\ d \in P(d) /\ d \notin P(c)
  BY WriteOrder
<1>2. IsFiniteSet(P(d)) /\ IsFiniteSet(P(c)) /\ Cardinality(P(c)) <= Cardinality(P(d))
  <2>1. IsFiniteSet(P(d))
    BY FS_Subset DEF Ordered
  <2> QED BY <2>1, <1>1, FS_Subset
<1>3. Cardinality(P(c)) # Cardinality(P(d))
  <2>1. Cardinality(P(d)) = Cardinality(P(c)) => P(d) = P(c)
    BY <1>1, <1>2, FS_Subset
  <2> QED BY <2>1, <1>1
<1>4. Cardinality(P(c)) \in Nat /\ Cardinality(P(d)) \in Nat
  BY <1>2, FS_CardinalityType
<1> QED BY <1>2, <1>3, <1>4 DEF Position

\* The drafts of one transaction take consecutive numbers, one each.
LEMMA PositionsFill ==
  ASSUME NEW D, Ordered(D)
  PROVE  /\ \A c, d \in D : Position(D, c) = Position(D, d) => c = d
         /\ \A i \in 1 .. Cardinality(D) : \E d \in D : Position(D, d) = i
<1> DEFINE n == Cardinality(D)
           f == [d \in D |-> Position(D, d)]
<1>1. n \in Nat
  BY FS_CardinalityType DEF Ordered
<1>2. \A d \in D : Position(D, d) \in 1 .. n
  BY PositionBounds DEF Ordered
<1>3. \A c, d \in D : Position(D, c) = Position(D, d) => c = d
  <2> SUFFICES ASSUME NEW c \in D, NEW d \in D, c # d
               PROVE  Position(D, c) # Position(D, d)
    OBVIOUS
  <2>1. WrittenBefore(c, d) \/ WrittenBefore(d, c)
    BY WriteOrder DEF Ordered, Distinct
  <2>2. Position(D, c) < Position(D, d) \/ Position(D, d) < Position(D, c)
    BY <2>1, PositionOrder
  <2>3. Position(D, c) \in Int /\ Position(D, d) \in Int
    BY <1>2
  <2> QED BY <2>2, <2>3
<1>4. f \in Injection(D, 1 .. n)
  BY <1>2, <1>3 DEF Injection, IsInjective
<1>5. IsFiniteSet(1 .. n) /\ Cardinality(1 .. n) = n
  BY <1>1, FS_Interval
<1>6. f \in Surjection(D, 1 .. n)
  BY <1>4, <1>5, FS_Injection DEF Ordered
<1>7. \A i \in 1 .. n : \E d \in D : f[d] = i
  BY <1>6 DEF Surjection
<1> QED BY <1>3, <1>7

\* One draft per key of a set of keys is finitely many drafts.
LEMMA KeyedFinite ==
  ASSUME NEW K \in SUBSET Keys, NEW f, f = [k \in K |-> f[k]]
  PROVE  IsFiniteSet({f[k] : k \in K})
<1>1. IsFiniteSet(K)
  BY KeysFinite, FS_Subset
<1>2. f \in Surjection(K, {f[k] : k \in K})
  BY DEF Surjection
<1> QED BY <1>1, <1>2, FS_Surjection

-----------------------------------------------------------------------------
(* Appending. *)

\* The events of one append: one for each draft, numbered from base + 1 on.
LEMMA NumberedSeqs ==
  ASSUME NEW D, Ordered(D), NEW base \in Nat, NEW source
  PROVE  /\ \A e \in Numbered(D, base, source) : e.seq \in base + 1 .. base + Cardinality(D)
         /\ \A i \in base + 1 .. base + Cardinality(D) :
               \E e \in Numbered(D, base, source) : e.seq = i
         /\ \A e, f \in Numbered(D, base, source) : e.seq = f.seq => e = f
         /\ IsFiniteSet(Numbered(D, base, source))
<1> DEFINE num(d) == [seq |-> base + Position(D, d), at |-> d.at, key |-> d.key,
                      op |-> d.op, row |-> d.row, source |-> source]
           f == [d \in D |-> num(d)]
           N == Numbered(D, base, source)
<1>1. N = {f[d] : d \in D}
  BY DEF Numbered
<1>2. Cardinality(D) \in Nat /\ \A d \in D : Position(D, d) \in 1 .. Cardinality(D)
  BY PositionBounds, FS_CardinalityType DEF Ordered
<1>3. \A d \in D : f[d].seq = base + Position(D, d)
  OBVIOUS
<1>4. f \in Surjection(D, N)
  BY <1>1 DEF Surjection
<1>5. IsFiniteSet(N)
  BY <1>4, FS_Surjection DEF Ordered
<1> HIDE DEF f, N
<1>6. \A e \in N : e.seq \in base + 1 .. base + Cardinality(D)
  BY <1>1, <1>2, <1>3
<1>7. \A i \in base + 1 .. base + Cardinality(D) : \E e \in N : e.seq = i
  <2> SUFFICES ASSUME NEW i \in base + 1 .. base + Cardinality(D) PROVE \E e \in N : e.seq = i
    OBVIOUS
  <2>1. i - base \in 1 .. Cardinality(D)
    BY <1>2
  <2>2. PICK d \in D : Position(D, d) = i - base
    BY <2>1, PositionsFill
  <2> QED BY <1>1, <1>3, <2>2, <2>1
<1>8. \A c, d \in D : f[c].seq = f[d].seq => c = d
  <2> SUFFICES ASSUME NEW c \in D, NEW d \in D, f[c].seq = f[d].seq PROVE c = d
    OBVIOUS
  <2>1. Position(D, c) = Position(D, d)
    BY <1>2, <1>3
  <2> QED BY <2>1, PositionsFill
<1>9. \A e, g \in N : e.seq = g.seq => e = g
  BY <1>1, <1>8
<1> QED BY <1>5, <1>6, <1>7, <1>9 DEF N

\* The log as a set of numbers: finite, within the sequence, one event each.
Log ==
    /\ seqHigh \in 0 .. MaxSeq
    /\ IsFiniteSet(outbox)
    /\ \A e \in outbox : e.seq \in 1 .. seqHigh
    /\ \A e, f \in outbox : e.seq = f.seq => e = f

LEMMA AppendKeepsLog ==
  ASSUME Log, NEW D, Ordered(D), NEW source, AppendEvents(D, source)
  PROVE  /\ Log'
         /\ 1 .. seqHigh \subseteq {e.seq : e \in outbox}
               => 1 .. seqHigh' \subseteq {e.seq : e \in outbox'}
<1> DEFINE N == Numbered(D, seqHigh, source)
<1>1. seqHigh \in Nat /\ MaxSeq \in Nat /\ Cardinality(D) \in Nat
  BY BoundsAssumption, FS_CardinalityType DEF Log, Ordered
<1>2. /\ seqHigh + Cardinality(D) <= MaxSeq
      /\ outbox' = outbox \cup N
      /\ seqHigh' = seqHigh + Cardinality(D)
  BY DEF AppendEvents
<1>3. /\ \A e \in N : e.seq \in seqHigh + 1 .. seqHigh + Cardinality(D)
      /\ \A i \in seqHigh + 1 .. seqHigh + Cardinality(D) : \E e \in N : e.seq = i
      /\ \A e, f \in N : e.seq = f.seq => e = f
      /\ IsFiniteSet(N)
  BY <1>1, NumberedSeqs
<1> HIDE DEF N
<1>4. IsFiniteSet(outbox')
  BY <1>2, <1>3, FS_Union DEF Log
<1>5. \A e \in outbox' : e.seq \in 1 .. seqHigh'
  BY <1>1, <1>2, <1>3 DEF Log
<1>6. \A e \in outbox, f \in N : e.seq # f.seq
  BY <1>1, <1>3 DEF Log
<1>7. \A e, f \in outbox' : e.seq = f.seq => e = f
  BY <1>2, <1>3, <1>6 DEF Log
<1>8. ASSUME 1 .. seqHigh \subseteq {e.seq : e \in outbox}, NEW i \in 1 .. seqHigh'
      PROVE  \E e \in outbox' : e.seq = i
  <2>1. CASE i <= seqHigh
    BY <1>8, <2>1, <1>1, <1>2
  <2>2. CASE i > seqHigh
    <3>1. i \in seqHigh + 1 .. seqHigh + Cardinality(D)
      BY <2>2, <1>1, <1>2, <1>8
    <3> QED BY <3>1, <1>2, <1>3
  <2> QED BY <2>1, <2>2, <1>1, <1>2
<1>9. seqHigh' \in 0 .. MaxSeq
  BY <1>1, <1>2
<1> QED BY <1>4, <1>5, <1>7, <1>8, <1>9 DEF Log

-----------------------------------------------------------------------------
(* What each transaction appends. *)

\* Drafts of distinct keys, or of distinct statements, are ordered.
LEMMA SingleOrdered ==
  ASSUME NEW k \in Keys, NEW op, NEW at, NEW row
  PROVE  Ordered({Draft(0, k, op, at, row)})
<1> DEFINE d == Draft(0, k, op, at, row)
<1>1. d.stage = 0 /\ d.key = k
  BY DEF Draft
<1> HIDE DEF d
<1>2. IsFiniteSet({d})
  BY FS_Singleton
<1>3. Ordered({d})
  BY <1>1, <1>2 DEF Ordered, Distinct
<1> QED BY <1>3 DEF d

LEMMA ImportOrdered ==
  ASSUME NEW h, NEW g
  PROVE  Ordered({Draft(0, k, "delete", clock, h[k]) : k \in Present(h)}
                   \cup {Draft(1, k, "insert", clock, g[k]) : k \in Present(g)})
<1> DEFINE f == [k \in Present(h) |-> Draft(0, k, "delete", clock, h[k])]
           i == [k \in Present(g) |-> Draft(1, k, "insert", clock, g[k])]
           D == {f[k] : k \in Present(h)} \cup {i[k] : k \in Present(g)}
<1>1. Present(h) \in SUBSET Keys /\ Present(g) \in SUBSET Keys
  BY DEF Present
<1>2. /\ \A k \in Present(h) : f[k].key = k /\ f[k].stage = 0
      /\ \A k \in Present(g) : i[k].key = k /\ i[k].stage = 1
  BY DEF Draft
<1>3. f = [k \in Present(h) |-> f[k]] /\ i = [k \in Present(g) |-> i[k]]
  OBVIOUS
<1>4. D = {Draft(0, k, "delete", clock, h[k]) : k \in Present(h)}
            \cup {Draft(1, k, "insert", clock, g[k]) : k \in Present(g)}
  OBVIOUS
<1> HIDE DEF f, i
<1>5. IsFiniteSet({f[k] : k \in Present(h)}) /\ IsFiniteSet({i[k] : k \in Present(g)})
  BY <1>1, <1>3, KeyedFinite
<1>6. IsFiniteSet(D)
  BY <1>5, FS_Union
<1>7. Distinct(D)
  BY <1>1, <1>2 DEF Distinct
<1>8. \A d \in D : d.stage \in Nat /\ d.key \in Keys
  BY <1>1, <1>2
<1> QED BY <1>4, <1>6, <1>7, <1>8 DEF Ordered

LEMMA EmitOrdered ==
  ASSUME NEW scope
  PROVE  Ordered(Drafts(scope))
<1> DEFINE now(k) == Draft(2 * k[1], k, "insert", occurred_at(k), holdings[k])
           gone(k) == Draft(2 * k[1] + 1, k, "delete", LastWritten(k).at, LastWritten(k).row)
           f == [k \in Keys |-> now(k)]
           g == [k \in Keys |-> gone(k)]
           D == Drafts(scope)
<1>1. \A k \in Keys : k[1] \in Nat
  BY BoundsAssumption DEF Keys
<1>2. \A k \in Keys : /\ f[k].key = k /\ f[k].stage = 2 * k[1]
                      /\ g[k].key = k /\ g[k].stage = 2 * k[1] + 1
  BY DEF Draft
<1>3. \A d \in D : (\E k \in Keys : d = f[k]) \/ (\E k \in Keys : d = g[k])
  BY DEF Drafts, emit_current_rows, emit_missing_rows, Present
<1>4. f = [k \in Keys |-> f[k]] /\ g = [k \in Keys |-> g[k]]
  OBVIOUS
<1> HIDE DEF f, g, D
<1>5. IsFiniteSet({f[k] : k \in Keys}) /\ IsFiniteSet({g[k] : k \in Keys})
  BY <1>4, KeyedFinite
<1>6. D \subseteq {f[k] : k \in Keys} \cup {g[k] : k \in Keys}
  BY <1>3
<1>7. IsFiniteSet(D)
  BY <1>5, <1>6, FS_Union, FS_Subset
<1>8. \A d \in D : d.stage \in Nat /\ d.key \in Keys
  BY <1>1, <1>2, <1>3
<1>9. Distinct(D)
  BY <1>1, <1>2, <1>3 DEF Distinct
<1> QED BY <1>7, <1>8, <1>9 DEF Ordered, D

\* Whatever a step is, it appends ordered drafts or leaves the log alone.
LEMMA EveryStepAppends ==
  ASSUME [Next]_vars
  PROVE  \/ UNCHANGED <<outbox, seqHigh>>
         \/ \E D, source : Ordered(D) /\ AppendEvents(D, source)
<1>1. ASSUME NEW k \in Keys, NEW row, Insert(k, row)
      PROVE  \E D, source : Ordered(D) /\ AppendEvents(D, source)
  BY <1>1, SingleOrdered DEF Insert
<1>2. ASSUME NEW k \in Keys, NEW v, Update(k, v)
      PROVE  \E D, source : Ordered(D) /\ AppendEvents(D, source)
  BY <1>2, SingleOrdered DEF Update
<1>3. ASSUME NEW k \in Keys, Delete(k)
      PROVE  \E D, source : Ordered(D) /\ AppendEvents(D, source)
  BY <1>3, SingleOrdered DEF Delete
<1>4. ASSUME NEW h, NEW r, Import(h, r)
      PROVE  \E D, source : Ordered(D) /\ AppendEvents(D, source)
  BY <1>4, ImportOrdered DEF Import
<1>5. ASSUME NEW scope, NEW force, EmitCommit(scope, force)
      PROVE  \E D, source : Ordered(D) /\ AppendEvents(D, source)
  BY <1>5, EmitOrdered DEF EmitCommit
<1> QED BY <1>1, <1>2, <1>3, <1>4, <1>5
        DEF Next, Mutate, ImportCheck, ImportAbort, Emit, EmitCheck, EmitAbort, Tick, vars

-----------------------------------------------------------------------------
(* The ledger of the emit runs. *)

\* Every run of the ledger lies within the numbers already given out, so an
\* event that is still to come is in none of them.
LedgerRow == [source : Sources, seq_first : Nat, seq_last : Nat]

RunsWithin ==
    /\ emitLog \in Seq(LedgerRow)
    /\ \A i \in DOMAIN emitLog : emitLog[i].seq_first >= 1 /\ emitLog[i].seq_last <= seqHigh

LEMMA RangesAreNat ==
  ASSUME NEW log \in Seq(LedgerRow), NEW i \in DOMAIN log
  PROVE  log[i].seq_first \in Nat /\ log[i].seq_last \in Nat
<1>1. log[i] \in LedgerRow
  OBVIOUS
<1> QED BY <1>1 DEF LedgerRow

LEMMA OneMore ==
  ASSUME NEW S, NEW s \in Seq(S), NEW x \in S
  PROVE  /\ s \o <<x>> \in Seq(S)
         /\ DOMAIN (s \o <<x>>) = DOMAIN s \cup {Len(s) + 1}
         /\ \A i \in DOMAIN s : (s \o <<x>>)[i] = s[i]
         /\ (s \o <<x>>)[Len(s) + 1] = x
         /\ Len(s) + 1 \notin DOMAIN s
OBVIOUS

\* The events of one append carry one source and the next numbers, and all the
\* events before them carry smaller ones.
LEMMA AppendNumbers ==
  ASSUME Log, NEW D, Ordered(D), NEW source, AppendEvents(D, source)
  PROVE  /\ seqHigh \in Nat /\ Cardinality(D) \in Nat /\ seqHigh' = seqHigh + Cardinality(D)
         /\ outbox' = outbox \cup Numbered(D, seqHigh, source)
         /\ \A e \in Numbered(D, seqHigh, source) :
              e.source = source /\ e.seq \in seqHigh + 1 .. seqHigh'
         /\ \A e \in outbox : e.seq \in 1 .. seqHigh
<1>1. seqHigh \in Nat /\ Cardinality(D) \in Nat
  BY BoundsAssumption, FS_CardinalityType DEF Log, Ordered
<1>2. \A e \in Numbered(D, seqHigh, source) : e.seq \in seqHigh + 1 .. seqHigh + Cardinality(D)
  BY <1>1, NumberedSeqs
<1>3. \A e \in Numbered(D, seqHigh, source) : e.source = source
  BY DEF Numbered
<1> QED BY <1>1, <1>2, <1>3 DEF AppendEvents, Log

\* A mutation of the holdings appends behind every run of the ledger.
LEMMA TriggerKeepsLedger ==
  ASSUME Log, RunsWithin, LedgerExact, NEW D, Ordered(D), AppendEvents(D, "trigger"),
         UNCHANGED emitLog
  PROVE  RunsWithin' /\ LedgerExact'
<1> DEFINE N == Numbered(D, seqHigh, "trigger")
<1>1. /\ seqHigh \in Nat /\ Cardinality(D) \in Nat /\ seqHigh' = seqHigh + Cardinality(D)
      /\ outbox' = outbox \cup N
      /\ \A e \in N : e.source = "trigger" /\ e.seq \in seqHigh + 1 .. seqHigh'
  BY AppendNumbers
<1> HIDE DEF N
<1>2. \A i \in DOMAIN emitLog :
         /\ emitLog[i].seq_first \in Nat /\ emitLog[i].seq_last \in Nat
         /\ emitLog[i].seq_first >= 1 /\ emitLog[i].seq_last <= seqHigh
  BY RangesAreNat DEF RunsWithin
<1>3. RunsWithin'
  BY <1>1, <1>2 DEF RunsWithin
<1>4. \A e \in N, i \in DOMAIN emitLog : e.seq \notin emitLog[i].seq_first .. emitLog[i].seq_last
  BY <1>1, <1>2
<1>5. LedgerExact'
  BY <1>1, <1>4 DEF LedgerExact
<1> QED BY <1>3, <1>5

\* An emit run appends its events and a row whose range holds exactly those.
LEMMA RunKeepsLedger ==
  ASSUME Log, RunsWithin, LedgerExact, NEW D, Ordered(D),
         NEW source \in {"backfill", "redrive"}, AppendEvents(D, source),
         emitLog' = emitLog \o << [source |-> source, seq_first |-> seqHigh + 1,
                                   seq_last |-> seqHigh + Cardinality(D)] >>
  PROVE  RunsWithin' /\ LedgerExact'
<1> DEFINE N == Numbered(D, seqHigh, source)
           n == Len(emitLog) + 1
           run == [source |-> source, seq_first |-> seqHigh + 1,
                   seq_last |-> seqHigh + Cardinality(D)]
<1>1. /\ seqHigh \in Nat /\ Cardinality(D) \in Nat /\ seqHigh' = seqHigh + Cardinality(D)
      /\ outbox' = outbox \cup N
      /\ \A e \in N : e.source = source /\ e.seq \in seqHigh + 1 .. seqHigh'
      /\ \A e \in outbox : e.seq \in 1 .. seqHigh
  BY AppendNumbers
<1>2. run \in LedgerRow
  BY <1>1 DEF Sources, LedgerRow
<1>3. /\ emitLog' \in Seq(LedgerRow)
      /\ DOMAIN emitLog' = DOMAIN emitLog \cup {n} /\ n \notin DOMAIN emitLog
      /\ \A i \in DOMAIN emitLog : emitLog'[i] = emitLog[i]
      /\ emitLog'[n] = run
  <2>1. emitLog \in Seq(LedgerRow) /\ emitLog' = emitLog \o <<run>>
    BY DEF RunsWithin
  <2> HIDE DEF run
  <2> QED BY <1>2, <2>1, OneMore
<1>4. run.source = source /\ run.seq_first = seqHigh + 1 /\ run.seq_last = seqHigh'
  BY <1>1
<1>5. \A i \in DOMAIN emitLog :
         /\ emitLog[i].seq_first \in Nat /\ emitLog[i].seq_last \in Nat
         /\ emitLog[i].seq_first >= 1 /\ emitLog[i].seq_last <= seqHigh
  BY RangesAreNat DEF RunsWithin
<1> HIDE DEF N, n, run
<1>6. RunsWithin'
  BY <1>1, <1>3, <1>4, <1>5 DEF RunsWithin
<1>7. \A e \in N, i \in DOMAIN emitLog : e.seq \notin emitLog'[i].seq_first .. emitLog'[i].seq_last
  BY <1>1, <1>3, <1>5
<1>8. \A e \in N : e.seq \in emitLog'[n].seq_first .. emitLog'[n].seq_last /\ e.source = source
  BY <1>1, <1>3, <1>4
<1>9. \A e \in outbox : e.seq \notin emitLog'[n].seq_first .. emitLog'[n].seq_last
  BY <1>1, <1>3, <1>4
<1>10. LedgerExact'
  <2>1. \A e \in outbox' :
           e.source = "trigger" <=>
              ~ \E i \in DOMAIN emitLog' :
                  e.seq \in emitLog'[i].seq_first .. emitLog'[i].seq_last
    <3>1. ASSUME NEW e \in N
          PROVE  /\ e.source # "trigger"
                 /\ \E i \in DOMAIN emitLog' :
                      e.seq \in emitLog'[i].seq_first .. emitLog'[i].seq_last
      BY <3>1, <1>3, <1>8
    <3>2. ASSUME NEW e \in outbox
          PROVE  (\E i \in DOMAIN emitLog' :
                    e.seq \in emitLog'[i].seq_first .. emitLog'[i].seq_last)
                 <=> \E i \in DOMAIN emitLog :
                       e.seq \in emitLog[i].seq_first .. emitLog[i].seq_last
      BY <3>2, <1>3, <1>9
    <3> QED BY <3>1, <3>2, <1>1 DEF LedgerExact
  <2>2. ASSUME NEW i \in DOMAIN emitLog', NEW e \in outbox',
               e.seq \in emitLog'[i].seq_first .. emitLog'[i].seq_last
        PROVE  e.source = emitLog'[i].source
    <3>1. CASE e \in N
      BY <3>1, <2>2, <1>3, <1>4, <1>7, <1>8
    <3>2. CASE e \in outbox
      BY <3>2, <2>2, <1>3, <1>9 DEF LedgerExact
    <3> QED BY <3>1, <3>2, <1>1
  <2> QED BY <2>1, <2>2 DEF LedgerExact
<1> QED BY <1>6, <1>10

\* The ledger's ranges and the log's sources agree, whatever mix of writers
\* the database has seen: a range describes the events of its own run alone.
THEOREM LedgerStaysExact == Spec => []LedgerExact
<1>1. Init => Log /\ RunsWithin /\ LedgerExact
  BY BoundsAssumption, FS_EmptySet DEF Init, Log, RunsWithin, LedgerExact
<1>2. Log /\ [Next]_vars => Log'
  BY EveryStepAppends, AppendKeepsLog DEF Log
<1>3. Log /\ RunsWithin /\ LedgerExact /\ [Next]_vars => RunsWithin' /\ LedgerExact'
  <2> SUFFICES ASSUME Log, RunsWithin, LedgerExact, [Next]_vars
               PROVE  RunsWithin' /\ LedgerExact'
    OBVIOUS
  <2>1. ASSUME NEW k \in Keys, NEW row, Insert(k, row)
        PROVE  RunsWithin' /\ LedgerExact'
    BY <2>1, SingleOrdered, TriggerKeepsLedger DEF Insert
  <2>2. ASSUME NEW k \in Keys, NEW v, Update(k, v)
        PROVE  RunsWithin' /\ LedgerExact'
    BY <2>2, SingleOrdered, TriggerKeepsLedger DEF Update
  <2>3. ASSUME NEW k \in Keys, Delete(k)
        PROVE  RunsWithin' /\ LedgerExact'
    BY <2>3, SingleOrdered, TriggerKeepsLedger DEF Delete
  <2>4. ASSUME NEW h, NEW r, Import(h, r)
        PROVE  RunsWithin' /\ LedgerExact'
    BY <2>4, ImportOrdered, TriggerKeepsLedger DEF Import
  <2>5. ASSUME NEW scope, NEW force, EmitCommit(scope, force)
        PROVE  RunsWithin' /\ LedgerExact'
    <3>1. provenance(scope) \in {"backfill", "redrive"}
      BY DEF provenance
    <3> QED BY <2>5, <3>1, EmitOrdered, RunKeepsLedger DEF EmitCommit
  <2>6. ASSUME UNCHANGED <<outbox, seqHigh, emitLog>>
        PROVE  RunsWithin' /\ LedgerExact'
    BY <2>6 DEF RunsWithin, LedgerExact
  <2> QED BY <2>1, <2>2, <2>3, <2>4, <2>5, <2>6
          DEF Next, Mutate, ImportCheck, ImportAbort, Emit, EmitCheck, EmitAbort, Tick, vars
<1> QED BY <1>1, <1>2, <1>3, PTL DEF Spec

-----------------------------------------------------------------------------
(* What the drafts say. *)

DraftSet == [stage : Nat, key : Keys, op : Ops, at : Times, row : Rows]

\* Typed drafts are ordered.
LEMMA DraftsOrdered ==
  ASSUME NEW D \in SUBSET DraftSet, IsFiniteSet(D), Distinct(D)
  PROVE  Ordered(D)
BY DEF Ordered, DraftSet

-----------------------------------------------------------------------------
(* The inductive invariant. *)

\* Nothing is dated later than the wall clock reads.
Past ==
    /\ \A e \in outbox : e.at <= clock
    /\ \A k \in Keys : holdings[k] # NoRow => holdings[k].date <= clock

\* The events of one key are dated in the order they were written.
Chronology == \A e, f \in outbox : e.key = f.key /\ e.seq < f.seq => e.at <= f.at

IsLast(E, l) == \A f \in E : f.key = l.key => f.seq <= l.seq

\* The last event of a key says what the table holds there.
Described == \A l \in outbox : IsLast(outbox, l) => Image(l) = holdings[l.key]

HasLast == \A e \in outbox : \E l \in outbox : l.key = e.key /\ IsLast(outbox, l)

\* After a backfill every row has an event.
Covered ==
    last_backfill # {} => \A k \in Keys : holdings[k] # NoRow => EventsOf(outbox, k) # {}

\* AUTOINCREMENT's numbers, as the proofs below lean on them: the events of the
\* log carry exactly the numbers 1..seqHigh, each once.
GapFree ==
    /\ {e.seq : e \in outbox} = 1 .. seqHigh
    /\ \A e, f \in outbox : e.seq = f.seq => e = f

IInv == TypeOK /\ GapFree /\ Past /\ Chronology /\ Described /\ HasLast /\ Covered

-----------------------------------------------------------------------------
(* One append. *)

IsFinal(D, l) == \A c \in D : c.key = l.key => c.stage <= l.stage

Sound(D) ==
    /\ D \subseteq DraftSet /\ IsFiniteSet(D) /\ Distinct(D)
    /\ \A d \in D : \A e \in outbox : e.key = d.key => e.at <= d.at
    /\ \A c, d \in D : c.key = d.key => c.at = d.at
    /\ \A d \in D : d.at <= clock
    /\ \A d \in D : \E l \in D : l.key = d.key /\ IsFinal(D, l)
    /\ \A l \in D : IsFinal(D, l) => Image(l) = holdings'[l.key]
    /\ \A k \in Keys : (\A d \in D : d.key # k) => holdings'[k] = holdings[k]

\* Each event of an append is one draft with the next number of its own.
LEMMA NumberedFacts ==
  ASSUME NEW D \in SUBSET DraftSet, IsFiniteSet(D), Distinct(D),
         NEW base \in Nat, NEW source \in Sources
  PROVE  /\ Numbered(D, base, source) \subseteq Event
         /\ \A e \in Numbered(D, base, source) : \E d \in D :
               /\ e.seq = base + Position(D, d)
               /\ e.at = d.at /\ e.key = d.key /\ e.op = d.op /\ e.row = d.row
               /\ e.source = source
         /\ \A d \in D : \E e \in Numbered(D, base, source) :
               /\ e.seq = base + Position(D, d)
               /\ e.at = d.at /\ e.key = d.key /\ e.op = d.op /\ e.row = d.row
         /\ \A e, f \in Numbered(D, base, source) : e.seq = f.seq => e = f
         /\ \A e \in Numbered(D, base, source) : e.seq \in base + 1 .. base + Cardinality(D)
         /\ \A i \in base + 1 .. base + Cardinality(D) :
               \E e \in Numbered(D, base, source) : e.seq = i
<1> DEFINE num(d) == [seq |-> base + Position(D, d), at |-> d.at, key |-> d.key,
                      op |-> d.op, row |-> d.row, source |-> source]
<1>1. Numbered(D, base, source) = {num(d) : d \in D}
  BY DEF Numbered
<1> Ordered(D)
  BY DraftsOrdered
<1>2. \A d \in D : Position(D, d) \in 1 .. Cardinality(D)
  BY PositionBounds
<1>3. Cardinality(D) \in Nat
  BY FS_CardinalityType
<1>4. \A d \in D : num(d) \in Event
  BY <1>2, <1>3 DEF DraftSet, Event
<1>5. \A c, d \in D : num(c).seq = num(d).seq => c = d
  <2> SUFFICES ASSUME NEW c \in D, NEW d \in D, num(c).seq = num(d).seq PROVE c = d
    OBVIOUS
  <2>1. Position(D, c) = Position(D, d)
    BY <1>2, <1>3
  <2> QED BY <2>1, PositionsFill
<1>6. \A i \in base + 1 .. base + Cardinality(D) : \E d \in D : num(d).seq = i
  <2> SUFFICES ASSUME NEW i \in base + 1 .. base + Cardinality(D)
               PROVE  \E d \in D : num(d).seq = i
    OBVIOUS
  <2>1. i - base \in 1 .. Cardinality(D)
    BY <1>3
  <2>2. PICK d \in D : Position(D, d) = i - base
    BY <2>1, PositionsFill
  <2> QED BY <2>2, <2>1
<1>7. \A d \in D : num(d).seq \in base + 1 .. base + Cardinality(D)
  BY <1>2, <1>3
<1>8. Numbered(D, base, source) \subseteq Event
  BY <1>1, <1>4
<1>9. \A d \in D : num(d) \in Numbered(D, base, source)
  BY <1>1
<1>10. \A e \in Numbered(D, base, source) : \E d \in D : e = num(d)
  BY <1>1
<1>11. \A e, f \in Numbered(D, base, source) : e.seq = f.seq => e = f
  BY <1>10, <1>5
<1>12. \A e \in Numbered(D, base, source) : e.seq \in base + 1 .. base + Cardinality(D)
  BY <1>10, <1>7
<1>13. \A i \in base + 1 .. base + Cardinality(D) :
          \E e \in Numbered(D, base, source) : e.seq = i
  BY <1>9, <1>6
<1>14. \A e \in Numbered(D, base, source) : \E d \in D :
               /\ e.seq = base + Position(D, d)
               /\ e.at = d.at /\ e.key = d.key /\ e.op = d.op /\ e.row = d.row
               /\ e.source = source
  BY <1>10
<1>15. \A d \in D : \E e \in Numbered(D, base, source) :
               /\ e.seq = base + Position(D, d)
               /\ e.at = d.at /\ e.key = d.key /\ e.op = d.op /\ e.row = d.row
  <2> SUFFICES ASSUME NEW d \in D
               PROVE  \E e \in Numbered(D, base, source) :
                         /\ e.seq = base + Position(D, d)
                         /\ e.at = d.at /\ e.key = d.key /\ e.op = d.op /\ e.row = d.row
    OBVIOUS
  <2>1. num(d) \in Numbered(D, base, source)
    BY <1>9
  <2> WITNESS num(d) \in Numbered(D, base, source)
  <2> QED OBVIOUS
<1> HIDE DEF num
<1> QED BY <1>8, <1>11, <1>12, <1>13, <1>14, <1>15

\* An append of sound drafts keeps the part of the invariant about events.
LEMMA SoundAppend ==
  ASSUME IInv, NEW D, NEW source \in Sources, Sound(D), AppendEvents(D, source)
  PROVE  /\ outbox' \subseteq Event /\ seqHigh' \in Nat
         /\ \A e \in outbox' : e.at <= clock
         /\ GapFree' /\ Chronology' /\ Described' /\ HasLast'
         /\ \A k \in Keys : EventsOf(outbox, k) # {} => EventsOf(outbox', k) # {}
         /\ \A d \in D : EventsOf(outbox', d.key) # {}
<1> DEFINE N == Numbered(D, seqHigh, source)
<1>1. /\ D \in SUBSET DraftSet /\ IsFiniteSet(D) /\ Distinct(D)
      /\ seqHigh \in Nat /\ outbox \subseteq Event
      /\ Cardinality(D) \in Nat
  BY FS_CardinalityType DEF Sound, IInv, TypeOK
<1> Ordered(D)
  BY <1>1, DraftsOrdered
<1>2. outbox' = outbox \cup N /\ seqHigh' = seqHigh + Cardinality(D)
  BY DEF AppendEvents
<1>3. /\ N \subseteq Event
      /\ \A e \in N : \E d \in D :
            /\ e.seq = seqHigh + Position(D, d)
            /\ e.at = d.at /\ e.key = d.key /\ e.op = d.op /\ e.row = d.row
      /\ \A d \in D : \E e \in N :
            /\ e.seq = seqHigh + Position(D, d)
            /\ e.at = d.at /\ e.key = d.key /\ e.op = d.op /\ e.row = d.row
      /\ \A e, f \in N : e.seq = f.seq => e = f
      /\ \A e \in N : e.seq \in seqHigh + 1 .. seqHigh + Cardinality(D)
      /\ \A i \in seqHigh + 1 .. seqHigh + Cardinality(D) : \E e \in N : e.seq = i
  BY <1>1, NumberedFacts
<1>4. \A e \in outbox : e.seq \in 1 .. seqHigh
  BY DEF IInv, GapFree
<1>5. outbox' \subseteq Event /\ seqHigh' \in Nat
  BY <1>1, <1>2, <1>3
<1>6. \A e \in outbox' : e.at <= clock
  BY <1>2, <1>3 DEF IInv, Past, Sound
<1>7. \A e \in outbox, f \in N : e.seq < f.seq
  BY <1>1, <1>3, <1>4
<1>8. GapFree'
  <2>1. \A e \in outbox' : e.seq \in 1 .. seqHigh'
    BY <1>1, <1>2, <1>3, <1>4
  <2>2. \A i \in 1 .. seqHigh' : \E e \in outbox' : e.seq = i
    <3> SUFFICES ASSUME NEW i \in 1 .. seqHigh' PROVE \E e \in outbox' : e.seq = i
      OBVIOUS
    <3>1. CASE i <= seqHigh
      <4>1. i \in 1 .. seqHigh
        BY <3>1, <1>1, <1>2
      <4> QED BY <4>1, <1>2 DEF IInv, GapFree
    <3>2. CASE i > seqHigh
      <4>1. i \in seqHigh + 1 .. seqHigh + Cardinality(D)
        BY <3>2, <1>1, <1>2
      <4> QED BY <4>1, <1>2, <1>3
    <3> QED BY <3>1, <3>2, <1>1, <1>2
  <2>3. \A e, f \in outbox' : e.seq = f.seq => e = f
    <3>1. \A e, f \in outbox : e.seq = f.seq => e = f
      BY DEF IInv, GapFree
    <3>2. \A e \in outbox, f \in N : e.seq # f.seq
      BY <1>1, <1>3, <1>7
    <3> QED BY <1>2, <1>3, <3>1, <3>2
  <2> QED BY <2>1, <2>2, <2>3 DEF GapFree
<1>9. Chronology'
  <2> SUFFICES ASSUME NEW e \in outbox', NEW f \in outbox', e.key = f.key, e.seq < f.seq
               PROVE  e.at <= f.at
    BY DEF Chronology
  <2>1. CASE e \in outbox /\ f \in outbox
    BY <2>1 DEF IInv, Chronology
  <2>2. CASE e \in outbox /\ f \in N
    BY <2>2, <1>3 DEF Sound
  <2>3. CASE e \in N /\ f \in outbox
    BY <2>3, <1>7, <1>5, <1>2 DEF Event
  <2>4. CASE e \in N /\ f \in N
    <3>1. e.at = f.at /\ e.at \in Int
      BY <2>4, <1>3, <1>5 DEF Sound, Event, Times, Undated
    <3> QED BY <3>1
  <2> QED BY <2>1, <2>2, <2>3, <2>4, <1>2
<1>10. ASSUME NEW l \in D, IsFinal(D, l)
       PROVE  \E e \in N : e.key = l.key /\ IsLast(outbox', e)
  <2>1. PICK e \in N : /\ e.seq = seqHigh + Position(D, l)
                       /\ e.key = l.key
    BY <1>3
  <2>2. ASSUME NEW f \in outbox', f.key = e.key PROVE f.seq <= e.seq
    <3>1. CASE f \in outbox
      BY <3>1, <1>7, <1>5, <1>2 DEF Event
    <3>2. CASE f \in N
      <4>1. PICK d \in D : f.seq = seqHigh + Position(D, d) /\ f.key = d.key
        BY <3>2, <1>3
      <4>2. d.stage <= l.stage /\ d.key = l.key
        BY <4>1, <2>1, <2>2, <1>10 DEF IsFinal
      <4>3. d = l \/ WrittenBefore(d, l)
        BY <4>2, <1>1 DEF WrittenBefore, Distinct, DraftSet
      <4>4. Position(D, d) <= Position(D, l)
        <5>1. Position(D, d) \in Int /\ Position(D, l) \in Int
          BY <1>1, PositionBounds
        <5> QED BY <5>1, <4>3, <1>1, PositionOrder
      <4>5. Position(D, d) \in Int /\ Position(D, l) \in Int
        BY <1>1, PositionBounds
      <4> QED BY <4>1, <4>4, <4>5, <2>1, <1>1
    <3> QED BY <3>1, <3>2, <1>2
  <2> QED BY <2>1, <2>2 DEF IsLast
<1>11. \A d \in D : \E e \in N : e.key = d.key /\ IsLast(outbox', e)
  <2> SUFFICES ASSUME NEW d \in D PROVE \E e \in N : e.key = d.key /\ IsLast(outbox', e)
    OBVIOUS
  <2>1. PICK l \in D : l.key = d.key /\ IsFinal(D, l)
    BY DEF Sound
  <2> QED BY <2>1, <1>10
<1>12. ASSUME NEW l \in outbox, \A d \in D : d.key # l.key
       PROVE  IsLast(outbox', l) <=> IsLast(outbox, l)
  BY <1>2, <1>3, <1>12 DEF IsLast
<1>13. HasLast'
  <2> SUFFICES ASSUME NEW e \in outbox'
               PROVE  \E l \in outbox' : l.key = e.key /\ IsLast(outbox', l)
    BY DEF HasLast
  <2>1. CASE \E d \in D : d.key = e.key
    BY <2>1, <1>11, <1>2
  <2>2. CASE \A d \in D : d.key # e.key
    <3>1. e \in outbox
      BY <2>2, <1>2, <1>3
    <3>2. PICK l \in outbox : l.key = e.key /\ IsLast(outbox, l)
      BY <3>1 DEF IInv, HasLast
    <3> QED BY <3>2, <2>2, <1>12, <1>2
  <2> QED BY <2>1, <2>2
<1>14. Described'
  <2> SUFFICES ASSUME NEW l \in outbox', IsLast(outbox', l)
               PROVE  Image(l) = holdings'[l.key]
    BY DEF Described
  <2>1. CASE \E d \in D : d.key = l.key
    <3>1. PICK d \in D : d.key = l.key /\ IsFinal(D, d)
      BY <2>1 DEF Sound
    <3>2. PICK e \in N : e.key = l.key /\ IsLast(outbox', e)
      BY <3>1, <1>10
    <3>3. e.seq <= l.seq /\ l.seq <= e.seq /\ e \in outbox'
      BY <3>2, <1>2 DEF IsLast
    <3>4. e = l
      <4>1. e.seq \in Int /\ l.seq \in Int
        BY <1>5, <3>3 DEF Event
      <4> QED BY <3>3, <4>1, <1>8 DEF GapFree
    <3>5. PICK c \in D : /\ l.seq = seqHigh + Position(D, c)
                         /\ l.key = c.key /\ l.op = c.op /\ l.row = c.row
      BY <3>2, <3>4, <1>3
    <3>6. PICK g \in N : g.seq = seqHigh + Position(D, d) /\ g.key = d.key
      BY <1>3
    <3>7. seqHigh + Position(D, d) <= seqHigh + Position(D, c)
      BY <3>5, <3>6, <3>1, <1>2 DEF IsLast
    <3>8. ~WrittenBefore(c, d)
      <4>1. Position(D, c) \in Int /\ Position(D, d) \in Int
        BY <1>1, PositionBounds
      <4>2. ~(Position(D, c) < Position(D, d))
        BY <4>1, <3>7, <1>1
      <4> QED BY <4>2, <1>1, PositionOrder
    <3>9. c.stage <= d.stage /\ c.key = d.key
      BY <3>1, <3>5 DEF IsFinal
    <3>10. c = d
      BY <3>8, <3>9, <1>1 DEF WrittenBefore, Distinct, DraftSet
    <3> QED BY <3>1, <3>5, <3>10 DEF Sound, Image
  <2>2. CASE \A d \in D : d.key # l.key
    <3>1. l \in outbox
      BY <2>2, <1>2, <1>3
    <3>2. Image(l) = holdings[l.key]
      BY <3>1, <2>2, <1>12 DEF IInv, Described
    <3>3. holdings'[l.key] = holdings[l.key]
      BY <2>2, <3>1, <1>1 DEF Sound, Event
    <3> QED BY <3>2, <3>3
  <2> QED BY <2>1, <2>2
<1>15. /\ \A k \in Keys : EventsOf(outbox, k) # {} => EventsOf(outbox', k) # {}
       /\ \A d \in D : EventsOf(outbox', d.key) # {}
  BY <1>2, <1>3 DEF EventsOf
<1> QED BY <1>5, <1>6, <1>8, <1>9, <1>13, <1>14, <1>15

\* The invariant after a transaction, given what the append does not touch.
LEMMA AppendStep ==
  ASSUME IInv, NEW D, NEW source \in Sources, Sound(D), AppendEvents(D, source),
         clock' = clock, checked' \subseteq Emitters, vacant' \subseteq Importers,
         holdings' \in [Keys -> Rows \cup {NoRow}],
         \A k \in Keys : holdings'[k] # NoRow => holdings'[k].date <= clock,
         emitLog' \in Seq([source : Sources, seq_first : Nat, seq_last : Nat]),
         \/ last_backfill' # {} => last_backfill # {}
         \/ \A k \in Keys : holdings'[k] # NoRow => \E d \in D : d.key = k
  PROVE  IInv'
<1>1. /\ outbox' \subseteq Event /\ seqHigh' \in Nat
      /\ \A e \in outbox' : e.at <= clock
      /\ GapFree' /\ Chronology' /\ Described' /\ HasLast'
      /\ \A k \in Keys : EventsOf(outbox, k) # {} => EventsOf(outbox', k) # {}
      /\ \A d \in D : EventsOf(outbox', d.key) # {}
  BY SoundAppend
<1>2. TypeOK'
  BY <1>1 DEF IInv, TypeOK
<1>3. Past'
  BY <1>1 DEF Past
<1>4. Covered'
  <2> SUFFICES ASSUME last_backfill' # {}, NEW k \in Keys, holdings'[k] # NoRow
               PROVE  EventsOf(outbox', k) # {}
    BY DEF Covered
  <2>1. CASE \E d \in D : d.key = k
    BY <2>1, <1>1
  <2>2. CASE \A d \in D : d.key # k
    <3>1. holdings[k] # NoRow
      BY <2>2 DEF Sound
    <3>2. last_backfill # {}
      BY <2>2
    <3> QED BY <3>1, <3>2, <1>1 DEF IInv, Covered
  <2> QED BY <2>1, <2>2
<1> QED BY <1>1, <1>2, <1>3, <1>4 DEF IInv

-----------------------------------------------------------------------------
(* The actions. *)

\* What the environment must keep to: a wall clock that is never set back,
\* and no row dated later than the instant it is written.
Steady == ~ClockMayStepBack /\ ~DatesMayLead

\* A trigger appends one draft, dated now, of the row as it now is.
LEMMA TriggerSound ==
  ASSUME IInv, NEW d \in DraftSet, d.at = clock, Image(d) = holdings'[d.key],
         \A k \in Keys : k # d.key => holdings'[k] = holdings[k]
  PROVE  Sound({d})
<1>1. IsFiniteSet({d})
  BY FS_Singleton
<1>2. clock \in Int
  BY DEF IInv, TypeOK
<1>3. d.stage \in Nat
  BY DEF DraftSet
<1>4. \A e \in outbox : e.at <= clock
  BY DEF IInv, Past
<1> QED BY <1>1, <1>2, <1>3, <1>4 DEF Sound, Distinct, IsFinal

LEMMA InsertStep ==
  ASSUME IInv, NEW k \in Keys, NEW row \in Rows, row.date <= clock, Insert(k, row)
  PROVE  IInv'
<1> DEFINE d == Draft(0, k, "insert", clock, row)
<1>1. d \in DraftSet /\ d.at = clock /\ d.key = k /\ Image(d) = row
  BY DEF Draft, DraftSet, Ops, IInv, TypeOK, Times, Undated, Image
<1>2. /\ holdings' = [holdings EXCEPT ![k] = row]
      /\ AppendEvents({d}, "trigger")
      /\ UNCHANGED <<emitLog, checked, vacant, clock>>
  BY DEF Insert
<1>3. /\ holdings' \in [Keys -> Rows \cup {NoRow}] /\ holdings'[k] = row
      /\ \A j \in Keys : j # k => holdings'[j] = holdings[j]
  BY <1>2 DEF IInv, TypeOK
<1>4. Sound({d})
  BY <1>1, <1>3, TriggerSound
<1>5. \A j \in Keys : holdings'[j] # NoRow => holdings'[j].date <= clock
  BY <1>3 DEF IInv, Past
<1>6. last_backfill' = last_backfill
  BY <1>2 DEF last_backfill
<1>7. "trigger" \in Sources
  BY DEF Sources
<1> HIDE DEF d
<1> QED BY <1>2, <1>3, <1>4, <1>5, <1>6, <1>7, AppendStep DEF IInv, TypeOK

LEMMA UpdateStep ==
  ASSUME IInv, NEW k \in Keys, NEW v \in Values, Update(k, v)
  PROVE  IInv'
<1> DEFINE row == [holdings[k] EXCEPT !.val = v]
           d == Draft(0, k, "update", clock, row)
<1>1. holdings[k] \in Rows /\ holdings[k] # NoRow
  BY DEF Update, IInv, TypeOK
<1>2. row \in Rows /\ row.date = holdings[k].date
  BY <1>1 DEF Rows
<1>3. d \in DraftSet /\ d.at = clock /\ d.key = k /\ Image(d) = row
  BY <1>2 DEF Draft, DraftSet, Ops, IInv, TypeOK, Times, Undated, Image
<1>4. /\ holdings' = [holdings EXCEPT ![k] = row]
      /\ AppendEvents({d}, "trigger")
      /\ UNCHANGED <<emitLog, checked, vacant, clock>>
  BY DEF Update
<1> HIDE DEF row
<1>5. /\ holdings' \in [Keys -> Rows \cup {NoRow}] /\ holdings'[k] = row
      /\ \A j \in Keys : j # k => holdings'[j] = holdings[j]
  BY <1>2, <1>4 DEF IInv, TypeOK
<1>6. Sound({d})
  BY <1>3, <1>5, TriggerSound
<1>7. \A j \in Keys : holdings'[j] # NoRow => holdings'[j].date <= clock
  BY <1>1, <1>2, <1>5 DEF IInv, Past
<1>8. last_backfill' = last_backfill
  BY <1>4 DEF last_backfill
<1>9. "trigger" \in Sources
  BY DEF Sources
<1> HIDE DEF d
<1> QED BY <1>4, <1>5, <1>6, <1>7, <1>8, <1>9, AppendStep DEF IInv, TypeOK

LEMMA DeleteStep ==
  ASSUME IInv, NEW k \in Keys, Delete(k)
  PROVE  IInv'
<1> DEFINE d == Draft(0, k, "delete", clock, holdings[k])
<1>1. holdings[k] \in Rows
  BY DEF Delete, IInv, TypeOK
<1>2. d \in DraftSet /\ d.at = clock /\ d.key = k /\ Image(d) = NoRow
  BY <1>1 DEF Draft, DraftSet, Ops, IInv, TypeOK, Times, Undated, Image
<1>3. /\ holdings' = [holdings EXCEPT ![k] = NoRow]
      /\ AppendEvents({d}, "trigger")
      /\ UNCHANGED <<emitLog, checked, vacant, clock>>
  BY DEF Delete
<1>4. /\ holdings' \in [Keys -> Rows \cup {NoRow}] /\ holdings'[k] = NoRow
      /\ \A j \in Keys : j # k => holdings'[j] = holdings[j]
  BY <1>3 DEF IInv, TypeOK
<1>5. Sound({d})
  BY <1>2, <1>4, TriggerSound
<1>6. \A j \in Keys : holdings'[j] # NoRow => holdings'[j].date <= clock
  BY <1>4 DEF IInv, Past
<1>7. last_backfill' = last_backfill
  BY <1>3 DEF last_backfill
<1>8. "trigger" \in Sources
  BY DEF Sources
<1> HIDE DEF d
<1> QED BY <1>3, <1>4, <1>5, <1>6, <1>7, <1>8, AppendStep DEF IInv, TypeOK

\* One draft per key of a set of keys is finitely many drafts.
LEMMA ImportSound ==
  ASSUME IInv, NEW h \in [Keys -> Rows \cup {NoRow}], holdings' = h
  PROVE  Sound({Draft(0, k, "delete", clock, holdings[k]) : k \in Present(holdings)}
                 \cup {Draft(1, k, "insert", clock, h[k]) : k \in Present(h)})
<1> DEFINE out(k) == Draft(0, k, "delete", clock, holdings[k])
           in(k) == Draft(1, k, "insert", clock, h[k])
           Out == {out(k) : k \in Present(holdings)}
           In == {in(k) : k \in Present(h)}
           D == Out \cup In
<1>1. \A k \in Present(holdings) : holdings[k] \in Rows /\ k \in Keys
  BY DEF Present, IInv, TypeOK
<1>2. \A k \in Present(h) : h[k] \in Rows /\ k \in Keys
  BY DEF Present
<1>3. clock \in Times /\ clock \in Int
  BY DEF IInv, TypeOK, Times, Undated
<1>4. \A k \in Present(holdings) : /\ out(k) \in DraftSet /\ out(k).key = k
                                   /\ out(k).stage = 0 /\ out(k).at = clock
                                   /\ Image(out(k)) = NoRow
  BY <1>1, <1>3 DEF Draft, DraftSet, Ops, Image
<1>5. \A k \in Present(h) : /\ in(k) \in DraftSet /\ in(k).key = k
                            /\ in(k).stage = 1 /\ in(k).at = clock
                            /\ Image(in(k)) = h[k]
  BY <1>2, <1>3 DEF Draft, DraftSet, Ops, Image
<1>6. IsFiniteSet(D)
  <2> DEFINE f == [k \in Present(holdings) |-> out(k)]
             g == [k \in Present(h) |-> in(k)]
  <2>1. IsFiniteSet({f[k] : k \in Present(holdings)})
    <3>1. Present(holdings) \in SUBSET Keys
      BY DEF Present
    <3>2. f = [k \in Present(holdings) |-> f[k]]
      OBVIOUS
    <3> HIDE DEF f
    <3> QED BY <3>1, <3>2, KeyedFinite
  <2>2. IsFiniteSet({g[k] : k \in Present(h)})
    <3>1. Present(h) \in SUBSET Keys
      BY DEF Present
    <3>2. g = [k \in Present(h) |-> g[k]]
      OBVIOUS
    <3> HIDE DEF g
    <3> QED BY <3>1, <3>2, KeyedFinite
  <2>3. Out = {f[k] : k \in Present(holdings)} /\ In = {g[k] : k \in Present(h)}
    OBVIOUS
  <2> HIDE DEF f, g
  <2> QED BY <2>1, <2>2, <2>3, FS_Union
<1>7. \A d \in D : \/ \E k \in Present(holdings) : d = out(k)
                   \/ \E k \in Present(h) : d = in(k)
  OBVIOUS
<1>8. \A k \in Present(holdings) : out(k) \in D
  OBVIOUS
<1>9. \A k \in Present(h) : in(k) \in D
  OBVIOUS
<1>10. \A k \in Keys : k \notin Present(h) => h[k] = NoRow
  BY DEF Present
<1>11. \A k \in Keys : k \notin Present(holdings) => holdings[k] = NoRow
  BY DEF Present
<1> HIDE DEF D, out, in, Out, In
<1>12. D \subseteq DraftSet
  BY <1>4, <1>5, <1>7
<1>13. Distinct(D)
  BY <1>4, <1>5, <1>7 DEF Distinct
<1>14. \A d \in D : d.at = clock
  BY <1>4, <1>5, <1>7
<1>15. \A l \in D : IsFinal(D, l) => Image(l) = h[l.key]
  <2> SUFFICES ASSUME NEW l \in D, IsFinal(D, l) PROVE Image(l) = h[l.key]
    OBVIOUS
  <2>1. CASE \E k \in Present(h) : l = in(k)
    BY <2>1, <1>5
  <2>2. CASE \E k \in Present(holdings) : l = out(k)
    <3>1. PICK k \in Present(holdings) : l = out(k)
      BY <2>2
    <3>2. ASSUME k \in Present(h) PROVE FALSE
      BY <3>1, <3>2, <1>4, <1>5, <1>9 DEF IsFinal
    <3> QED BY <3>1, <3>2, <1>1, <1>4, <1>10
  <2> QED BY <2>1, <2>2, <1>7
<1>16. \A d \in D : \E l \in D : l.key = d.key /\ IsFinal(D, l)
  <2> SUFFICES ASSUME NEW d \in D PROVE \E l \in D : l.key = d.key /\ IsFinal(D, l)
    OBVIOUS
  <2>1. CASE d.key \in Present(h)
    <3>1. in(d.key) \in D /\ in(d.key).key = d.key /\ in(d.key).stage = 1
      BY <2>1, <1>5, <1>9
    <3>2. \A c \in D : c.stage <= 1
      BY <1>4, <1>5, <1>7
    <3> QED BY <3>1, <3>2 DEF IsFinal
  <2>2. CASE d.key \notin Present(h)
    <3>1. \A c \in D : c.key = d.key => c.stage = 0
      BY <2>2, <1>4, <1>5, <1>7
    <3> QED BY <3>1 DEF IsFinal
  <2> QED BY <2>1, <2>2
<1>17. \A k \in Keys : (\A d \in D : d.key # k) => holdings'[k] = holdings[k]
  BY <1>4, <1>5, <1>8, <1>9, <1>10, <1>11
<1>18. \A e \in outbox : e.at <= clock
  BY DEF IInv, Past
<1>19. Sound(D)
  BY <1>3, <1>6, <1>12, <1>13, <1>14, <1>15, <1>16, <1>17, <1>18 DEF Sound
<1> QED BY <1>19 DEF D, Out, In, out, in

LEMMA ImportStep ==
  ASSUME IInv, NEW h \in [Keys -> Rows \cup {NoRow}], NEW replace \in BOOLEAN,
         \A k \in Keys : h[k] # NoRow => h[k].date <= clock,
         Import(h, replace)
  PROVE  IInv'
<1> DEFINE D == {Draft(0, k, "delete", clock, holdings[k]) : k \in Present(holdings)}
                  \cup {Draft(1, k, "insert", clock, h[k]) : k \in Present(h)}
<1>1. /\ holdings' = h /\ AppendEvents(D, "trigger")
      /\ UNCHANGED <<emitLog, checked, clock>> /\ vacant' \subseteq Importers
  BY DEF Import, Admitted, IInv, TypeOK
<1>2. Sound(D)
  BY <1>1, ImportSound
<1>3. last_backfill' = last_backfill /\ "trigger" \in Sources
  BY <1>1 DEF last_backfill, Sources
<1> HIDE DEF D
<1> QED BY <1>1, <1>2, <1>3, AppendStep DEF IInv, TypeOK

\* The newest event of a key by number is also the newest by date, and says
\* what the table holds.
LEMMA LastEvent ==
  ASSUME IInv, NEW k \in Keys, EventsOf(outbox, k) # {}
  PROVE  /\ LastWritten(k) \in EventsOf(outbox, k)
         /\ \A f \in EventsOf(outbox, k) :
               f.seq <= LastWritten(k).seq /\ f.at <= LastWritten(k).at
         /\ Image(LastWritten(k)) = holdings[k]
         /\ occurred_at(k) = LastWritten(k).at
<1> DEFINE E == EventsOf(outbox, k)
           l == LastWritten(k)
<1>1. \A f \in E : f \in outbox /\ f.key = k /\ f.seq \in Int /\ f.at \in Int
  BY DEF EventsOf, IInv, TypeOK, Event, Times, Undated
<1>2. \E e \in E : \A f \in E : e.seq >= f.seq
  <2>1. PICK e \in E : TRUE
    OBVIOUS
  <2>2. PICK m \in outbox : m.key = e.key /\ IsLast(outbox, m)
    BY <2>1, <1>1 DEF IInv, HasLast
  <2> QED BY <2>1, <2>2, <1>1 DEF IsLast, EventsOf
<1>3. l \in E /\ \A f \in E : l.seq >= f.seq
  BY <1>2 DEF LastWritten
<1>4. \A f \in E : f.at <= l.at
  <2> SUFFICES ASSUME NEW f \in E PROVE f.at <= l.at
    OBVIOUS
  <2>1. CASE f.seq < l.seq
    BY <2>1, <1>1, <1>3 DEF IInv, Chronology
  <2>2. CASE f.seq = l.seq
    <3>1. f = l
      BY <2>2, <1>1, <1>3 DEF IInv, GapFree
    <3> QED BY <3>1, <1>1
  <2> QED BY <2>1, <2>2, <1>1, <1>3
<1>5. Image(l) = holdings[k]
  <2>1. l \in outbox /\ l.key = k
    BY <1>1, <1>3
  <2>2. IsLast(outbox, l)
    <3> SUFFICES ASSUME NEW f \in outbox, f.key = l.key PROVE f.seq <= l.seq
      BY DEF IsLast
    <3>1. f \in E
      BY <2>1 DEF EventsOf
    <3> QED BY <3>1, <1>1, <1>3
  <2> QED BY <2>1, <2>2 DEF IInv, Described
<1>6. occurred_at(k) = l.at
  <2>1. \E e \in E : \A f \in E : e.at >= f.at
    BY <1>1, <1>3, <1>4
  <2>2. PICK e \in E : (\A f \in E : e.at >= f.at) /\ occurred_at(k) = e.at
    BY <2>1 DEF occurred_at
  <2>3. e.at >= l.at /\ e.at <= l.at
    BY <2>2, <1>3, <1>4
  <2> QED BY <2>2, <2>3, <1>1, <1>3
<1>7. \A f \in E : f.seq <= l.seq
  BY <1>1, <1>3
<1> QED BY <1>3, <1>4, <1>5, <1>6, <1>7

\* An emit run describes rows as they are, dated as they were.
LEMMA EmitSound ==
  ASSUME IInv, NEW scope \in Scopes, holdings' = holdings
  PROVE  Sound(Drafts(scope))
<1> DEFINE now(k) == Draft(2 * k[1], k, "insert", occurred_at(k), holdings[k])
           gone(k) == Draft(2 * k[1] + 1, k, "delete", LastWritten(k).at, LastWritten(k).row)
           Now == {k \in Present(holdings) : InScope(scope, k)}
           Gone == {k \in Keys \ Present(holdings) :
                      /\ InScope(scope, k)
                      /\ EventsOf(outbox, k) # {}
                      /\ LastWritten(k).op = "delete"}
           D == Drafts(scope)
<1>1. /\ Now \in SUBSET Keys /\ Gone \in SUBSET Keys /\ Now \cap Gone = {}
      /\ \A k \in Now : holdings[k] \in Rows /\ holdings[k] # NoRow
      /\ \A k \in Gone : holdings[k] = NoRow /\ EventsOf(outbox, k) # {}
  BY DEF Present, IInv, TypeOK
<1>2. \A k \in Keys : EventsOf(outbox, k) # {} =>
         /\ LastWritten(k) \in outbox /\ LastWritten(k) \in Event
         /\ \A f \in outbox : f.key = k => f.at <= LastWritten(k).at
         /\ occurred_at(k) = LastWritten(k).at
  BY LastEvent DEF EventsOf, IInv, TypeOK
<1>3. \A k \in Keys : EventsOf(outbox, k) = {} =>
         /\ occurred_at(k) = holdings[k].date
         /\ \A f \in outbox : f.key # k
  BY DEF occurred_at, EventsOf
<1>4. \A k \in Keys : 2 * k[1] \in Nat /\ 2 * k[1] + 1 \in Nat
  <2>1. \A k \in Keys : k[1] \in Nat
    BY BoundsAssumption DEF Keys
  <2> QED BY <2>1
<1>5. \A k \in Now : /\ occurred_at(k) \in Times /\ occurred_at(k) <= clock
                     /\ \A f \in outbox : f.key = k => f.at <= occurred_at(k)
  <2> SUFFICES ASSUME NEW k \in Now
               PROVE  /\ occurred_at(k) \in Times /\ occurred_at(k) <= clock
                      /\ \A f \in outbox : f.key = k => f.at <= occurred_at(k)
    OBVIOUS
  <2>1. CASE EventsOf(outbox, k) # {}
    BY <2>1, <1>1, <1>2 DEF Event, IInv, Past
  <2>2. CASE EventsOf(outbox, k) = {}
    BY <2>2, <1>1, <1>3 DEF Rows, IInv, Past
  <2> QED BY <2>1, <2>2
<1>6. \A k \in Gone : /\ LastWritten(k).at \in Times /\ LastWritten(k).at <= clock
                      /\ LastWritten(k).row \in Rows
                      /\ \A f \in outbox : f.key = k => f.at <= LastWritten(k).at
  BY <1>1, <1>2 DEF Event, IInv, Past
<1>7. \A k \in Now : /\ now(k) \in DraftSet /\ now(k).key = k
                     /\ now(k).at = occurred_at(k) /\ Image(now(k)) = holdings[k]
  BY <1>1, <1>4, <1>5 DEF Draft, DraftSet, Ops, Image
<1>8. \A k \in Gone : /\ gone(k) \in DraftSet /\ gone(k).key = k
                      /\ gone(k).at = LastWritten(k).at /\ Image(gone(k)) = holdings[k]
  BY <1>1, <1>4, <1>6 DEF Draft, DraftSet, Ops, Image
<1>9. \A d \in D : \/ \E k \in Now : d = now(k)
                   \/ \E k \in Gone : d = gone(k)
  BY DEF Drafts, emit_current_rows, emit_missing_rows
<1>10. IsFiniteSet(D)
  <2> DEFINE f == [k \in Now |-> now(k)]
             g == [k \in Gone |-> gone(k)]
  <2>1. IsFiniteSet({f[k] : k \in Now})
    <3>1. f = [k \in Now |-> f[k]]
      OBVIOUS
    <3> HIDE DEF f, Now
    <3> QED BY <1>1, <3>1, KeyedFinite
  <2>2. IsFiniteSet({g[k] : k \in Gone})
    <3>1. g = [k \in Gone |-> g[k]]
      OBVIOUS
    <3> HIDE DEF g, Gone
    <3> QED BY <1>1, <3>1, KeyedFinite
  <2>3. D \subseteq {f[k] : k \in Now} \cup {g[k] : k \in Gone}
    BY <1>9
  <2>4. IsFiniteSet({f[k] : k \in Now} \cup {g[k] : k \in Gone})
    BY <2>1, <2>2, FS_Union
  <2> HIDE DEF f, g, D
  <2> QED BY <2>3, <2>4, FS_Subset
<1> HIDE DEF now, gone, Now, Gone, D
<1>11. D \subseteq DraftSet
  BY <1>7, <1>8, <1>9
<1>12. \A c, d \in D : c.key = d.key => c = d
  BY <1>1, <1>7, <1>8, <1>9
<1>13. \A d \in D : d.at <= clock /\ \A e \in outbox : e.key = d.key => e.at <= d.at
  BY <1>5, <1>6, <1>7, <1>8, <1>9
<1>14. \A d \in D : Image(d) = holdings'[d.key]
  BY <1>7, <1>8, <1>9
<1>15. \A d \in D : IsFinal(D, d)
  BY <1>11, <1>12 DEF IsFinal, DraftSet
<1>16. Sound(D)
  BY <1>10, <1>11, <1>12, <1>13, <1>14, <1>15 DEF Sound, Distinct
<1> QED BY <1>16 DEF D

LEMMA EmitStep ==
  ASSUME IInv, NEW scope \in Scopes, NEW force \in BOOLEAN,
         EmitCommit(scope, force)
  PROVE  IInv'
<1> DEFINE D == Drafts(scope)
           run == [source |-> provenance(scope),
                   seq_first |-> seqHigh + 1, seq_last |-> seqHigh + Cardinality(D)]
<1>1. /\ AppendEvents(D, provenance(scope)) /\ emitLog' = emitLog \o <<run>>
      /\ Cleared(scope, force)
      /\ UNCHANGED <<holdings, vacant, clock>>
  BY DEF EmitCommit
<1>2. Sound(D)
  BY <1>1, EmitSound
<1>3. provenance(scope) \in Sources
  BY DEF provenance, Sources
<1>4. emitLog' \in Seq([source : Sources, seq_first : Nat, seq_last : Nat])
  <2>1. seqHigh \in Nat /\ Cardinality(D) \in Nat
    BY <1>2, FS_CardinalityType DEF IInv, TypeOK, Sound
  <2>2. run \in [source : Sources, seq_first : Nat, seq_last : Nat]
    BY <2>1, <1>3
  <2> HIDE DEF run
  <2> QED BY <1>1, <2>2 DEF IInv, TypeOK
<1>5. \/ last_backfill' # {} => last_backfill # {}
      \/ \A k \in Keys : holdings'[k] # NoRow => \E d \in D : d.key = k
  <2>1. CASE scope.kind = "collection"
    <3>1. \A k \in Present(holdings) : InScope(scope, k)
      BY <2>1 DEF InScope
    <3>2. \A k \in Present(holdings) :
             Draft(2 * k[1], k, "insert", occurred_at(k), holdings[k]) \in D
      BY <3>1 DEF Drafts, emit_current_rows
    <3>3. \A k \in Present(holdings) :
             Draft(2 * k[1], k, "insert", occurred_at(k), holdings[k]).key = k
      BY DEF Draft
    <3> QED BY <3>2, <3>3, <1>1 DEF Present
  <2>2. CASE scope.kind # "collection"
    <3>1. run.source = "redrive"
      BY <2>2 DEF provenance
    <3>2. \A i \in DOMAIN emitLog' : i \in DOMAIN emitLog \/ emitLog'[i] = run
      BY <1>1 DEF IInv, TypeOK
    <3>3. \A i \in DOMAIN emitLog : emitLog'[i] = emitLog[i]
      BY <1>1 DEF IInv, TypeOK
    <3> HIDE DEF run
    <3> QED BY <3>1, <3>2, <3>3 DEF last_backfill
  <2> QED BY <2>1, <2>2
<1>6. checked' \subseteq Emitters
  BY <1>1 DEF Cleared, IInv, TypeOK
<1> HIDE DEF D, run
<1> QED BY <1>1, <1>2, <1>3, <1>4, <1>5, <1>6, AppendStep DEF IInv, TypeOK, Past

-----------------------------------------------------------------------------
(* Every reachable state. *)

LEMMA InitInv ==
  ASSUME Steady, Init
  PROVE  IInv
<1>1. clock = 1 /\ clock \in 1 .. MaxTime
  BY BoundsAssumption DEF Init
<1>2. holdings \in [Keys -> [val : Values, date : Dates] \cup {NoRow}]
  BY DEF Init
<1>3. Dates \subseteq Times /\ \A t \in Dates : t <= clock
  BY FlagsAssumption DEF Dates, Steady
<1>4. holdings \in [Keys -> Rows \cup {NoRow}]
  BY <1>2, <1>3 DEF Rows
<1>5. \A k \in Keys : holdings[k] # NoRow => holdings[k].date <= clock
  BY <1>2, <1>3
<1>6. outbox = {} /\ seqHigh = 0 /\ emitLog = << >> /\ checked = {}
      /\ vacant = {}
  BY DEF Init
<1>7. TypeOK
  BY <1>1, <1>4, <1>6 DEF TypeOK
<1>8. GapFree
  BY <1>6 DEF GapFree
<1>9. Covered
  BY <1>6 DEF Covered, last_backfill
<1> QED BY <1>5, <1>6, <1>7, <1>8, <1>9 DEF IInv, Past, Chronology, Described, HasLast

LEMMA NextInv ==
  ASSUME Steady, IInv, [Next]_vars
  PROVE  IInv'
<1>1. Dates \subseteq Times /\ \A t \in Dates : t <= clock
  BY FlagsAssumption DEF Dates, Steady
<1>2. ASSUME NEW k \in Keys, NEW v \in Values, NEW d \in Dates,
             Insert(k, [val |-> v, date |-> d])
      PROVE  IInv'
  <2>1. [val |-> v, date |-> d] \in Rows
    BY <1>1 DEF Rows
  <2> QED BY <1>1, <1>2, <2>1, InsertStep
<1>3. ASSUME NEW k \in Keys, NEW v \in Values, Update(k, v)
      PROVE  IInv'
  BY <1>3, UpdateStep
<1>4. ASSUME NEW k \in Keys, Delete(k)
      PROVE  IInv'
  BY <1>4, DeleteStep
<1>5. ASSUME NEW h \in [Keys -> [val : Values, date : Dates] \cup {NoRow}],
             NEW r \in BOOLEAN, Import(h, r)
      PROVE  IInv'
  <2>1. h \in [Keys -> Rows \cup {NoRow}]
    BY <1>1 DEF Rows
  <2>2. \A k \in Keys : h[k] # NoRow => h[k].date <= clock
    BY <1>1
  <2> QED BY <1>5, <2>1, <2>2, ImportStep
<1>6. ASSUME \/ \E p \in Emitters : EmitCheck(p) \/ EmitAbort(p)
             \/ \E p \in Importers : ImportCheck(p) \/ ImportAbort(p)
      PROVE  IInv'
  <2>1. /\ UNCHANGED <<holdings, outbox, seqHigh, emitLog, clock>>
        /\ checked' \subseteq Emitters /\ vacant' \subseteq Importers
    BY <1>6 DEF ImportCheck, ImportAbort, EmitCheck, EmitAbort, IInv, TypeOK
  <2> QED BY <2>1 DEF IInv, TypeOK, GapFree, Past, Chronology, Described, IsLast, HasLast,
                      Covered, last_backfill
<1>7. ASSUME NEW scope \in Scopes, NEW force \in BOOLEAN,
             EmitCommit(scope, force)
      PROVE  IInv'
  BY <1>7, EmitStep
<1>8. CASE Tick
  <2>1. /\ UNCHANGED <<holdings, outbox, seqHigh, emitLog, checked, vacant>>
        /\ clock' \in 1 .. MaxTime /\ clock' = clock + 1
    BY <1>8 DEF Tick, Steady
  <2>2. Past'
    <3>1. clock \in Int /\ outbox \subseteq Event
      BY DEF IInv, TypeOK
    <3>2. \A e \in outbox : e.at \in Int
      BY <3>1 DEF Event, Times, Undated
    <3>3. \A k \in Keys : holdings[k] # NoRow => holdings[k].date \in Int
      BY DEF IInv, TypeOK, Rows, Times, Undated
    <3> QED BY <2>1, <3>1, <3>2, <3>3 DEF IInv, Past
  <2> QED BY <2>1, <2>2 DEF IInv, TypeOK, GapFree, Chronology, Described, IsLast, HasLast,
                            Covered, last_backfill
<1>9. CASE UNCHANGED vars
  BY <1>9 DEF vars, IInv, TypeOK, GapFree, Past, Chronology, Described, IsLast, HasLast,
              Covered, last_backfill
<1> QED BY <1>2, <1>3, <1>4, <1>5, <1>6, <1>7, <1>8, <1>9 DEF Next, Mutate, Emit

LEMMA Invariance ==
  ASSUME Steady
  PROVE  Spec => []IInv
<1>1. Init => IInv
  BY InitInv
<1>2. IInv /\ [Next]_vars => IInv'
  BY NextInv
<1> QED BY <1>1, <1>2, PTL DEF Spec

-----------------------------------------------------------------------------
(* What follows from the invariant. *)

\* One event of a key outranks all its others, and it describes the row.
LEMMA ProjectionOf ==
  ASSUME IInv, NEW k \in Keys
  PROVE  project(outbox)[k] = IF EventsOf(outbox, k) = {} THEN NoRow ELSE holdings[k]
<1> DEFINE E == EventsOf(outbox, k)
<1>1. CASE E = {}
  BY <1>1 DEF project
<1>2. CASE E # {}
  <2> DEFINE l == LastWritten(k)
  <2>1. l \in E /\ (\A f \in E : f.seq <= l.seq /\ f.at <= l.at) /\ Image(l) = holdings[k]
    BY <1>2, LastEvent
  <2>2. \A f \in E : f \in outbox /\ f.seq \in Int /\ f.at \in Int
    BY DEF EventsOf, IInv, TypeOK, Event, Times, Undated
  <2>3. \A f \in E : Supersedes(l, f)
    BY <2>1, <2>2 DEF Supersedes
  <2>4. Winner(E) \in E /\ \A f \in E : Supersedes(Winner(E), f)
    BY <2>1, <2>3 DEF Winner
  <2>5. Supersedes(Winner(E), l)
    BY <2>1, <2>4
  <2>6. Winner(E).seq = l.seq
    BY <2>1, <2>2, <2>4, <2>5 DEF Supersedes
  <2>7. Winner(E) = l
    BY <2>1, <2>2, <2>4, <2>6 DEF IInv, GapFree
  <2> QED BY <1>2, <2>1, <2>7 DEF project
<1> QED BY <1>1, <1>2

\* The variables have their types, whatever the bounds.
THEOREM TypeCorrect ==
  ASSUME Steady
  PROVE  Spec => []TypeOK
<1>1. IInv => TypeOK
  BY DEF IInv
<1> QED BY <1>1, Invariance, PTL

\* The projection is right about every row it has heard of.
THEOREM ProjectionIsExact ==
  ASSUME Steady
  PROVE  Spec => []ProjectionExact
<1>1. IInv => ProjectionExact
  BY ProjectionOf DEF ProjectionExact
<1> QED BY <1>1, Invariance, PTL

LEMMA ProjectionComplete ==
  ASSUME IInv, last_backfill # {}
  PROVE  project(outbox) = holdings
<1>1. \A k \in Keys : project(outbox)[k] = holdings[k]
  BY ProjectionOf DEF IInv, Covered
<1>2. holdings = [k \in Keys |-> holdings[k]]
  BY DEF IInv, TypeOK
<1>3. project(outbox) = [k \in Keys |-> project(outbox)[k]]
  BY DEF project
<1> QED BY <1>1, <1>2, <1>3

\* After a backfill the projection is the collection, from then on.
THEOREM BackfillIsComplete ==
  ASSUME Steady
  PROVE  Spec => []BackfillCompletes
<1>1. IInv => BackfillCompletes
  BY ProjectionComplete DEF BackfillCompletes
<1> QED BY <1>1, Invariance, PTL

\* A redrive or a backfill never outranks a live mutation that follows it.
THEOREM LiveMutationsWin ==
  ASSUME Steady
  PROVE  Spec => []LiveMutationWins
<1>1. ASSUME IInv, NEW e \in outbox, NEW t \in outbox, e.key = t.key, e.seq < t.seq
      PROVE  ~Supersedes(e, t)
  <2>1. e.at <= t.at
    BY <1>1 DEF IInv, Chronology
  <2>2. e.at \in Int /\ t.at \in Int /\ e.seq \in Int /\ t.seq \in Int
    BY <1>1 DEF IInv, TypeOK, Event, Times, Undated
  <2> QED BY <1>1, <2>1, <2>2 DEF Supersedes
<1>2. IInv => LiveMutationWins
  BY <1>1 DEF LiveMutationWins
<1> QED BY <1>2, Invariance, PTL

-----------------------------------------------------------------------------
(* Refinement. *)

\* Every write transaction appends an event for each row it changes.
LEMMA ChangesAreTold ==
  ASSUME IInv, [Next]_vars, NEW k \in Keys
  PROVE  /\ EventsOf(outbox, k) # {} => EventsOf(outbox', k) # {}
         /\ holdings'[k] # holdings[k] => EventsOf(outbox', k) # {}
<1>1. ASSUME NEW D, NEW source, AppendEvents(D, source)
      PROVE  /\ EventsOf(outbox, k) # {} => EventsOf(outbox', k) # {}
             /\ (\E d \in D : d.key = k) => EventsOf(outbox', k) # {}
  <2>1. outbox' = outbox \cup Numbered(D, seqHigh, source)
    BY <1>1 DEF AppendEvents
  <2>2. ASSUME NEW d \in D, d.key = k
        PROVE  EventsOf(outbox', k) # {}
    <3> DEFINE e == [seq |-> seqHigh + Position(D, d), at |-> d.at, key |-> d.key,
                     op |-> d.op, row |-> d.row, source |-> source]
    <3>1. e \in Numbered(D, seqHigh, source)
      BY DEF Numbered
    <3>2. e.key = k
      BY <2>2
    <3> HIDE DEF e
    <3> QED BY <3>1, <3>2, <2>1 DEF EventsOf
  <2> QED BY <2>1, <2>2 DEF EventsOf
<1>2. ASSUME NEW j \in Keys, NEW op, NEW row, NEW new,
             AppendEvents({Draft(0, j, op, clock, row)}, "trigger"),
             holdings' = [holdings EXCEPT ![j] = new]
      PROVE  /\ EventsOf(outbox, k) # {} => EventsOf(outbox', k) # {}
             /\ holdings'[k] # holdings[k] => EventsOf(outbox', k) # {}
  <2>1. Draft(0, j, op, clock, row).key = j
    BY DEF Draft
  <2>2. holdings'[k] # holdings[k] => k = j
    BY <1>2 DEF IInv, TypeOK
  <2> QED BY <1>1, <1>2, <2>1, <2>2
<1>3. ASSUME NEW j \in Keys, NEW row, Insert(j, row)
      PROVE  /\ EventsOf(outbox, k) # {} => EventsOf(outbox', k) # {}
             /\ holdings'[k] # holdings[k] => EventsOf(outbox', k) # {}
  BY <1>2, <1>3 DEF Insert
<1>4. ASSUME NEW j \in Keys, NEW v, Update(j, v)
      PROVE  /\ EventsOf(outbox, k) # {} => EventsOf(outbox', k) # {}
             /\ holdings'[k] # holdings[k] => EventsOf(outbox', k) # {}
  BY <1>2, <1>4 DEF Update
<1>5. ASSUME NEW j \in Keys, Delete(j)
      PROVE  /\ EventsOf(outbox, k) # {} => EventsOf(outbox', k) # {}
             /\ holdings'[k] # holdings[k] => EventsOf(outbox', k) # {}
  BY <1>2, <1>5 DEF Delete
<1>6. ASSUME NEW h \in [Keys -> [val : Values, date : Dates] \cup {NoRow}],
             NEW r, Import(h, r)
      PROVE  /\ EventsOf(outbox, k) # {} => EventsOf(outbox', k) # {}
             /\ holdings'[k] # holdings[k] => EventsOf(outbox', k) # {}
  <2> DEFINE D == {Draft(0, j, "delete", clock, holdings[j]) : j \in Present(holdings)}
                    \cup {Draft(1, j, "insert", clock, h[j]) : j \in Present(h)}
  <2>1. AppendEvents(D, "trigger") /\ holdings' = h
    BY <1>6 DEF Import
  <2>2. k \in Present(holdings) \cup Present(h) => \E d \in D : d.key = k
    <3>1. CASE k \in Present(holdings)
      <4>1. Draft(0, k, "delete", clock, holdings[k]) \in D
        BY <3>1
      <4>2. Draft(0, k, "delete", clock, holdings[k]).key = k
        BY DEF Draft
      <4> QED BY <4>1, <4>2
    <3>2. CASE k \in Present(h)
      <4>1. Draft(1, k, "insert", clock, h[k]) \in D
        BY <3>2
      <4>2. Draft(1, k, "insert", clock, h[k]).key = k
        BY DEF Draft
      <4> QED BY <4>1, <4>2
    <3> QED BY <3>1, <3>2
  <2>3. h[k] # holdings[k] => k \in Present(holdings) \cup Present(h)
    BY DEF Present
  <2> HIDE DEF D
  <2> QED BY <2>1, <2>2, <2>3, <1>1
<1>7. ASSUME NEW scope, NEW force, EmitCommit(scope, force)
      PROVE  /\ EventsOf(outbox, k) # {} => EventsOf(outbox', k) # {}
             /\ holdings'[k] # holdings[k] => EventsOf(outbox', k) # {}
  BY <1>1, <1>7 DEF EmitCommit
<1>8. ASSUME UNCHANGED <<holdings, outbox>>
      PROVE  /\ EventsOf(outbox, k) # {} => EventsOf(outbox', k) # {}
             /\ holdings'[k] # holdings[k] => EventsOf(outbox', k) # {}
  BY <1>8
<1> QED BY <1>3, <1>4, <1>5, <1>6, <1>7, <1>8
        DEF Next, Mutate, ImportCheck, ImportAbort, Emit, EmitCheck, EmitAbort, Tick, vars

\* What the invariant says of the copy as a whole.
Faithful ==
    \A k \in Keys :
        project(outbox)[k] = IF EventsOf(outbox, k) = {} THEN NoRow ELSE holdings[k]

\* The outbox implements the replica it promises: each step of the detailed
\* system publishes the keys that have events after it, or changes nothing.
THEOREM OutboxImplementsReplica ==
  ASSUME Steady
  PROVE  Spec => ImplementsReplica
<1> DEFINE known == {k \in Keys : EventsOf(outbox, k) # {}}
<1>1. Init => R!Init
  <2> SUFFICES ASSUME Init PROVE R!Init
    OBVIOUS
  <2>1. \A k \in Keys : EventsOf(outbox, k) = {}
    BY DEF Init, EventsOf
  <2>2. project(outbox) = [k \in Keys |-> NoRow]
    BY <2>1 DEF project
  <2> QED BY <2>1, <2>2 DEF R!Init
<1>2. IInv => Faithful
  BY ProjectionOf DEF Faithful
<1>3. IInv /\ Faithful' /\ [Next]_vars => [R!Next]_<<holdings, known, project(outbox)>>
  <2> SUFFICES ASSUME IInv, Faithful', [Next]_vars PROVE R!Next
    OBVIOUS
  <2>1. known \subseteq known'
    BY ChangesAreTold
  <2>2. \A k \in Keys \ known' : holdings'[k] = holdings[k]
    BY ChangesAreTold
  <2>3. project(outbox)' = [k \in Keys |-> IF k \in known' THEN holdings'[k] ELSE NoRow]
    <3>1. \A k \in Keys :
             project(outbox)'[k] = IF EventsOf(outbox, k)' = {} THEN NoRow ELSE holdings'[k]
      BY DEF Faithful
    <3>2. project(outbox)' = [k \in Keys |-> project(outbox)'[k]]
      BY DEF project
    <3> QED BY <3>1, <3>2
  <2>4. R!Publish(known')
    BY <2>1, <2>2, <2>3 DEF R!Publish
  <2> QED BY <2>4 DEF R!Next
<1> QED BY <1>1, <1>2, <1>3, Invariance, PTL DEF Spec, ImplementsReplica, R!Spec

-----------------------------------------------------------------------------
(***************************************************************************)
(* What Shipper promises for every max_rows, any number of rows lost, of   *)
(* runs killed, of restores: the cursor never passes a number that is      *)
(* neither in the zone nor in the gap ledger.                              *)
(*                                                                         *)
(* The cursor moves to the end of a part. What lies below it was known     *)
(* when the run began, or is in the parts the run has put since; so the    *)
(* invariant speaks of the batch: everything up to its last event is in    *)
(* the zone, in the ledger or still in the batch, and between two events   *)
(* of the batch there is nothing but the batch and the ledger, which is    *)
(* why putting a part over an older one of the same key forgets nothing.   *)
(***************************************************************************)

InZone(s) == s \in Seqs(ZoneEvents)

-----------------------------------------------------------------------------
(* Parts. *)

LEMMA Smallest ==
  ASSUME NEW T, T \subseteq Nat, T # {}
  PROVE  \E x \in T : \A y \in T : x <= y
<1>1. PICK x \in T : \A y \in T : ~ (<<y, x>> \in OpToRel(<, Nat))
  BY NatLessThanWellFounded, WFMin
<1>2. \A y \in T : ~(y < x)
  BY <1>1 DEF OpToRel
<1> QED BY <1>2

LEMMA FirstLast ==
  ASSUME NEW E, E # {}, \A e \in E : e.seq \in 1 .. MaxSeq
  PROVE  /\ First(E) \in Seqs(E) /\ \A s \in Seqs(E) : First(E) <= s
         /\ Last(E) \in Seqs(E) /\ \A s \in Seqs(E) : Last(E) >= s
<1>1. Seqs(E) \subseteq 1 .. MaxSeq /\ Seqs(E) # {} /\ MaxSeq \in Nat
  BY BoundsAssumption DEF Seqs
<1>2. \E x \in Seqs(E) : \A y \in Seqs(E) : x <= y
  BY <1>1, Smallest
<1>3. \E x \in Seqs(E) : \A y \in Seqs(E) : x >= y
  <2> DEFINE T == {MaxSeq - s : s \in Seqs(E)}
  <2>1. T \subseteq Nat /\ T # {}
    BY <1>1
  <2>2. PICK t \in T : \A u \in T : t <= u
    BY <2>1, Smallest
  <2>3. PICK x \in Seqs(E) : t = MaxSeq - x
    BY <2>2
  <2>4. \A y \in Seqs(E) : MaxSeq - x <= MaxSeq - y
    BY <2>2, <2>3
  <2> QED BY <2>3, <2>4, <1>1
<1> QED BY <1>2, <1>3 DEF First, Last

\* The batch of a run: numbered events, one per number.
Batch(E) ==
    /\ IsFiniteSet(E)
    /\ \A e \in E : e.seq \in 1 .. MaxSeq
    /\ \A e, f \in E : e.seq = f.seq => e = f

\* The next part is not empty, and takes the batch from its start.
LEMMA PartFacts ==
  ASSUME NEW E, E # {}, Batch(E)
  PROVE  /\ NextPart(E) # {} /\ NextPart(E) \subseteq E
         /\ \A e \in NextPart(E), f \in E : f.seq <= e.seq => f \in NextPart(E)
         /\ Part(E).events = NextPart(E)
         /\ Part(E).from \in Seqs(NextPart(E)) /\ Part(E).to \in Seqs(NextPart(E))
         /\ \A s \in Seqs(NextPart(E)) : s \in Part(E).from .. Part(E).to
<1> DEFINE upto(e) == {f \in E : f.seq <= e.seq}
<1>1. PICK e \in E : e.seq = First(E)
  BY FirstLast DEF Batch, Seqs
<1>2. upto(e) = {e}
  BY <1>1, FirstLast DEF Batch, Seqs
<1>3. Cardinality(upto(e)) <= MaxRows
  <2>1. Cardinality({e}) = 1
    BY FS_Singleton
  <2> QED BY <2>1, <1>2, ShipperAssumption
<1>4. e \in NextPart(E)
  BY <1>2, <1>3 DEF NextPart
<1>5. NextPart(E) \subseteq E
  BY DEF NextPart
<1>6. ASSUME NEW g \in NextPart(E), NEW f \in E, f.seq <= g.seq
      PROVE  f \in NextPart(E)
  <2>1. g \in E /\ Cardinality(upto(g)) <= MaxRows /\ \A h \in upto(g) : Day(h) = Day(g)
    BY DEF NextPart
  <2>2. upto(f) \subseteq upto(g) /\ f \in upto(g)
    BY <1>6, <2>1 DEF Batch
  <2>3. IsFiniteSet(upto(g))
    BY FS_Subset DEF Batch
  <2>4. IsFiniteSet(upto(f)) /\ Cardinality(upto(f)) <= Cardinality(upto(g))
    BY <2>2, <2>3, FS_Subset
  <2>5. Cardinality(upto(f)) \in Nat /\ Cardinality(upto(g)) \in Nat
    BY <2>3, <2>4, FS_CardinalityType
  <2>6. Cardinality(upto(f)) <= MaxRows
    BY <2>1, <2>4, <2>5, ShipperAssumption
  <2>7. \A h \in upto(f) : Day(h) = Day(f)
    BY <2>1, <2>2
  <2> QED BY <2>6, <2>7 DEF NextPart
<1>7. /\ Part(E).events = NextPart(E)
      /\ Part(E).from = First(NextPart(E)) /\ Part(E).to = Last(NextPart(E))
  BY DEF Part
<1>8. \A g \in NextPart(E) : g.seq \in 1 .. MaxSeq
  BY <1>5 DEF Batch
<1>9. /\ First(NextPart(E)) \in Seqs(NextPart(E))
      /\ Last(NextPart(E)) \in Seqs(NextPart(E))
      /\ \A s \in Seqs(NextPart(E)) : First(NextPart(E)) <= s /\ Last(NextPart(E)) >= s
  BY <1>4, <1>8, FirstLast
<1>10. \A s \in Seqs(NextPart(E)) : s \in Int
  BY <1>8 DEF Seqs
<1>11. \A s \in Seqs(NextPart(E)) : s \in Part(E).from .. Part(E).to
  BY <1>7, <1>9, <1>10
<1> QED BY <1>4, <1>5, <1>6, <1>7, <1>9, <1>11

-----------------------------------------------------------------------------
(* The inductive invariant. *)

Counters == cursor \in 0 .. MaxSeq /\ gaps \subseteq 1 .. seqHigh

\* The events of a part carry numbers of its range.
PartsInRange ==
    \A p \in zone : \A e \in p.events : e.seq \in 1 .. MaxSeq /\ e.seq \in p.from .. p.to

HeadLanded == landed \in BOOLEAN /\ (landed => batch # {} /\ Part(batch) \in zone)

\* What precedes an event of the batch is in the zone, lost, or in the batch.
Preceding ==
    \A s \in 1 .. MaxSeq, e \in batch :
        s <= e.seq => InZone(s) \/ s \in gaps \cup forgotten \/ s \in Seqs(batch)

\* What lies between two events of the batch is lost or in the batch.
Between ==
    \A e, f \in batch : \A s \in e.seq .. f.seq : s \in gaps \/ s \in Seqs(batch)

\* The file as the backup has it is a log of its own, not beyond the present one.
BackupLog ==
    /\ backup.seqHigh \in 0 .. seqHigh /\ backup.cursor \in 0 .. MaxSeq
    /\ backup.gaps \subseteq 1 .. backup.seqHigh /\ IsFiniteSet(backup.outbox)
    /\ \A e \in backup.outbox : e.seq \in 1 .. backup.seqHigh /\ e.seq \notin backup.gaps
    /\ \A e, f \in backup.outbox : e.seq = f.seq => e = f

\* What the backup's cursor has passed is still accounted for, or on record as lost since.
BackupAccounted ==
    \A s \in 1 .. backup.cursor : InZone(s) \/ s \in backup.gaps \cup gaps \cup forgotten

SInv ==
    /\ Log /\ Counters /\ PartsInRange /\ Batch(batch) /\ HeadLanded
    /\ Accounted /\ GapsAreLosses /\ Preceding /\ Between
    /\ BackupLog /\ BackupAccounted

-----------------------------------------------------------------------------
(* Steps. *)

\* The backup's claims stand while the zone and the ledger forget no number.
LEMMA BackupStands ==
  ASSUME SInv, Log', seqHigh' >= seqHigh, backup' = backup, forgotten' = forgotten,
         \A s \in Int : InZone(s) \/ s \in gaps => InZone(s)' \/ s \in gaps'
  PROVE  BackupLog' /\ BackupAccounted'
<1>1. seqHigh \in Int /\ seqHigh' \in Int
  BY DEF SInv, Log
<1>2. BackupLog'
  BY <1>1 DEF SInv, BackupLog
<1>3. backup.cursor \in Int
  BY BoundsAssumption DEF SInv, BackupLog
<1>4. BackupAccounted'
  BY <1>3 DEF SInv, BackupAccounted
<1> QED BY <1>2, <1>4

LEMMA RunBeginStep ==
  ASSUME SInv, RunBegin, UNCHANGED vars
  PROVE  SInv'
<1>1. /\ batch' = Unshipped /\ gaps' = gaps \cup Missing(Unshipped)
      /\ cursor' = cursor /\ zone' = zone /\ landed' = landed
      /\ outbox' = outbox /\ seqHigh' = seqHigh /\ batch = {}
      /\ backup' = backup /\ forgotten' = forgotten
  BY DEF RunBegin, vars
<1>2. seqHigh \in 0 .. MaxSeq /\ MaxSeq \in Nat /\ cursor \in 0 .. MaxSeq
  BY BoundsAssumption DEF SInv, Log, Counters
<1>3. \A e \in Unshipped : e \in outbox /\ e.seq \in 1 .. seqHigh /\ e.seq > cursor
  BY DEF Unshipped, SInv, Log
<1>4. Log'
  BY <1>1 DEF SInv, Log
<1>5. Missing(Unshipped) \subseteq 1 .. seqHigh
  BY <1>2, <1>3 DEF Missing, Seqs
<1>6. Counters'
  BY <1>1, <1>5 DEF SInv, Counters
<1>7. PartsInRange'
  BY <1>1 DEF SInv, PartsInRange
<1>8. Batch(batch)'
  <2>1. IsFiniteSet(Unshipped)
    BY FS_Subset DEF SInv, Log, Unshipped
  <2> QED BY <2>1, <1>1, <1>2, <1>3 DEF Batch, SInv, Log
<1>9. HeadLanded'
  BY <1>1 DEF SInv, HeadLanded
<1>10. Accounted'
  BY <1>1 DEF SInv, Accounted, ZoneEvents
<1>11. GapsAreLosses'
  <2>1. \A e \in outbox : e.seq \notin Missing(Unshipped)
    BY <1>2 DEF Missing, Seqs, Unshipped, SInv, Log
  <2> QED BY <2>1, <1>1 DEF SInv, GapsAreLosses
<1>12. ASSUME NEW s \in 1 .. MaxSeq, NEW e \in Unshipped, s <= e.seq, s > cursor
       PROVE  s \in Missing(Unshipped) \/ s \in Seqs(Unshipped)
  <2>1. CASE s = e.seq
    BY <2>1 DEF Seqs
  <2>2. CASE s < e.seq
    BY <2>2, <1>2, <1>12 DEF Missing, Seqs
  <2> QED BY <2>1, <2>2, <1>2, <1>3, <1>12
<1>13. Preceding'
  <2> SUFFICES ASSUME NEW s \in 1 .. MaxSeq, NEW e \in Unshipped, s <= e.seq
               PROVE  InZone(s) \/ s \in gaps' \cup forgotten \/ s \in Seqs(Unshipped)
    BY <1>1 DEF Preceding, InZone, ZoneEvents, Seqs
  <2>1. CASE s <= cursor
    BY <2>1, <1>1, <1>2 DEF SInv, Accounted, InZone
  <2>2. CASE s > cursor
    BY <2>2, <1>1, <1>12
  <2> QED BY <2>1, <2>2, <1>2
<1>14. Between'
  <2> SUFFICES ASSUME NEW e \in Unshipped, NEW f \in Unshipped, NEW s \in e.seq .. f.seq
               PROVE  s \in gaps' \/ s \in Seqs(Unshipped)
    BY <1>1 DEF Between, Seqs
  <2>1. s \in 1 .. MaxSeq /\ s > cursor /\ s <= f.seq
    BY <1>2, <1>3
  <2> QED BY <2>1, <1>1, <1>12
<1>15. BackupLog' /\ BackupAccounted'
  <2>1. \A s : InZone(s)' <=> InZone(s)
    BY <1>1 DEF InZone, ZoneEvents, Seqs
  <2> QED BY <2>1, <1>1, <1>2, <1>4, BackupStands
<1> QED BY <1>4, <1>6, <1>7, <1>8, <1>9, <1>10, <1>11, <1>13, <1>14, <1>15 DEF SInv

\* A part holds every number of its range that is not lost.
LEMMA PartCovers ==
  ASSUME SInv, batch # {}
  PROVE  \A s \in Int : s \in Part(batch).from .. Part(batch).to =>
             s \in gaps \/ s \in Seqs(Part(batch).events)
<1> DEFINE p == Part(batch)
<1>2. /\ p.events = NextPart(batch) /\ NextPart(batch) \subseteq batch
      /\ \A e \in NextPart(batch), f \in batch : f.seq <= e.seq => f \in NextPart(batch)
      /\ p.from \in Seqs(NextPart(batch)) /\ p.to \in Seqs(NextPart(batch))
      /\ \A s \in Seqs(NextPart(batch)) : s \in p.from .. p.to
  BY PartFacts DEF SInv
<1>3. \A e \in batch : e.seq \in 1 .. MaxSeq
  BY DEF SInv, Batch
<1>4. \A s \in Int : s \in p.from .. p.to => s \in gaps \/ s \in Seqs(p.events)
  <2> SUFFICES ASSUME NEW s \in Int, s \in p.from .. p.to, s \notin gaps
               PROVE  s \in Seqs(p.events)
    OBVIOUS
  <2>1. PICK e \in NextPart(batch), f \in NextPart(batch) : p.from = e.seq /\ p.to = f.seq
    BY <1>2 DEF Seqs
  <2>2. s \in Seqs(batch)
    BY <2>1, <1>2 DEF SInv, Between
  <2>3. PICK g \in batch : g.seq = s
    BY <2>2 DEF Seqs
  <2>4. g \in NextPart(batch)
    BY <2>1, <2>3, <1>2, <1>3
  <2> QED BY <2>3, <2>4, <1>2 DEF Seqs
<1> QED BY <1>4

\* Putting a part over an older one of its key forgets only what is lost.
LEMMA PutPartKeeps ==
  ASSUME SInv, PutPart
  PROVE  \A s \in Int : InZone(s) => s \in gaps \/ InZone(s)'
<1> DEFINE p == Part(batch)
<1>1. /\ zone' = {q \in zone : ~SameKey(q, p)} \cup {p}
      /\ batch # {}
  BY DEF PutPart
<1>4. \A s \in Int : s \in p.from .. p.to => s \in gaps \/ s \in Seqs(p.events)
  BY <1>1, PartCovers
<1>5. \A s \in Int : InZone(s) => s \in gaps \/ InZone(s)'
  <2> SUFFICES ASSUME NEW s \in Int, InZone(s), s \notin gaps PROVE InZone(s)'
    OBVIOUS
  <2>1. PICK q \in zone : \E e \in q.events : e.seq = s
    BY DEF InZone, Seqs, ZoneEvents
  <2>2. CASE ~SameKey(q, p)
    BY <2>1, <2>2, <1>1 DEF InZone, Seqs, ZoneEvents
  <2>3. CASE SameKey(q, p)
    <3>1. s \in p.from .. p.to
      BY <2>1, <2>3 DEF SameKey, SInv, PartsInRange
    <3>2. s \in Seqs(p.events)
      BY <3>1, <1>4
    <3> QED BY <3>2, <1>1 DEF InZone, Seqs, ZoneEvents
  <2> QED BY <2>2, <2>3
<1> QED BY <1>5

LEMMA PutPartStep ==
  ASSUME SInv, PutPart, UNCHANGED vars
  PROVE  SInv'
<1> DEFINE p == Part(batch)
<1>1. /\ zone' = {q \in zone : ~SameKey(q, p)} \cup {p}
      /\ landed' = TRUE /\ batch # {}
      /\ cursor' = cursor /\ gaps' = gaps /\ batch' = batch
      /\ outbox' = outbox /\ seqHigh' = seqHigh
      /\ backup' = backup /\ forgotten' = forgotten
  BY DEF PutPart, vars
<1>2. /\ p.events = NextPart(batch) /\ NextPart(batch) \subseteq batch
      /\ \A e \in NextPart(batch), f \in batch : f.seq <= e.seq => f \in NextPart(batch)
      /\ p.from \in Seqs(NextPart(batch)) /\ p.to \in Seqs(NextPart(batch))
      /\ \A s \in Seqs(NextPart(batch)) : s \in p.from .. p.to
  BY <1>1, PartFacts DEF SInv
<1>3. \A e \in batch : e.seq \in 1 .. MaxSeq
  BY DEF SInv, Batch
<1>5. \A s \in Int : InZone(s) => s \in gaps \/ InZone(s)'
  BY PutPartKeeps
<1>6. Log' /\ Counters' /\ Batch(batch)' /\ GapsAreLosses'
  BY <1>1 DEF SInv, Log, Counters, Batch, GapsAreLosses
<1>7. PartsInRange'
  <2>1. \A e \in p.events : e.seq \in 1 .. MaxSeq /\ e.seq \in p.from .. p.to
    BY <1>2, <1>3 DEF Seqs
  <2> HIDE DEF p
  <2> QED BY <2>1, <1>1 DEF SInv, PartsInRange
<1>8. HeadLanded'
  BY <1>1 DEF HeadLanded, Part, NextPart, Day, First, Last, Seqs
<1>9. Accounted'
  <2>1. \A s \in 1 .. cursor : InZone(s) \/ s \in gaps \cup forgotten
    BY DEF SInv, Accounted, InZone
  <2>2. \A s \in 1 .. cursor : InZone(s)' \/ s \in gaps \cup forgotten
    BY <2>1, <1>5
  <2> QED BY <2>2, <1>1 DEF Accounted, InZone
<1>10. Preceding'
  <2> SUFFICES ASSUME NEW s \in 1 .. MaxSeq, NEW e \in batch, s <= e.seq
               PROVE  InZone(s)' \/ s \in gaps \cup forgotten \/ s \in Seqs(batch)
    BY <1>1 DEF Preceding, Seqs
  <2>1. InZone(s) \/ s \in gaps \cup forgotten \/ s \in Seqs(batch)
    BY DEF SInv, Preceding
  <2> QED BY <2>1, <1>5
<1>11. Between'
  BY <1>1 DEF SInv, Between, Seqs
<1>12. BackupLog' /\ BackupAccounted'
  <2>1. seqHigh' >= seqHigh
    BY <1>1 DEF SInv, Log
  <2> QED BY <2>1, <1>1, <1>5, <1>6, BackupStands
<1> QED BY <1>6, <1>7, <1>8, <1>9, <1>10, <1>11, <1>12 DEF SInv

LEMMA AdvanceCursorStep ==
  ASSUME SInv, AdvanceCursor, UNCHANGED vars
  PROVE  SInv'
<1> DEFINE p == Part(batch)
           P == NextPart(batch)
<1>1. /\ landed /\ cursor' = p.to /\ batch' = batch \ P /\ landed' = FALSE
      /\ gaps' = gaps /\ zone' = zone
      /\ outbox' = outbox /\ seqHigh' = seqHigh
      /\ backup' = backup /\ forgotten' = forgotten
  BY DEF AdvanceCursor, vars
<1>2. batch # {} /\ p \in zone
  BY <1>1 DEF SInv, HeadLanded
<1>3. /\ p.events = P /\ P \subseteq batch
      /\ \A e \in P, f \in batch : f.seq <= e.seq => f \in P
      /\ p.to \in Seqs(P)
  BY <1>2, PartFacts DEF SInv
<1>4. PICK l \in P : l.seq = p.to
  BY <1>3 DEF Seqs
<1>5. \A e \in batch : e.seq \in 1 .. MaxSeq
  BY DEF SInv, Batch
<1>6. \A s \in Seqs(P) : InZone(s)
  BY <1>2, <1>3 DEF InZone, Seqs, ZoneEvents
<1>7. \A s : InZone(s)' <=> InZone(s)
  BY <1>1 DEF InZone, Seqs, ZoneEvents
<1> HIDE DEF p, P
<1>8. Log' /\ PartsInRange' /\ GapsAreLosses' /\ HeadLanded'
  BY <1>1 DEF SInv, Log, PartsInRange, GapsAreLosses, HeadLanded
<1>14. Counters'
  <2>1. p.to \in 1 .. MaxSeq
    BY <1>3, <1>4, <1>5
  <2> QED BY <2>1, <1>1 DEF SInv, Counters
<1>9. Batch(batch)'
  <2>1. IsFiniteSet(batch \ P)
    BY FS_Subset DEF SInv, Batch
  <2> QED BY <2>1, <1>1 DEF SInv, Batch
<1>10. Accounted'
  <2> SUFFICES ASSUME NEW s \in 1 .. p.to PROVE InZone(s) \/ s \in gaps \cup forgotten
    BY <1>1, <1>7 DEF Accounted, InZone
  <2>1. s \in 1 .. MaxSeq /\ s <= l.seq /\ l \in batch
    <3>1. l \in batch /\ l.seq \in 1 .. MaxSeq /\ p.to = l.seq /\ MaxSeq \in Nat
      BY <1>3, <1>4, <1>5, BoundsAssumption
    <3> QED BY <3>1
  <2>2. InZone(s) \/ s \in gaps \cup forgotten \/ s \in Seqs(batch)
    BY <2>1 DEF SInv, Preceding
  <2>3. s \in Seqs(batch) => s \in Seqs(P)
    BY <2>1, <1>3, <1>4 DEF Seqs
  <2> QED BY <2>2, <2>3, <1>6
<1>11. \A s \in Seqs(batch) : s \in Seqs(P) \/ s \in Seqs(batch')
  BY <1>1 DEF Seqs
<1>12. Preceding'
  <2> SUFFICES ASSUME NEW s \in 1 .. MaxSeq, NEW e \in batch', s <= e.seq
               PROVE  InZone(s) \/ s \in gaps \cup forgotten \/ s \in Seqs(batch')
    BY <1>1, <1>7 DEF Preceding, Seqs
  <2>1. InZone(s) \/ s \in gaps \cup forgotten \/ s \in Seqs(batch)
    BY <1>1 DEF SInv, Preceding
  <2> QED BY <2>1, <1>6, <1>11
<1>13. Between'
  <2> SUFFICES ASSUME NEW e \in batch', NEW f \in batch', NEW s \in e.seq .. f.seq,
                      s \notin gaps
               PROVE  s \in Seqs(batch')
    BY <1>1 DEF Between, Seqs
  <2>1. s \in Seqs(batch)
    BY <1>1 DEF SInv, Between
  <2>2. PICK g \in batch : g.seq = s
    BY <2>1 DEF Seqs
  <2>3. e \in batch /\ e \notin P /\ e.seq <= g.seq
    BY <1>1, <1>5, <2>2
  <2>4. g \notin P
    BY <2>3, <1>3
  <2> QED BY <2>2, <2>4, <1>1 DEF Seqs
<1>15. BackupLog' /\ BackupAccounted'
  <2>1. seqHigh' >= seqHigh
    BY <1>1 DEF SInv, Log
  <2> QED BY <2>1, <1>1, <1>7, <1>8, BackupStands
<1> QED BY <1>8, <1>9, <1>10, <1>12, <1>13, <1>14, <1>15 DEF SInv

\* A run that dies, or whose cursor is cleared, leaves a smaller claim.
LEMMA AbandonStep ==
  ASSUME SInv, RunDies \/ WindBack, UNCHANGED vars
  PROVE  SInv'
<1>1. CASE RunDies
  <2>1. /\ batch' = {} /\ landed' = FALSE /\ cursor' = cursor /\ gaps' = gaps
        /\ zone' = zone /\ outbox' = outbox /\ seqHigh' = seqHigh
        /\ backup' = backup /\ forgotten' = forgotten
    BY <1>1 DEF RunDies, vars
  <2>2. \A s : InZone(s)' <=> InZone(s)
    BY <2>1 DEF InZone, ZoneEvents, Seqs
  <2>3. Log' /\ seqHigh' >= seqHigh
    BY <2>1 DEF SInv, Log
  <2>4. BackupLog' /\ BackupAccounted'
    BY <2>1, <2>2, <2>3, BackupStands
  <2> QED BY <2>1, <2>4, FS_EmptySet
          DEF SInv, Log, Counters, PartsInRange, Batch, HeadLanded, Accounted, ZoneEvents,
              GapsAreLosses, Preceding, Between
<1>2. CASE WindBack
  <2>1. /\ cursor' = 0 /\ gaps' = gaps /\ zone' = zone /\ batch' = batch /\ landed' = landed
        /\ outbox' = outbox /\ seqHigh' = seqHigh /\ MaxSeq \in Nat
        /\ backup' = backup /\ forgotten' = forgotten
    BY <1>2, BoundsAssumption DEF WindBack, vars
  <2>2. Log' /\ Counters' /\ PartsInRange' /\ Batch(batch)' /\ Accounted' /\ GapsAreLosses'
    BY <2>1 DEF SInv, Log, Counters, PartsInRange, Batch, Accounted, GapsAreLosses
  <2>3. HeadLanded'
    BY <2>1 DEF SInv, HeadLanded, Part, NextPart, Day, First, Last, Seqs
  <2>4. Preceding' /\ Between'
    BY <2>1 DEF SInv, Preceding, Between, InZone, ZoneEvents, Seqs
  <2>5. \A s : InZone(s)' <=> InZone(s)
    BY <2>1 DEF InZone, ZoneEvents, Seqs
  <2>6. seqHigh' >= seqHigh
    BY <2>1 DEF SInv, Log
  <2>7. BackupLog' /\ BackupAccounted'
    BY <2>1, <2>2, <2>5, <2>6, BackupStands
  <2> QED BY <2>2, <2>3, <2>4, <2>7 DEF SInv
<1> QED BY <1>1, <1>2

\* A row is lost, or the collection goes on being written.
LEMMA OutboxStep ==
  ASSUME SInv, Log', seqHigh' >= seqHigh, UNCHANGED shipVars,
         \A e \in outbox' : e \in outbox \/ e.seq > seqHigh
  PROVE  SInv'
<1>1. /\ cursor' = cursor /\ gaps' = gaps /\ zone' = zone /\ batch' = batch
      /\ landed' = landed /\ backup' = backup /\ forgotten' = forgotten
  BY DEF shipVars
<1>2. seqHigh \in Int /\ seqHigh' \in Int
  BY DEF SInv, Log
<1>3. Counters'
  BY <1>1, <1>2 DEF SInv, Counters
<1>4. PartsInRange' /\ Batch(batch)' /\ Accounted'
  BY <1>1 DEF SInv, PartsInRange, Batch, Accounted, ZoneEvents
<1>5. HeadLanded'
  BY <1>1 DEF SInv, HeadLanded, Part, NextPart, Day, First, Last, Seqs
<1>6. GapsAreLosses'
  <2>1. gaps \subseteq 1 .. seqHigh
    BY DEF SInv, Counters
  <2>2. ASSUME NEW e \in outbox', e \notin outbox PROVE e.seq \notin gaps
    <3>1. e.seq > seqHigh
      BY <2>2
    <3>2. e.seq \notin 1 .. seqHigh
      BY <3>1, <1>2
    <3> QED BY <2>1, <3>2
  <2> QED BY <2>2, <1>1 DEF SInv, GapsAreLosses
<1>7. Preceding' /\ Between'
  BY <1>1 DEF SInv, Preceding, Between, InZone, ZoneEvents, Seqs
<1>8. BackupLog' /\ BackupAccounted'
  <2>1. \A s : InZone(s)' <=> InZone(s)
    BY <1>1 DEF InZone, ZoneEvents, Seqs
  <2> QED BY <2>1, <1>1, BackupStands
<1> QED BY <1>3, <1>4, <1>5, <1>6, <1>7, <1>8 DEF SInv

\* The collection's own transactions number their events after all others.
LEMMA CollectionStep ==
  ASSUME SInv, Next, UNCHANGED shipVars
  PROVE  SInv'
<1>1. CASE UNCHANGED <<outbox, seqHigh>>
  <2>1. Log' /\ seqHigh' >= seqHigh
    BY <1>1 DEF SInv, Log
  <2> QED BY <1>1, <2>1, OutboxStep
<1>2. ASSUME NEW D, NEW source, Ordered(D), AppendEvents(D, source)
      PROVE  SInv'
  <2>1. Log'
    BY <1>2, AppendKeepsLog DEF SInv
  <2>2. seqHigh \in Nat /\ Cardinality(D) \in Nat
    BY <1>2, FS_CardinalityType DEF SInv, Log, Ordered
  <2>3. /\ seqHigh' = seqHigh + Cardinality(D)
        /\ outbox' = outbox \cup Numbered(D, seqHigh, source)
    BY <1>2 DEF AppendEvents
  <2>4. \A e \in Numbered(D, seqHigh, source) : e.seq \in seqHigh + 1 .. seqHigh + Cardinality(D)
    BY <1>2, <2>2, NumberedSeqs
  <2>5. \A e \in outbox' : e \in outbox \/ e.seq > seqHigh
    BY <2>2, <2>3, <2>4
  <2> QED BY <2>1, <2>2, <2>3, <2>5, OutboxStep
<1> QED BY <1>1, <1>2, EveryStepAppends

LEMMA LoseStep ==
  ASSUME SInv, Lose
  PROVE  SInv'
<1>1. PICK e \in Unshipped : outbox' = outbox \ {e}
  BY DEF Lose
<1>2. seqHigh' = seqHigh /\ seqHigh \in Int /\ outbox' \subseteq outbox
  BY <1>1 DEF Lose, SInv, Log
<1>3. Log'
  <2>1. IsFiniteSet(outbox')
    BY <1>2, FS_Subset DEF SInv, Log
  <2> QED BY <2>1, <1>2 DEF SInv, Log
<1>4. /\ cursor' = cursor /\ gaps' = gaps /\ zone' = zone /\ batch' = batch
      /\ landed' = landed /\ backup' = backup /\ forgotten' = forgotten
  BY DEF Lose
<1>5. HeadLanded'
  BY <1>4 DEF SInv, HeadLanded, Part, NextPart, Day, First, Last, Seqs
<1>6. BackupLog' /\ BackupAccounted'
  <2>1. \A s : InZone(s)' <=> InZone(s)
    BY <1>4 DEF InZone, ZoneEvents, Seqs
  <2> QED BY <2>1, <1>2, <1>3, <1>4, BackupStands
<1> QED BY <1>2, <1>3, <1>4, <1>5, <1>6
        DEF SInv, Counters, PartsInRange, Batch, Accounted, GapsAreLosses, Preceding, Between,
            InZone, ZoneEvents, Seqs

\* The backup is a log with everything its cursor has passed accounted for: the file
\* as it is now is one, and the file as a restore leaves it is the backup.
LEMMA BackUpStep ==
  ASSUME SInv, BackUp
  PROVE  SInv'
<1>1. /\ backup' = File /\ outbox' = outbox /\ seqHigh' = seqHigh /\ cursor' = cursor
      /\ gaps' = gaps /\ zone' = zone /\ batch' = batch /\ landed' = landed
      /\ forgotten' = forgotten
  BY DEF BackUp, vars
<1>2. /\ backup'.outbox = outbox /\ backup'.seqHigh = seqHigh /\ backup'.cursor = cursor
      /\ backup'.gaps = gaps
  BY <1>1 DEF File
<1>3. \A s : InZone(s)' <=> InZone(s)
  BY <1>1 DEF InZone, ZoneEvents, Seqs
<1>4. BackupLog'
  BY <1>1, <1>2 DEF SInv, Log, Counters, GapsAreLosses, BackupLog
<1>5. BackupAccounted'
  BY <1>1, <1>2, <1>3 DEF SInv, Accounted, BackupAccounted, InZone
<1>6. HeadLanded'
  BY <1>1 DEF SInv, HeadLanded, Part, NextPart, Day, First, Last, Seqs
<1>7. Log' /\ Counters' /\ PartsInRange' /\ Batch(batch)' /\ GapsAreLosses'
  BY <1>1 DEF SInv, Log, Counters, PartsInRange, Batch, GapsAreLosses
<1>8. Accounted' /\ Preceding' /\ Between'
  BY <1>1 DEF SInv, Accounted, Preceding, Between, InZone, ZoneEvents, Seqs
<1> QED BY <1>4, <1>5, <1>6, <1>7, <1>8 DEF SInv

LEMMA RestoreStep ==
  ASSUME SInv, Restore
  PROVE  SInv'
<1>1. /\ outbox' = backup.outbox /\ seqHigh' = backup.seqHigh /\ cursor' = backup.cursor
      /\ gaps' = backup.gaps /\ batch' = {} /\ landed' = FALSE /\ zone' = zone
      /\ backup' = backup
      /\ forgotten' = forgotten \cup ((gaps \ backup.gaps) \cap 1 .. backup.cursor)
  BY DEF Restore
<1>2. MaxSeq \in Nat /\ IsFiniteSet({}) /\ seqHigh \in 0 .. MaxSeq
  BY BoundsAssumption, FS_EmptySet DEF SInv, Log
<1>3. PartsInRange'
  BY <1>1 DEF SInv, PartsInRange
<1>4. Log' /\ Counters' /\ Batch(batch)'
  BY <1>1, <1>2 DEF SInv, BackupLog, Log, Counters, Batch
<1>5. HeadLanded'
  BY <1>1 DEF HeadLanded
<1>6. \A s \in 1 .. backup.cursor : InZone(s)' \/ s \in backup.gaps \cup forgotten'
  <2>1. \A s : InZone(s)' <=> InZone(s)
    BY <1>1 DEF InZone, ZoneEvents, Seqs
  <2> QED BY <2>1, <1>1 DEF SInv, BackupAccounted
<1>7. Accounted' /\ BackupAccounted'
  BY <1>1, <1>6 DEF Accounted, BackupAccounted, InZone
<1>8. GapsAreLosses' /\ Preceding' /\ Between'
  BY <1>1 DEF SInv, BackupLog, GapsAreLosses, Preceding, Between
<1>9. BackupLog'
  BY <1>1, <1>2 DEF SInv, BackupLog
<1> QED BY <1>3, <1>4, <1>5, <1>7, <1>8, <1>9 DEF SInv

LEMMA ShipperInitInv ==
  ASSUME ShipperInit
  PROVE  SInv
<1>1. /\ outbox = {} /\ seqHigh = 0 /\ cursor = 0 /\ gaps = {} /\ zone = {} /\ batch = {}
      /\ landed = FALSE
      /\ backup.outbox = {} /\ backup.seqHigh = 0 /\ backup.cursor = 0 /\ backup.gaps = {}
  BY DEF ShipperInit, Init, File
<1>2. MaxSeq \in Nat /\ IsFiniteSet({})
  BY BoundsAssumption, FS_EmptySet
<1>3. Log /\ Counters /\ Batch(batch)
  BY <1>1, <1>2 DEF Log, Counters, Batch
<1>4. HeadLanded
  BY <1>1 DEF HeadLanded
<1>5. Accounted
  BY <1>1 DEF Accounted
<1>6. GapsAreLosses /\ Preceding /\ Between /\ PartsInRange
  BY <1>1 DEF GapsAreLosses, Preceding, Between, PartsInRange
<1>7. BackupLog /\ BackupAccounted
  BY <1>1, <1>2 DEF BackupLog, BackupAccounted
<1> QED BY <1>3, <1>4, <1>5, <1>6, <1>7 DEF SInv

LEMMA ShipperNextInv ==
  ASSUME SInv, [ShipperNext]_shipperVars
  PROVE  SInv'
<1>1. CASE Next /\ UNCHANGED shipVars
  BY <1>1, CollectionStep
<1>2. CASE RunBegin /\ UNCHANGED vars
  BY <1>2, RunBeginStep
<1>3. CASE PutPart /\ UNCHANGED vars
  BY <1>3, PutPartStep
<1>4. CASE AdvanceCursor /\ UNCHANGED vars
  BY <1>4, AdvanceCursorStep
<1>5. CASE (RunDies \/ WindBack) /\ UNCHANGED vars
  BY <1>5, AbandonStep
<1>6. CASE Lose
  BY <1>6, LoseStep
<1>7. CASE Restore
  BY <1>7, RestoreStep
<1>8. CASE UNCHANGED shipperVars
  <2>1. /\ Log' /\ seqHigh' >= seqHigh /\ outbox' = outbox /\ UNCHANGED shipVars
    BY <1>8 DEF shipperVars, vars, SInv, Log
  <2> QED BY <2>1, OutboxStep
<1>9. CASE BackUp
  BY <1>9, BackUpStep
<1> QED BY <1>1, <1>2, <1>3, <1>4, <1>5, <1>6, <1>7, <1>8, <1>9 DEF ShipperNext, Ship

LEMMA ShipperInvariance == ShipperSpec => []SInv
<1>1. ShipperInit => SInv
  BY ShipperInitInv
<1>2. SInv /\ [ShipperNext]_shipperVars => SInv'
  BY ShipperNextInv
<1> QED BY <1>1, <1>2, PTL DEF ShipperSpec

-----------------------------------------------------------------------------
\* Every number the cursor has passed is in the zone or in the gap ledger:
\* the ledger is written before the cursor moves, the cursor after the part
\* has landed, and no part put over another forgets a number.
THEOREM CursorAccountsForAll == ShipperSpec => []Accounted
<1>1. SInv => Accounted
  BY DEF SInv
<1> QED BY <1>1, ShipperInvariance, PTL

\* No number in the gap ledger is still in the outbox, or ever appears there
\* again: a recorded gap is a lost event.
THEOREM GapsAreRealLosses == ShipperSpec => []GapsAreLosses
<1>1. SInv => GapsAreLosses
  BY DEF SInv
<1> QED BY <1>1, ShipperInvariance, PTL

\* The ledger is true: it has every passed number the zone lacks, and only lost ones.
THEOREM LedgerStaysTrue == ShipperSpec => []LedgerIsTrue
<1>1. Accounted /\ GapsAreLosses => LedgerIsTrue
  BY DEF LedgerIsTrue
<1> QED BY <1>1, CursorAccountsForAll, GapsAreRealLosses, PTL

-----------------------------------------------------------------------------
(* The events behind the numbers. A number is given to an event again once the *)
(* file has been taken back, so that a number is in the zone does not say that *)
(* its event is. What holds the two together: outbox, backup and batch agree   *)
(* on every number they share, and no number beyond the backup's log is passed *)
(* by the cursor the backup brings back.                                       *)

WithinLog ==
    /\ cursor <= seqHigh /\ backup.cursor <= backup.seqHigh
    /\ \A e \in batch : e.seq <= seqHigh

SameEvents ==
    /\ \A e \in batch, f \in outbox \cup backup.outbox : e.seq = f.seq => e = f
    /\ \A e \in backup.outbox, f \in outbox : e.seq = f.seq => e = f

\* What the outbox has before an event of the batch is shipped or in the batch.
BatchFollows ==
    \A e \in outbox, f \in batch :
        e.seq <= f.seq => e \in batch \/ e \in ZoneEvents \/ e.seq \in forgotten

\* What the backup's cursor has passed is in the zone, or on record as lost since.
BackupIsShipped ==
    \A e \in backup.outbox :
        e.seq <= backup.cursor => e \in ZoneEvents \/ e.seq \in gaps \cup forgotten

PInv == SInv /\ WithinLog /\ SameEvents /\ BatchFollows /\ BackupIsShipped /\ PassedIsShipped

LEMMA Numbers ==
  ASSUME PInv
  PROVE  /\ seqHigh \in Int /\ cursor \in Int /\ backup.cursor \in Int /\ backup.seqHigh \in Int
         /\ backup.seqHigh <= seqHigh
         /\ \A e \in outbox \cup batch \cup backup.outbox : e.seq \in Int
         /\ \A e \in outbox \cup batch : e.seq <= seqHigh
         /\ \A e \in outbox \cup batch \cup backup.outbox : e.seq >= 1
         /\ \A e \in backup.outbox : e.seq <= backup.seqHigh
<1>1. seqHigh \in Int /\ MaxSeq \in Int
  BY BoundsAssumption DEF PInv, SInv, Log
<1> QED BY <1>1 DEF PInv, SInv, Log, Counters, Batch, BackupLog, WithinLog

\* An event put over is put again with its part, or its number is lost.
LEMMA PutPartKeepsEvents ==
  ASSUME PInv, PutPart, NEW e \in outbox \cup backup.outbox, e \in ZoneEvents
  PROVE  e \in ZoneEvents' \/ e.seq \in gaps
<1> DEFINE p == Part(batch)
<1>1. /\ zone' = {q \in zone : ~SameKey(q, p)} \cup {p}
      /\ batch # {}
  BY DEF PutPart
<1>2. p.events \subseteq batch
  BY <1>1, PartFacts DEF PInv, SInv
<1>3. \A s \in Int : s \in p.from .. p.to => s \in gaps \/ s \in Seqs(p.events)
  BY <1>1, PartCovers DEF PInv
<1> HIDE DEF p
<1>4. PICK q \in zone : e \in q.events
  BY DEF ZoneEvents
<1>5. CASE ~SameKey(q, p)
  BY <1>1, <1>4, <1>5 DEF ZoneEvents
<1>6. CASE SameKey(q, p)
  <2>1. e.seq \in Int /\ e.seq \in p.from .. p.to
    BY <1>4, <1>6 DEF SameKey, PInv, SInv, PartsInRange
  <2>2. e.seq \in gaps \/ \E g \in p.events : g.seq = e.seq
    BY <2>1, <1>3 DEF Seqs
  <2>3. \A g \in p.events : g.seq = e.seq => g = e
    BY <1>2 DEF PInv, SameEvents
  <2> QED BY <2>2, <2>3, <1>1 DEF ZoneEvents
<1> QED BY <1>5, <1>6

LEMMA PutPartPasses ==
  ASSUME PInv, SInv', PutPart, UNCHANGED vars
  PROVE  PInv'
<1>1. /\ batch' = batch /\ cursor' = cursor /\ gaps' = gaps /\ backup' = backup
      /\ forgotten' = forgotten /\ outbox' = outbox /\ seqHigh' = seqHigh
  BY DEF PutPart, vars
<1>2. WithinLog' /\ SameEvents'
  BY <1>1 DEF PInv, WithinLog, SameEvents
<1>3. \A e \in outbox : e.seq \notin gaps
  BY DEF PInv, SInv, GapsAreLosses
<1>4. \A e \in outbox : e \in ZoneEvents => e \in ZoneEvents'
  BY <1>3, PutPartKeepsEvents
<1>5. BatchFollows' /\ PassedIsShipped'
  BY <1>1, <1>4 DEF PInv, BatchFollows, PassedIsShipped
<1>6. BackupIsShipped'
  BY <1>1, PutPartKeepsEvents DEF PInv, BackupIsShipped
<1> QED BY <1>2, <1>5, <1>6 DEF PInv

\* A run's other steps: it reads all that is not shipped, and passes what has landed.
LEMMA RunPasses ==
  ASSUME PInv, SInv', RunBegin \/ AdvanceCursor \/ RunDies \/ WindBack, UNCHANGED vars
  PROVE  PInv'
<1>1. /\ zone' = zone /\ backup' = backup /\ forgotten' = forgotten
      /\ outbox' = outbox /\ seqHigh' = seqHigh /\ gaps \subseteq gaps'
  BY DEF RunBegin, AdvanceCursor, RunDies, WindBack, vars
<1>2. ZoneEvents' = ZoneEvents
  BY <1>1 DEF ZoneEvents
<1>3. BackupIsShipped'
  BY <1>1, <1>2 DEF PInv, BackupIsShipped
<1>4. CASE RunBegin
  <2>1. batch' = Unshipped /\ cursor' = cursor
    BY <1>4 DEF RunBegin
  <2>2. WithinLog' /\ SameEvents'
    BY <2>1, <1>1, Numbers DEF PInv, SInv, Log, WithinLog, SameEvents, Unshipped
  <2>3. BatchFollows' /\ PassedIsShipped'
    BY <2>1, <1>1, <1>2, Numbers DEF PInv, BatchFollows, PassedIsShipped, Unshipped
  <2> QED BY <2>2, <2>3, <1>3 DEF PInv
<1>5. CASE AdvanceCursor
  <2> DEFINE p == Part(batch)
             P == NextPart(batch)
  <2>1. cursor' = p.to /\ batch' = batch \ P /\ landed
    BY <1>5 DEF AdvanceCursor
  <2>2. batch # {} /\ p \in zone
    BY <2>1 DEF PInv, SInv, HeadLanded
  <2>3. /\ p.events = P /\ P \subseteq batch
        /\ \A e \in P, f \in batch : f.seq <= e.seq => f \in P
        /\ p.to \in Seqs(P)
    BY <2>2, PartFacts DEF PInv, SInv
  <2>4. PICK l \in P : l.seq = p.to
    BY <2>3 DEF Seqs
  <2>5. P \subseteq ZoneEvents
    BY <2>2, <2>3 DEF ZoneEvents
  <2> HIDE DEF p, P
  <2>6. WithinLog' /\ SameEvents'
    BY <2>1, <2>3, <2>4, <1>1 DEF PInv, WithinLog, SameEvents
  <2>7. BatchFollows'
    BY <2>1, <2>5, <1>1, <1>2 DEF PInv, BatchFollows
  <2>8. PassedIsShipped'
    BY <2>1, <2>3, <2>4, <2>5, <1>1, <1>2 DEF PInv, BatchFollows, PassedIsShipped
  <2> QED BY <2>6, <2>7, <2>8, <1>3 DEF PInv
<1>6. CASE RunDies \/ WindBack
  <2>1. (batch' = {} /\ cursor' = cursor) \/ (batch' = batch /\ cursor' = 0)
    BY <1>6 DEF RunDies, WindBack
  <2>2. seqHigh >= 0
    BY DEF PInv, SInv, Log
  <2>3. WithinLog' /\ SameEvents'
    BY <2>1, <2>2, <1>1 DEF PInv, WithinLog, SameEvents
  <2>4. BatchFollows'
    BY <2>1, <1>1, <1>2 DEF PInv, BatchFollows
  <2>5. PassedIsShipped'
    BY <2>1, <1>1, <1>2, Numbers DEF PInv, PassedIsShipped
  <2> QED BY <2>3, <2>4, <2>5, <1>3 DEF PInv
<1> QED BY <1>4, <1>5, <1>6

\* New events are numbered beyond everything that is passed, backed up or read.
LEMMA OutboxPasses ==
  ASSUME PInv, SInv', UNCHANGED shipVars, seqHigh' >= seqHigh,
         \A e \in outbox' : e \in outbox \/ e.seq > seqHigh
  PROVE  PInv'
<1>1. /\ zone' = zone /\ backup' = backup /\ forgotten' = forgotten /\ gaps' = gaps
      /\ batch' = batch /\ cursor' = cursor
  BY DEF shipVars
<1>2. ZoneEvents' = ZoneEvents
  BY <1>1 DEF ZoneEvents
<1>3. seqHigh' \in Int
  BY DEF SInv, Log
<1>4. WithinLog'
  BY <1>1, <1>3, Numbers DEF PInv, WithinLog
<1>5. \A e \in outbox', f \in batch \cup backup.outbox : e.seq <= f.seq => e \in outbox
  <2> SUFFICES ASSUME NEW e \in outbox', NEW f \in batch \cup backup.outbox, e.seq <= f.seq,
                      e.seq > seqHigh
               PROVE  FALSE
    OBVIOUS
  <2>1. e.seq \in Int /\ f.seq \in Int /\ f.seq <= seqHigh
    BY Numbers DEF SInv, Log
  <2> QED BY <2>1, Numbers
<1>6. SameEvents'
  <2>1. \A e \in batch \cup backup.outbox : e.seq \in Int
    BY Numbers
  <2>2. ASSUME NEW e \in batch \cup backup.outbox, NEW f \in outbox', e.seq = f.seq
        PROVE  f \in outbox
    BY <2>1, <2>2, <1>5
  <2> QED BY <2>2, <1>1 DEF PInv, SameEvents
<1>7. BatchFollows'
  BY <1>1, <1>2, <1>5 DEF PInv, BatchFollows
<1>8. PassedIsShipped'
  <2>1. ASSUME NEW e \in outbox', e.seq <= cursor PROVE e \in outbox
    <3>1. e.seq \in Int
      BY DEF SInv, Log
    <3> QED BY <3>1, <2>1, Numbers DEF PInv, WithinLog
  <2> QED BY <2>1, <1>1, <1>2 DEF PInv, PassedIsShipped
<1>9. BackupIsShipped'
  BY <1>1, <1>2 DEF PInv, BackupIsShipped
<1> QED BY <1>4, <1>6, <1>7, <1>8, <1>9 DEF PInv

LEMMA CollectionPasses ==
  ASSUME PInv, SInv', [Next]_vars, UNCHANGED shipVars
  PROVE  PInv'
<1>1. seqHigh' >= seqHigh /\ \A e \in outbox' : e \in outbox \/ e.seq > seqHigh
  <2>1. CASE UNCHANGED <<outbox, seqHigh>>
    BY <2>1, Numbers
  <2>2. ASSUME NEW D, NEW source, Ordered(D), AppendEvents(D, source)
        PROVE  seqHigh' >= seqHigh /\ \A e \in outbox' : e \in outbox \/ e.seq > seqHigh
    <3>1. seqHigh \in Nat /\ Cardinality(D) \in Nat
      BY <2>2, FS_CardinalityType DEF PInv, SInv, Log, Ordered
    <3>2. \A e \in Numbered(D, seqHigh, source) :
             e.seq \in seqHigh + 1 .. seqHigh + Cardinality(D)
      BY <2>2, <3>1, NumberedSeqs
    <3>3. /\ seqHigh' = seqHigh + Cardinality(D)
          /\ outbox' = outbox \cup Numbered(D, seqHigh, source)
      BY <2>2 DEF AppendEvents
    <3>4. \A e \in Numbered(D, seqHigh, source) : e.seq > seqHigh
      BY <3>1, <3>2
    <3> QED BY <3>1, <3>3, <3>4
  <2> QED BY <2>1, <2>2, EveryStepAppends
<1> QED BY <1>1, OutboxPasses

\* What happens to the file: a row lost, a backup, a restore.
LEMMA FilePasses ==
  ASSUME PInv, SInv', Lose \/ BackUp \/ Restore
  PROVE  PInv'
<1>1. zone' = zone
  BY DEF Lose, BackUp, Restore
<1>2. ZoneEvents' = ZoneEvents
  BY <1>1 DEF ZoneEvents
<1>3. CASE Lose
  <2>1. /\ outbox' \subseteq outbox /\ seqHigh' = seqHigh /\ cursor' = cursor /\ gaps' = gaps
        /\ batch' = batch /\ backup' = backup /\ forgotten' = forgotten
    BY <1>3 DEF Lose
  <2>2. WithinLog' /\ SameEvents'
    BY <2>1 DEF PInv, WithinLog, SameEvents
  <2>3. BatchFollows' /\ PassedIsShipped' /\ BackupIsShipped'
    BY <2>1, <1>2 DEF PInv, BatchFollows, PassedIsShipped, BackupIsShipped
  <2> QED BY <2>2, <2>3 DEF PInv
<1>4. CASE BackUp
  <2>1. /\ outbox' = outbox /\ seqHigh' = seqHigh /\ cursor' = cursor /\ gaps' = gaps
        /\ batch' = batch /\ forgotten' = forgotten
        /\ backup'.outbox = outbox /\ backup'.cursor = cursor /\ backup'.seqHigh = seqHigh
    BY <1>4 DEF BackUp, File, vars
  <2>2. WithinLog'
    BY <2>1 DEF PInv, WithinLog
  <2>3. SameEvents'
    BY <2>1 DEF PInv, SInv, Log, SameEvents
  <2>4. BatchFollows' /\ PassedIsShipped' /\ BackupIsShipped'
    BY <2>1, <1>2 DEF PInv, BatchFollows, PassedIsShipped, BackupIsShipped
  <2> QED BY <2>2, <2>3, <2>4 DEF PInv
<1>5. CASE Restore
  <2>1. /\ outbox' = backup.outbox /\ seqHigh' = backup.seqHigh /\ cursor' = backup.cursor
        /\ gaps' = backup.gaps /\ batch' = {} /\ backup' = backup
        /\ forgotten' = forgotten \cup ((gaps \ backup.gaps) \cap 1 .. backup.cursor)
    BY <1>5 DEF Restore
  <2>2. WithinLog'
    BY <2>1 DEF PInv, WithinLog
  <2>3. SameEvents' /\ BatchFollows'
    BY <2>1 DEF PInv, SInv, BackupLog, SameEvents, BatchFollows
  <2>4. ASSUME NEW e \in backup.outbox, e.seq <= backup.cursor
        PROVE  e \in ZoneEvents \/ e.seq \in forgotten'
    <3>1. e.seq \notin backup.gaps /\ e.seq \in 1 .. backup.cursor
      BY <2>4, Numbers DEF PInv, SInv, BackupLog
    <3>2. e \in ZoneEvents \/ e.seq \in gaps \cup forgotten
      BY <2>4 DEF PInv, BackupIsShipped
    <3> QED BY <3>1, <3>2, <2>1
  <2>5. PassedIsShipped' /\ BackupIsShipped'
    BY <2>1, <2>4, <1>2 DEF PassedIsShipped, BackupIsShipped
  <2> QED BY <2>2, <2>3, <2>5 DEF PInv
<1> QED BY <1>3, <1>4, <1>5

\* What the cursor has passed is in the zone as the event it is: the file's log and
\* its position go back together, what the position has passed was put from the log
\* itself, and what is put over it is put from a log that agrees with the backup's.
THEOREM PassedStaysShipped == ShipperSpec => []PassedIsShipped
<1>1. ShipperInit => PInv
  <2> SUFFICES ASSUME ShipperInit PROVE PInv
    OBVIOUS
  <2>1. /\ outbox = {} /\ seqHigh = 0 /\ cursor = 0 /\ batch = {}
        /\ backup.outbox = {} /\ backup.cursor = 0 /\ backup.seqHigh = 0
    BY DEF ShipperInit, Init, File
  <2>2. WithinLog /\ SameEvents /\ BatchFollows /\ BackupIsShipped /\ PassedIsShipped
    BY <2>1 DEF WithinLog, SameEvents, BatchFollows, BackupIsShipped, PassedIsShipped
  <2> QED BY <2>2, ShipperInitInv DEF PInv
<1>2. PInv /\ [ShipperNext]_shipperVars => PInv'
  <2> SUFFICES ASSUME PInv, [ShipperNext]_shipperVars PROVE PInv'
    OBVIOUS
  <2>1. SInv'
    BY ShipperNextInv DEF PInv
  <2>2. CASE (Next /\ UNCHANGED shipVars) \/ UNCHANGED shipperVars
    BY <2>1, <2>2, CollectionPasses DEF shipperVars
  <2>3. CASE Ship /\ UNCHANGED vars
    BY <2>1, <2>3, PutPartPasses, RunPasses DEF Ship
  <2>4. CASE Lose \/ BackUp \/ Restore
    BY <2>1, <2>4, FilePasses
  <2> QED BY <2>2, <2>3, <2>4 DEF ShipperNext
<1>3. PInv => PassedIsShipped
  BY DEF PInv
<1> QED BY <1>1, <1>2, <1>3, PTL DEF ShipperSpec

-----------------------------------------------------------------------------
(* The zone is a beginning of the log, as long as nothing was lost from the *)
(* file and the file was not taken back: what a run puts starts where the   *)
(* zone, the ledger or the batch already holds everything before it.        *)

Intact == Never("loss") /\ Never("restore")

Beginning ==
    /\ ZoneEvents \subseteq outbox /\ batch \subseteq outbox /\ forgotten = {}
    /\ \A z \in ZoneEvents, e \in outbox : e.seq <= z.seq => e \in ZoneEvents

ZInv == SInv /\ faults \in Seq({"loss", "kill", "restore"}) /\ (Intact => Beginning)

\* An event of the outbox whose number is known to the zone is in the zone.
LEMMA InZoneByNumber ==
  ASSUME SInv, ZoneEvents \subseteq outbox, NEW e \in outbox
  PROVE  /\ InZone(e.seq) => e \in ZoneEvents
         /\ e.seq \notin gaps /\ e.seq \in 1 .. MaxSeq
<1>1. e.seq \notin gaps
  BY DEF SInv, GapsAreLosses
<1>2. \A f \in outbox : f.seq = e.seq => f = e
  BY DEF SInv, Log
<1>3. e.seq \in 1 .. MaxSeq
  <2>1. e.seq \in 1 .. seqHigh /\ seqHigh \in 0 .. MaxSeq /\ MaxSeq \in Nat
    BY BoundsAssumption DEF SInv, Log
  <2> QED BY <2>1
<1> QED BY <1>1, <1>2, <1>3 DEF InZone, Seqs

LEMMA PutPartBegins ==
  ASSUME SInv, Beginning, PutPart, UNCHANGED vars
  PROVE  Beginning'
<1> DEFINE p == Part(batch)
<1>1. /\ zone' = {q \in zone : ~SameKey(q, p)} \cup {p}
      /\ batch # {} /\ batch' = batch /\ outbox' = outbox /\ forgotten' = forgotten
  BY DEF PutPart, vars
<1>2. /\ p.events = NextPart(batch) /\ NextPart(batch) \subseteq batch
      /\ \A e \in NextPart(batch), f \in batch : f.seq <= e.seq => f \in NextPart(batch)
  BY <1>1, PartFacts DEF SInv
<1> HIDE DEF p
<1>3. ZoneEvents' \subseteq ZoneEvents \cup p.events /\ p.events \subseteq ZoneEvents'
  BY <1>1 DEF ZoneEvents
<1>4. ZoneEvents' \subseteq outbox
  BY <1>2, <1>3 DEF Beginning
<1>5. ASSUME NEW e \in outbox, InZone(e.seq)
      PROVE  e \in ZoneEvents'
  <2>1. e.seq \notin gaps /\ e.seq \in Int
    BY InZoneByNumber DEF Beginning
  <2>2. InZone(e.seq)'
    BY <1>5, <2>1, PutPartKeeps
  <2>3. \E z \in ZoneEvents' : z.seq = e.seq
    BY <2>2 DEF InZone, Seqs
  <2>4. \A z \in outbox : z.seq = e.seq => z = e
    BY DEF SInv, Log
  <2> QED BY <2>3, <2>4, <1>4
<1>6. ASSUME NEW z \in ZoneEvents', NEW e \in outbox, e.seq <= z.seq
      PROVE  e \in ZoneEvents'
  <2>1. CASE z \in ZoneEvents
    <3>1. e \in ZoneEvents
      BY <2>1, <1>6 DEF Beginning
    <3> QED BY <3>1, <1>5 DEF InZone, Seqs
  <2>2. CASE z \in p.events
    <3>1. z \in batch
      BY <2>2, <1>2
    <3>2. e.seq \notin gaps /\ e.seq \in 1 .. MaxSeq
      BY InZoneByNumber DEF Beginning
    <3>3. InZone(e.seq) \/ e.seq \in Seqs(batch)
      BY <3>1, <3>2, <1>6 DEF SInv, Preceding, Beginning
    <3>4. CASE e.seq \in Seqs(batch)
      <4>1. PICK g \in batch : g.seq = e.seq
        BY <3>4 DEF Seqs
      <4>2. g = e
        BY <4>1 DEF Beginning, SInv, Log
      <4> QED BY <4>2, <1>2, <1>3, <1>6, <2>2
    <3> QED BY <3>3, <3>4, <1>5
  <2> QED BY <2>1, <2>2, <1>3
<1> QED BY <1>1, <1>2, <1>4, <1>6 DEF Beginning

\* Nothing else writes the zone, and a batch is read from the outbox.
LEMMA RunBegins ==
  ASSUME Beginning, RunBegin \/ AdvanceCursor \/ RunDies \/ WindBack, UNCHANGED vars
  PROVE  Beginning'
<1>1. zone' = zone /\ outbox' = outbox /\ forgotten' = forgotten
  BY DEF RunBegin, AdvanceCursor, RunDies, WindBack, vars
<1>2. batch' \subseteq outbox
  BY DEF RunBegin, AdvanceCursor, RunDies, WindBack, Unshipped, Beginning
<1> QED BY <1>1, <1>2 DEF Beginning, ZoneEvents

LEMMA LogStutters ==
  ASSUME Log, UNCHANGED <<outbox, seqHigh>>
  PROVE  Log'
BY DEF Log

LEMMA CollectionBegins ==
  ASSUME SInv, Beginning, [Next]_vars, UNCHANGED shipVars
  PROVE  Beginning'
<1>1. zone' = zone /\ batch' = batch /\ forgotten' = forgotten
  BY DEF shipVars
<1>2. outbox \subseteq outbox' /\ \A e \in outbox' : e \in outbox \/ e.seq > seqHigh
  <2>1. ASSUME NEW D, NEW source, Ordered(D), AppendEvents(D, source)
        PROVE  outbox \subseteq outbox' /\ \A e \in outbox' : e \in outbox \/ e.seq > seqHigh
    <3>1. seqHigh \in Nat /\ Cardinality(D) \in Nat
      BY <2>1, FS_CardinalityType DEF SInv, Log, Ordered
    <3>2. \A e \in Numbered(D, seqHigh, source) :
             e.seq \in seqHigh + 1 .. seqHigh + Cardinality(D)
      BY <2>1, <3>1, NumberedSeqs
    <3>3. outbox' = outbox \cup Numbered(D, seqHigh, source)
      BY <2>1 DEF AppendEvents
    <3>4. \A e \in Numbered(D, seqHigh, source) : e.seq > seqHigh
      BY <3>1, <3>2
    <3> QED BY <3>3, <3>4
  <2> QED BY <2>1, EveryStepAppends
<1>5. \A e \in outbox' : e.seq \in Int
  <2>1. Log'
    BY EveryStepAppends, AppendKeepsLog, LogStutters DEF SInv
  <2> QED BY <2>1 DEF Log
<1>3. ASSUME NEW z \in ZoneEvents, NEW e \in outbox', e.seq <= z.seq
      PROVE  e \in ZoneEvents
  <2>1. z \in outbox /\ z.seq \in 1 .. seqHigh /\ seqHigh \in Int
    BY DEF Beginning, SInv, Log
  <2>2. e \in outbox
    <3> SUFFICES ASSUME e \notin outbox PROVE FALSE
      OBVIOUS
    <3>1. e.seq > seqHigh
      BY <1>2
    <3> QED BY <3>1, <2>1, <1>3, <1>5
  <2> QED BY <2>2, <1>3 DEF Beginning
<1> QED BY <1>1, <1>2, <1>3 DEF Beginning, ZoneEvents

\* A fault of a kind is on record once it has happened, and stays there.
LEMMA FaultsAreKept ==
  ASSUME faults \in Seq({"loss", "kill", "restore"}), NEW kind \in {"loss", "kill", "restore"},
         Fails(kind)
  PROVE  /\ faults' \in Seq({"loss", "kill", "restore"})
         /\ ~Never(kind)' /\ (Intact' => Intact)
<1>1. faults' = Append(faults, kind)
  BY DEF Fails
<1>2. /\ faults' \in Seq({"loss", "kill", "restore"})
      /\ Len(faults) + 1 \in DOMAIN faults' /\ faults'[Len(faults) + 1] = kind
      /\ \A i \in DOMAIN faults : i \in DOMAIN faults' /\ faults'[i] = faults[i]
  BY <1>1
<1> QED BY <1>2 DEF Never, Intact

LEMMA FaultsStay ==
  ASSUME faults' = faults
  PROVE  Intact' <=> Intact
BY DEF Intact, Never

LEMMA ZoneInitInv ==
  ASSUME ShipperInit
  PROVE  ZInv
<1>1. outbox = {} /\ zone = {} /\ batch = {} /\ faults = << >> /\ forgotten = {}
  BY DEF ShipperInit, Init
<1>2. Beginning
  BY <1>1 DEF Beginning, ZoneEvents
<1>3. faults \in Seq({"loss", "kill", "restore"})
  BY <1>1
<1> QED BY <1>2, <1>3, ShipperInitInv DEF ZInv

LEMMA ZoneNextInv ==
  ASSUME ZInv, [ShipperNext]_shipperVars
  PROVE  ZInv'
<1>1. SInv'
  BY ShipperNextInv DEF ZInv
<1>2. CASE Next /\ UNCHANGED shipVars
  <2>1. faults' = faults
    BY <1>2 DEF shipVars
  <2> QED BY <1>1, <1>2, <2>1, FaultsStay, CollectionBegins DEF ZInv
<1>3. CASE PutPart /\ UNCHANGED vars
  <2>1. faults' = faults
    BY <1>3 DEF PutPart
  <2> QED BY <1>1, <1>3, <2>1, FaultsStay, PutPartBegins DEF ZInv
<1>4. CASE (RunBegin \/ AdvanceCursor \/ WindBack) /\ UNCHANGED vars
  <2>1. faults' = faults
    BY <1>4 DEF RunBegin, AdvanceCursor, WindBack
  <2> QED BY <1>1, <1>4, <2>1, FaultsStay, RunBegins DEF ZInv
<1>5. CASE RunDies /\ UNCHANGED vars
  <2>1. Fails("kill")
    BY <1>5 DEF RunDies
  <2> QED BY <1>1, <1>5, <2>1, FaultsAreKept, RunBegins DEF ZInv
<1>6. CASE Lose
  <2>1. Fails("loss")
    BY <1>6 DEF Lose
  <2> QED BY <1>1, <2>1, FaultsAreKept DEF ZInv, Intact
<1>7. CASE Restore
  <2>1. Fails("restore")
    BY <1>7 DEF Restore
  <2> QED BY <1>1, <2>1, FaultsAreKept DEF ZInv, Intact
<1>8. CASE UNCHANGED shipperVars
  <2>1. UNCHANGED shipVars /\ UNCHANGED vars
    BY <1>8 DEF shipperVars
  <2>2. faults' = faults
    BY <2>1 DEF shipVars
  <2> QED BY <1>1, <2>1, <2>2, FaultsStay, CollectionBegins DEF ZInv
<1>9. CASE BackUp
  <2>1. /\ faults' = faults /\ outbox' = outbox /\ zone' = zone /\ batch' = batch
        /\ forgotten' = forgotten
    BY <1>9 DEF BackUp, vars
  <2>2. Beginning => Beginning'
    BY <2>1 DEF Beginning, ZoneEvents
  <2> QED BY <1>1, <2>1, <2>2, FaultsStay DEF ZInv
<1> QED BY <1>1, <1>2, <1>3, <1>4, <1>5, <1>6, <1>7, <1>8, <1>9 DEF ShipperNext, Ship, ZInv

-----------------------------------------------------------------------------
\* Parts retried, split otherwise after a crash or overlapping an earlier one:
\* a read of the zone is the collection at one point of its outbox.
THEOREM ZoneStaysACut == ShipperSpec => []ZoneIsACut
<1>1. ASSUME ZInv PROVE ZoneIsACut
  <2> SUFFICES ASSUME Intact
               PROVE  ZoneEvents = {e \in outbox : \E s \in Seqs(ZoneEvents) : e.seq <= s}
    BY DEF ZoneIsACut, Intact, materialize
  <2>1. Beginning /\ \A e \in outbox : e.seq \in Int
    BY <1>1 DEF ZInv, SInv, Log
  <2> QED BY <2>1 DEF Beginning, Seqs
<1> QED BY <1>1, ZoneInitInv, ZoneNextInv, PTL DEF ShipperSpec

\* When a run has shipped everything and nothing was lost, the zone is the
\* collection, kills and a cursor wound back included.
THEOREM ZoneReconciles ==
  ASSUME Steady
  PROVE  ShipperSpec => []ReconciledInPlace
<1> DEFINE Tracks == Intact => IInv
<1>1. ShipperInit => ZInv /\ Tracks
  BY ZoneInitInv, InitInv DEF ShipperInit
<1>2. ASSUME ZInv, Tracks, [ShipperNext]_shipperVars
      PROVE  ZInv' /\ Tracks'
  <2>7. ZInv'
    BY <1>2, ZoneNextInv
  <2>1. CASE [Next]_vars /\ faults' = faults
    BY <1>2, <2>7, <2>1, FaultsStay, NextInv
  <2>2. CASE (RunDies /\ UNCHANGED vars)
    <3>1. Fails("kill")
      BY <2>2 DEF RunDies
    <3> QED BY <1>2, <2>7, <2>2, <3>1, FaultsAreKept, NextInv DEF ZInv
  <2>3. CASE Lose
    <3>1. Fails("loss")
      BY <2>3 DEF Lose
    <3> QED BY <1>2, <2>7, <3>1, FaultsAreKept DEF ZInv, Intact
  <2>4. CASE Restore
    <3>1. Fails("restore")
      BY <2>4 DEF Restore
    <3> QED BY <1>2, <2>7, <3>1, FaultsAreKept DEF ZInv, Intact
  <2>5. CASE UNCHANGED vars /\ (RunBegin \/ PutPart \/ AdvanceCursor \/ WindBack)
    BY <2>1, <2>5 DEF RunBegin, PutPart, AdvanceCursor, WindBack
  <2>6. CASE (Next /\ UNCHANGED shipVars) \/ UNCHANGED shipperVars
    BY <2>1, <2>6 DEF shipperVars, shipVars
  <2>8. CASE BackUp
    BY <2>1, <2>8 DEF BackUp
  <2> QED BY <1>2, <2>2, <2>3, <2>4, <2>5, <2>6, <2>8 DEF ShipperNext, Ship
<1>3. ASSUME ZInv, Tracks PROVE ReconciledInPlace
  <2> SUFFICES ASSUME Intact, last_backfill # {}, cursor = seqHigh
               PROVE  project(ZoneEvents) = holdings
    BY DEF ReconciledInPlace, Intact, materialize
  <2>1. SInv /\ Beginning /\ IInv
    BY <1>3 DEF ZInv
  <2>2. ASSUME NEW e \in outbox PROVE e \in ZoneEvents
    <3>1. e.seq \in 1 .. cursor
      BY <2>1 DEF SInv, Log
    <3>2. InZone(e.seq) \/ e.seq \in gaps
      BY <2>1, <3>1 DEF SInv, Accounted, InZone, Beginning
    <3> QED BY <2>1, <3>2, InZoneByNumber DEF Beginning
  <2>3. ZoneEvents = outbox
    BY <2>1, <2>2 DEF Beginning
  <2> QED BY <2>1, <2>3, ProjectionComplete
<1> HIDE DEF Tracks
<1>4. ZInv /\ Tracks /\ [ShipperNext]_shipperVars => ZInv' /\ Tracks'
  BY <1>2
<1>5. ZInv /\ Tracks => ReconciledInPlace
  BY <1>3
<1> QED BY <1>1, <1>4, <1>5, PTL DEF ShipperSpec
=============================================================================
