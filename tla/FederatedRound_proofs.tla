----------------------- MODULE FederatedRound_proofs -----------------------
(***************************************************************************)
(* For any number of devices, rounds, workers and faults: what the retry   *)
(* of a submission replaces, how often a submission is aggregated, what    *)
(* may lose it, and that a quorum is noticed.                              *)
(***************************************************************************)
EXTENDS FederatedRound, SumTheorems

Busy(a)    == aggs[a].pc # "idle"
Working(a) == aggs[a].pc \in {"load", "save", "delete", "commit"}

\* Only a stored submission is ever in the table, in a worker's hands or seen
\* by another, and a call deletes what it saw.
StoredFirst ==
  /\ \A u \in table : IsStored(u)
  /\ \A a \in Aggregators : Busy(a) => \A u \in aggs[a].rows : IsStored(u)
  /\ \A u, w \in Updates : w \in seen[u] => IsStored(w)
  /\ \A u \in Updates :
       /\ submits[u].pc = "new" => seen[u] = {}
       /\ submits[u].pc = "insert" => submits[u].old = seen[u]

\* The rows of a worker are of one round and of one shape.
RowsAlike ==
  \A a \in Aggregators : Working(a) =>
    /\ aggs[a].rows # {}
    /\ \A u \in aggs[a].rows : /\ RoundOf[u] = aggs[a].round
                               /\ DimsOf[u] = ShapeOf(aggs[a].rows)

\* Weights that hold at most what was saved into them, and have room for it.
Accounted(w) ==
  \A u \in Updates : /\ w.times[u] <= applied[u]
                     /\ w.times[u] > 0 => Fits(DimsOf[u], w.shape)

WeightsAccounted ==
  /\ weights # None => Accounted(weights)
  /\ \A a \in Aggregators : aggs[a].pc = "save" =>
       /\ Accounted(aggs[a].base)
       /\ Compatible(aggs[a].base.shape, ShapeOf(aggs[a].rows))

\* A DELETE covers what was aggregated.
DoomedCovers ==
  \A a \in Aggregators : aggs[a].pc = "commit" =>
    \A u \in aggs[a].rows : u \in aggs[a].doomed \/ u \notin table

Gone(u) == IsStored(u) /\ u \notin table

\* The worker will not save the submission again before the next fault.
Spent(a, u) ==
  \/ aggs[a].pc \in {"delete", "commit"} /\ u \in aggs[a].rows
  \/ Gone(u) /\ ~(aggs[a].pc \in {"load", "save"} /\ u \in aggs[a].rows)

Spenders(u) == {a \in Aggregators : Spent(a, u)}

AppliedBySpenders ==
  \A u \in Updates :
    applied[u] <= Cardinality(Aggregators) * crashes + Cardinality(Spenders(u))

\* In the model, or lost for a reason that LossNeedsCause names.
Settled(u) ==
  \/ u \in late \/ overlapped \/ redisFaults > 0
  \/ weights # None /\ weights.times[u] > 0

\* As long as nothing overlapped or failed, the weights a worker loaded are
\* the ones it replaces, and what it deletes is in them.
LossesExplained ==
  /\ LossNeedsCause
  /\ \A a \in Aggregators :
       /\ aggs[a].pc \in {"load", "save", "delete"} =>
            \A u \in Rows(aggs[a].round) : u \in aggs[a].rows \/ u \in late
       /\ aggs[a].pc = "save" /\ weights # None =>
            overlapped \/ redisFaults > 0 \/ aggs[a].base = weights
       /\ aggs[a].pc = "delete" => \A u \in aggs[a].rows : Settled(u)
       /\ aggs[a].pc = "commit" => \A u \in aggs[a].doomed : Settled(u)

\* The submitter has been told of the quorum, will be, or cannot be.
Told(u) == \/ submits[u].pc \in {"count", "unanswered"}
           \/ submits[u].pc = "answered" /\ submits[u].quorum

\* Not only the whole round, every part of it that is a quorum was noticed:
\* the last of its submitters counted all the others.
QuorumsNoticed ==
  \A r \in Rounds : \A X \in SUBSET Rows(r) :
    Cardinality(X) >= MIN_DEVICES_PER_ROUND => \E u \in X : Told(u)

IInv ==
  /\ TypeOK /\ StoredFirst /\ RetryReplaces /\ RowsAlike /\ WeightsAccounted
  /\ DoomedCovers /\ AppliedBySpenders /\ LossesExplained /\ QuorumsNoticed

-----------------------------------------------------------------------------
(* Shapes and cardinalities *)

\* A submission has the locals of its place.
LEMMA SubmitShape ==
  ASSUME NEW s \in Submit
  PROVE  /\ s.pc \in {"new", "insert", "count", "answered", "failed",
                      "unanswered"}
         /\ s.pc = "insert" => s.old \subseteq Updates
BY DEF Submit

\* A worker has the locals of its place.
LEMMA WorkerShape ==
  ASSUME NEW l \in Aggregator
  PROVE  /\ l.pc \in {"idle", "load", "save", "delete", "commit", "drift"}
         /\ l.pc # "idle" => l.round \in Rounds /\ l.rows \subseteq Updates
         /\ l.pc = "save" => l.base \in Weights
         /\ l.pc = "commit" => l.doomed \subseteq Updates
BY DEF Aggregator

\* The shapes of finitely many deltas: if there are not two, all are alike.
LEMMA OneShape ==
  ASSUME NEW S \in SUBSET Updates, ~ShapesDiffer(S), NEW u \in S, NEW w \in S
  PROVE  DimsOf[u] = DimsOf[w]
<1> DEFINE f == [x \in S |-> DimsOf[x]]
           T == Shapes(S)
<1>1. IsFiniteSet(S)
  BY FS_Subset, RoundAssumption
<1>2. f \in Surjection(S, T)
  BY DEF Surjection, Shapes
<1>3. IsFiniteSet(T)
  BY <1>1, <1>2, FS_Surjection
<1>4. Cardinality(T) \in Nat /\ Cardinality(T) <= 1
  BY <1>3, FS_CardinalityType DEF ShapesDiffer
<1>5. DimsOf[u] \in T /\ DimsOf[w] \in T
  BY DEF Shapes
<1> HIDE DEF T
<1>6. Cardinality(T) = 1
  BY <1>3, <1>4, <1>5, FS_EmptySet
<1> QED
  BY <1>3, <1>5, <1>6, FS_Singleton

\* Rows that do not differ have the shape of their mean.
LEMMA MeanShape ==
  ASSUME NEW S \in SUBSET Updates, S # {}, ~ShapesDiffer(S), NEW u \in S
  PROVE  DimsOf[u] = ShapeOf(S)
<1>1. ShapeOf(S) \in Shapes(S)
  BY DEF ShapeOf, Shapes
<1>2. PICK w \in S : ShapeOf(S) = DimsOf[w]
  BY <1>1 DEF Shapes
<1> QED
  BY <1>2, OneShape

\* Dimensions are natural numbers.
LEMMA DimType ==
  ASSUME NEW s \in Seq(Nat), NEW k \in Nat \ {0}
  PROVE  Dim(s, k) \in Nat
<1>1. CASE k <= Len(s)
  <2>1. Len(s) + 1 - k \in 1 .. Len(s)
    BY <1>1
  <2> QED
    BY <1>1, <2>1 DEF Dim
<1>2. CASE ~(k <= Len(s))
  BY <1>2 DEF Dim
<1> QED
  BY <1>1, <1>2

\* The sum of two arrays has the larger of each two dimensions.
LEMMA BroadcastShape ==
  ASSUME NEW s \in Seq(Nat), NEW t \in Seq(Nat)
  PROVE  /\ Broadcast(s, t) \in Seq(Nat)
         /\ Len(Broadcast(s, t)) = Rank(s, t)
         /\ Rank(s, t) \in Nat /\ Len(s) <= Rank(s, t) /\ Len(t) <= Rank(s, t)
         /\ \A k \in 1 .. Rank(s, t) :
              Dim(Broadcast(s, t), k) = IF Dim(s, k) = 1 THEN Dim(t, k)
                                        ELSE Dim(s, k)
<1> DEFINE n == Rank(s, t)
           d(k) == IF Dim(s, k) = 1 THEN Dim(t, k) ELSE Dim(s, k)
           b == [i \in 1 .. n |-> d(n + 1 - i)]
<1>1. n \in Nat /\ Len(s) <= n /\ Len(t) <= n
  BY DEF Rank
<1>2. b = Broadcast(s, t)
  BY DEF Broadcast
<1> HIDE DEF n
<1>3. \A k \in 1 .. n : d(k) \in Nat
  BY <1>1, DimType
<1>4. \A i \in 1 .. n : n + 1 - i \in 1 .. n /\ n + 1 - (n + 1 - i) = i
  BY <1>1
<1>5. b \in Seq(Nat) /\ Len(b) = n
  <2> HIDE DEF d
  <2>1. \A i \in 1 .. n : d(n + 1 - i) \in Nat
    BY <1>3, <1>4
  <2> QED
    BY <1>1, <2>1
<1>6. \A k \in 1 .. n : Dim(b, k) = d(k)
  <2> SUFFICES ASSUME NEW k \in 1 .. n PROVE Dim(b, k) = d(k)
    OBVIOUS
  <2> HIDE DEF d
  <2>1. b[n + 1 - k] = d(n + 1 - (n + 1 - k))
    BY <1>4
  <2>2. Dim(b, k) = b[n + 1 - k]
    <3> HIDE DEF b
    <3> QED
      BY <1>1, <1>5 DEF Dim
  <2> QED
    BY <1>4, <2>1, <2>2
<1> HIDE DEF b
<1> QED
  BY <1>1, <1>2, <1>5, <1>6 DEF n

\* Both arrays fit their sum, so that an addition loses neither.
LEMMA BothFit ==
  ASSUME NEW s \in Seq(Nat), NEW t \in Seq(Nat), Compatible(s, t)
  PROVE  Fits(s, Broadcast(s, t)) /\ Fits(t, Broadcast(s, t))
<1> DEFINE n == Rank(s, t)
           b == Broadcast(s, t)
<1>1. /\ Len(b) = n /\ n \in Nat /\ Len(s) <= n /\ Len(t) <= n
      /\ \A k \in 1 .. n : Dim(b, k) = IF Dim(s, k) = 1 THEN Dim(t, k)
                                        ELSE Dim(s, k)
  BY BroadcastShape
<1>2. \A k \in 1 .. n : Dim(s, k) = Dim(t, k) \/ Dim(s, k) = 1 \/ Dim(t, k) = 1
  BY DEF Compatible
<1> HIDE DEF n, b
<1>3. \A k \in 1 .. n : Dim(s, k) \in {1, Dim(b, k)} /\ Dim(t, k) \in {1, Dim(b, k)}
  BY <1>1, <1>2
<1>4. /\ \A k \in 1 .. Len(s) : k \in 1 .. n
      /\ \A k \in 1 .. Len(t) : k \in 1 .. n
  BY <1>1
<1>5. Fits(s, b) /\ Fits(t, b)
  BY <1>1, <1>3, <1>4 DEF Fits
<1> QED
  BY <1>5 DEF b

\* What fits into an array fits into every array that one fits into.
LEMMA FitsThrough ==
  ASSUME NEW r \in Seq(Nat), NEW s \in Seq(Nat), NEW t \in Seq(Nat),
         Fits(r, s), Fits(s, t)
  PROVE  Fits(r, t)
<1>1. Len(r) <= Len(s) /\ Len(s) <= Len(t)
  BY DEF Fits
<1>2. \A k \in 1 .. Len(r) : k \in 1 .. Len(s)
  BY <1>1
<1>3. \A k \in 1 .. Len(r) : Dim(r, k) \in {1, Dim(t, k)}
  BY <1>2 DEF Fits
<1>4. Len(r) <= Len(t)
  BY <1>1
<1> QED
  BY <1>3, <1>4 DEF Fits

\* The spenders are workers.
LEMMA SpendersFinite ==
  ASSUME NEW u
  PROVE  /\ IsFiniteSet(Spenders(u)) /\ Cardinality(Spenders(u)) \in Nat
         /\ Cardinality(Spenders(u)) <= Cardinality(Aggregators)
         /\ Cardinality(Aggregators) \in Nat
<1>1. IsFiniteSet(Aggregators) /\ Spenders(u) \in SUBSET Aggregators
  BY RoundAssumption DEF Spenders
<1> QED
  BY <1>1, FS_Subset, FS_CardinalityType

\* The bound survives a step that applies nothing and turns no spender back.
LEMMA SpendersStay ==
  ASSUME IInv, UNCHANGED <<applied, crashes>>,
         \A u \in Updates : \A a \in Aggregators : Spent(a, u) => Spent(a, u)'
  PROVE  AppliedBySpenders'
<1> SUFFICES ASSUME NEW u \in Updates
             PROVE  applied[u] <= Cardinality(Aggregators) * crashes
                                    + Cardinality(Spenders(u)')
  BY DEF AppliedBySpenders
<1>1. Spenders(u) \in SUBSET (Spenders(u)') /\ IsFiniteSet(Spenders(u)')
  <2>1. Spenders(u)' \in SUBSET Aggregators
    BY DEF Spenders
  <2> QED
    BY <2>1, FS_Subset, RoundAssumption DEF Spenders
<1>2. /\ Cardinality(Spenders(u)) <= Cardinality(Spenders(u)')
      /\ Cardinality(Spenders(u)') \in Nat
  BY <1>1, FS_Subset, FS_CardinalityType
<1>3. /\ applied[u] <= Cardinality(Aggregators) * crashes
                         + Cardinality(Spenders(u))
      /\ applied[u] \in Nat /\ crashes \in Nat
  BY DEF IInv, AppliedBySpenders, TypeOK
<1>4. Cardinality(Spenders(u)) \in Nat /\ Cardinality(Aggregators) \in Nat
  BY SpendersFinite
<1>5. Cardinality(Aggregators) * crashes \in Nat
  BY <1>3, <1>4
<1> DEFINE p == Cardinality(Aggregators) * crashes
           q == Cardinality(Spenders(u))
           r == Cardinality(Spenders(u)')
<1> HIDE DEF p, q, r
<1>6. applied[u] <= p + q /\ q <= r /\ p \in Nat /\ q \in Nat /\ r \in Nat
  BY <1>2, <1>3, <1>4, <1>5 DEF p, q, r
<1>7. applied[u] <= p + r
  BY <1>3, <1>6
<1> QED
  BY <1>7 DEF p, r

\* ... and a fault, which gives every worker another go.
LEMMA FaultRefills ==
  ASSUME IInv, UNCHANGED applied, crashes' = crashes + 1
  PROVE  AppliedBySpenders'
<1> SUFFICES ASSUME NEW u \in Updates
             PROVE  applied[u] <= Cardinality(Aggregators) * (crashes + 1)
                                    + Cardinality(Spenders(u)')
  BY DEF AppliedBySpenders
<1>1. Spenders(u)' \in SUBSET Aggregators
  BY DEF Spenders
<1>2. Cardinality(Spenders(u)') \in Nat
  BY <1>1, FS_Subset, FS_CardinalityType, RoundAssumption
<1> DEFINE n == Cardinality(Aggregators)
           q == Cardinality(Spenders(u))
           r == Cardinality(Spenders(u)')
<1>3. applied[u] <= n * crashes + q /\ applied[u] \in Nat /\ crashes \in Nat
  BY DEF IInv, AppliedBySpenders, TypeOK
<1>4. n \in Nat /\ q \in Nat /\ q <= n
  BY SpendersFinite
<1> HIDE DEF n, q, r
<1>5. r \in Nat
  BY <1>2 DEF r
<1>6. n * (crashes + 1) = n * crashes + n /\ n * crashes \in Nat
  BY <1>3, <1>4
<1>7. applied[u] <= n * (crashes + 1) + r
  BY <1>3, <1>4, <1>5, <1>6
<1> QED
  BY <1>7 DEF n, r

-----------------------------------------------------------------------------
(* Submissions *)

\* A call that begins is not stored yet, so nobody has seen it.
LEMMA DeletePreviousStep ==
  ASSUME IInv, NEW u \in Updates, DeletePrevious(u)
  PROVE  IInv'
<1> DEFINE old == {w \in table : SameSlot(u, w)}
<1>1. /\ submits[u].pc = "new"
      /\ submits' = [submits EXCEPT ![u] = [pc |-> "insert", old |-> old]]
      /\ seen' = [seen EXCEPT ![u] = old]
      /\ UNCHANGED <<table, aggs, weights, modelRound, crashes, redisFaults,
                     late, applied, overlapped>>
  BY DEF DeletePrevious, SubmitGoto, faults
<1>2. old \subseteq table /\ old \subseteq Updates
  BY DEF IInv, TypeOK
<1> HIDE DEF old
<1>3. [pc |-> "insert", old |-> old] \in Submit
  BY <1>2 DEF Submit
<1>4. TypeOK'
  BY <1>1, <1>2, <1>3 DEF IInv, TypeOK
<1>5. \A w \in Updates : /\ w # u => submits'[w] = submits[w] /\ seen'[w] = seen[w]
                         /\ IsStored(w) => w # u
                         /\ IsStored(w)' <=> IsStored(w)
  BY <1>1 DEF IsStored, IInv, TypeOK
<1>6. table \subseteq Updates /\ seen \in [Updates -> SUBSET Updates]
  BY DEF IInv, TypeOK
<1>7. submits'[u] = [pc |-> "insert", old |-> old] /\ seen'[u] = old
  BY <1>1, <1>6 DEF IInv, TypeOK
<1>8. \A a \in Aggregators : Busy(a) => aggs[a].rows \subseteq Updates
  BY WorkerShape DEF Busy, IInv, TypeOK
<1>9. StoredFirst'
  <2>1. \A w \in table' : IsStored(w)'
    BY <1>1, <1>5, <1>6 DEF IInv, StoredFirst
  <2>2. \A a \in Aggregators : Busy(a)' => \A w \in aggs'[a].rows : IsStored(w)'
    BY <1>1, <1>5, <1>8 DEF IInv, StoredFirst, Busy
  <2>3. \A v, w \in Updates : w \in seen'[v] => IsStored(w)'
    BY <1>2, <1>5, <1>7 DEF IInv, StoredFirst
  <2>4. \A w \in Updates :
          /\ submits'[w].pc = "new" => seen'[w] = {}
          /\ submits'[w].pc = "insert" => submits'[w].old = seen'[w]
    BY <1>5, <1>7 DEF IInv, StoredFirst
  <2> QED
    BY <2>1, <2>2, <2>3, <2>4 DEF StoredFirst
<1>10. RetryReplaces'
  <2> SUFFICES ASSUME NEW S \in {table} \cup {aggs[a].rows : a \in {b \in
                                    Aggregators : aggs[b].pc # "idle"}},
                      NEW v \in S, NEW w \in S, v # w, SameSlot(v, w)
               PROVE  Overlapped(v, w)'
    BY <1>1 DEF RetryReplaces
  <2>1. Overlapped(v, w)
    BY DEF RetryReplaces, IInv
  <2>2. v \in Updates /\ w \in Updates /\ IsStored(v) /\ IsStored(w)
    BY <1>6, <1>8 DEF Busy, IInv, StoredFirst
  <2> QED
    BY <1>5, <2>1, <2>2 DEF Overlapped
<1>11. RowsAlike' /\ WeightsAccounted' /\ DoomedCovers'
  BY <1>1 DEF IInv, RowsAlike, Working, WeightsAccounted, Accounted,
              DoomedCovers
<1>12. AppliedBySpenders'
  BY <1>1, <1>5, SpendersStay DEF Spent, Gone
<1>13. \A w \in Updates : Replaced(w) <=> Replaced(w)'
  BY <1>5, <1>7 DEF Replaced
<1>14. LossesExplained'
  BY <1>1, <1>5, <1>13
  DEF IInv, LossesExplained, LossNeedsCause, Settled, Rows
<1>15. QuorumsNoticed'
  <2>1. \A w \in table : Told(w) => Told(w)'
    BY <1>1, <1>5, <1>6 DEF Told, IInv, StoredFirst
  <2> QED
    BY <1>1, <2>1 DEF IInv, QuorumsNoticed, Rows
<1> QED
  BY <1>4, <1>9, <1>10, <1>11, <1>12, <1>14, <1>15 DEF IInv

\* A call that stores its row replaces what it saw; what it did not see began
\* before it was stored, and so did not see it.
LEMMA InsertUpdateStep ==
  ASSUME IInv, NEW u \in Updates, InsertUpdate(u)
  PROVE  IInv'
<1> DEFINE old == submits[u].old
<1>1. /\ submits[u].pc = "insert"
      /\ submits' = [submits EXCEPT ![u] = [pc |-> "count"]]
      /\ table' = (table \ old) \cup {u}
      /\ late \subseteq late' /\ late' \subseteq late \cup {u}
      /\ UNCHANGED <<aggs, weights, modelRound, crashes, redisFaults, seen,
                     applied, overlapped>>
  BY DEF InsertUpdate, SubmitGoto, Stored, faults
<1>2. old = seen[u]
  BY <1>1 DEF IInv, StoredFirst
<1> HIDE DEF old
<1>3. [pc |-> "count"] \in Submit
  BY DEF Submit
<1>4. TypeOK'
  BY <1>1, <1>3 DEF IInv, TypeOK
<1>5. /\ submits'[u] = [pc |-> "count"] /\ IsStored(u)' /\ ~IsStored(u)
      /\ \A w \in Updates \ {u} : submits'[w] = submits[w]
      /\ \A w \in Updates : IsStored(w) => IsStored(w)'
  BY <1>1 DEF IsStored, IInv, TypeOK
<1>6. table \subseteq Updates /\ u \notin table /\ seen \in [Updates -> SUBSET Updates]
  BY <1>5 DEF IInv, TypeOK, StoredFirst
<1>7. \A a \in Aggregators :
        Busy(a) => aggs[a].rows \subseteq Updates /\ u \notin aggs[a].rows
  BY <1>5, WorkerShape DEF Busy, IInv, TypeOK, StoredFirst
<1>8. \A w \in Updates : u \notin seen[w]
  BY <1>5 DEF IInv, StoredFirst
<1>9. StoredFirst'
  <2>1. \A w \in table' : IsStored(w)'
    BY <1>1, <1>5, <1>6 DEF IInv, StoredFirst
  <2>2. \A a \in Aggregators : Busy(a)' => \A w \in aggs'[a].rows : IsStored(w)'
    BY <1>1, <1>5, <1>7 DEF IInv, StoredFirst, Busy
  <2>3. \A v, w \in Updates : w \in seen'[v] => IsStored(w)'
    BY <1>1, <1>5 DEF IInv, StoredFirst
  <2>4. \A w \in Updates :
          /\ submits'[w].pc = "new" => seen'[w] = {}
          /\ submits'[w].pc = "insert" => submits'[w].old = seen'[w]
    BY <1>1, <1>5 DEF IInv, StoredFirst
  <2> QED
    BY <2>1, <2>2, <2>3, <2>4 DEF StoredFirst
<1>10. RetryReplaces'
  <2>1. \A v, w \in table' : v # w /\ SameSlot(v, w) => Overlapped(v, w)
    BY <1>1, <1>2, <1>6, <1>8 DEF IInv, RetryReplaces, Overlapped
  <2>2. \A v, w \in Updates : Overlapped(v, w)' <=> Overlapped(v, w)
    BY <1>1 DEF Overlapped
  <2>3. table' \subseteq Updates
    BY <1>1, <1>6
  <2> QED
    BY <1>1, <1>7, <2>1, <2>2, <2>3 DEF IInv, RetryReplaces, Busy
<1>11. RowsAlike' /\ WeightsAccounted'
  BY <1>1 DEF IInv, RowsAlike, Working, WeightsAccounted, Accounted
<1>12. DoomedCovers'
  BY <1>1, <1>7 DEF IInv, DoomedCovers, Busy
<1>13. AppliedBySpenders'
  <2>1. \A w \in Updates : Gone(w) => Gone(w)'
    BY <1>1, <1>5 DEF Gone
  <2> QED
    BY <1>1, <2>1, SpendersStay DEF Spent
<1>14. LossesExplained'
  <2>1. \A w \in Updates : (Replaced(w) \/ w \in old) => Replaced(w)'
    BY <1>1, <1>2, <1>5 DEF Replaced
  <2>2. \A w \in Updates : Settled(w) => Settled(w)'
    BY <1>1 DEF Settled
  <2>3. LossNeedsCause'
    <3> SUFFICES ASSUME NEW w \in Updates, IsStored(w)', w \notin table',
                        ~Replaced(w)'
                 PROVE  Settled(w)'
      BY DEF LossNeedsCause, Settled
    <3>1. w # u /\ w \notin table /\ ~Replaced(w) /\ IsStored(w)
      BY <1>1, <1>5, <2>1 DEF IsStored
    <3> QED
      BY <2>2, <3>1 DEF IInv, LossesExplained, LossNeedsCause, Settled
  <2>4. ASSUME NEW a \in Aggregators, aggs[a].pc \in {"load", "save", "delete"},
               NEW w \in table', RoundOf[w] = aggs[a].round
        PROVE  w \in aggs[a].rows \/ w \in late'
    <3>1. CASE w = u
      BY <2>4, <3>1 DEF InsertUpdate, Selecting
    <3>2. CASE w # u
      BY <1>1, <2>4, <3>2 DEF IInv, LossesExplained, Rows
    <3> QED
      BY <3>1, <3>2
  <2>5. \A a \in Aggregators :
          /\ aggs[a].pc = "delete" => \A w \in aggs[a].rows : Settled(w)'
          /\ aggs[a].pc = "commit" => \A w \in aggs[a].doomed : Settled(w)'
    BY <2>2, WorkerShape DEF IInv, LossesExplained, TypeOK
  <2>6. \A a \in Aggregators : aggs[a].pc = "save" /\ weights # None =>
          overlapped \/ redisFaults > 0 \/ aggs[a].base = weights
    BY DEF IInv, LossesExplained
  <2> QED
    BY <1>1, <2>3, <2>4, <2>5, <2>6 DEF LossesExplained, Rows
<1>15. QuorumsNoticed'
  <2> SUFFICES ASSUME NEW r \in Rounds, NEW X \in SUBSET (Rows(r)'),
                      Cardinality(X) >= MIN_DEVICES_PER_ROUND
               PROVE  \E w \in X : Told(w)'
    BY DEF QuorumsNoticed
  <2>1. CASE u \in X
    BY <1>5, <2>1 DEF Told
  <2>2. CASE u \notin X
    <3>1. X \in SUBSET Rows(r) /\ X \subseteq Updates \ {u}
      BY <1>1, <1>6, <2>2 DEF Rows
    <3>2. PICK w \in X : Told(w)
      BY <3>1 DEF IInv, QuorumsNoticed
    <3> QED
      BY <1>5, <3>1, <3>2 DEF Told
  <2> QED
    BY <2>1, <2>2
<1> QED
  BY <1>4, <1>9, <1>10, <1>11, <1>12, <1>13, <1>14, <1>15 DEF IInv

\* The submitter counts at least every row that came before it.
LEMMA CountSubmissionsStep ==
  ASSUME IInv, NEW u \in Updates, CountSubmissions(u)
  PROVE  IInv'
<1>1. PICK q \in BOOLEAN : q = QuorumReached(RoundOf[u])
  <2>1. Rows(RoundOf[u]) \in SUBSET Updates
    BY DEF Rows, IInv, TypeOK
  <2>2. Cardinality(Rows(RoundOf[u])) \in Nat
    BY <2>1, FS_Subset, FS_CardinalityType, RoundAssumption
  <2>3. QuorumReached(RoundOf[u]) \in BOOLEAN
    BY <2>2, RoundAssumption DEF QuorumReached
  <2> QED
    BY <2>3
<1>2. /\ submits[u].pc = "count"
      /\ submits' = [submits EXCEPT ![u] = [pc |-> "answered", quorum |-> q]]
      /\ UNCHANGED <<table, aggs, weights, modelRound, crashes, redisFaults,
                     seen, late, applied, overlapped>>
  BY <1>1 DEF CountSubmissions, SubmitGoto, faults
<1>3. [pc |-> "answered", quorum |-> q] \in Submit
  BY DEF Submit
<1>4. TypeOK'
  BY <1>2, <1>3 DEF IInv, TypeOK
<1>5. /\ submits'[u] = [pc |-> "answered", quorum |-> q]
      /\ \A w \in Updates \ {u} : submits'[w] = submits[w]
      /\ \A w \in Updates : IsStored(w) <=> IsStored(w)'
  BY <1>2 DEF IsStored, IInv, TypeOK
<1>6. table \subseteq Updates
  BY DEF IInv, TypeOK
<1>7. \A a \in Aggregators : Busy(a) => aggs[a].rows \subseteq Updates
  BY WorkerShape DEF Busy, IInv, TypeOK
<1>8. StoredFirst'
  <2>1. \A w \in table' : IsStored(w)'
    BY <1>2, <1>5, <1>6 DEF IInv, StoredFirst
  <2>2. \A a \in Aggregators : Busy(a)' => \A w \in aggs'[a].rows : IsStored(w)'
    BY <1>2, <1>5, <1>7 DEF IInv, StoredFirst, Busy
  <2>3. \A v, w \in Updates : w \in seen'[v] => IsStored(w)'
    BY <1>2, <1>5 DEF IInv, StoredFirst
  <2>4. \A w \in Updates :
          /\ submits'[w].pc = "new" => seen'[w] = {}
          /\ submits'[w].pc = "insert" => submits'[w].old = seen'[w]
    BY <1>2, <1>5 DEF IInv, StoredFirst
  <2> QED
    BY <2>1, <2>2, <2>3, <2>4 DEF StoredFirst
<1>9. RetryReplaces' /\ RowsAlike' /\ WeightsAccounted' /\ DoomedCovers'
  <2>1. RetryReplaces'
    BY <1>2 DEF IInv, RetryReplaces, Overlapped
  <2>2. RowsAlike' /\ WeightsAccounted' /\ DoomedCovers'
    BY <1>2 DEF IInv, RowsAlike, Working, WeightsAccounted, Accounted,
                DoomedCovers
  <2> QED
    BY <2>1, <2>2
<1>10. AppliedBySpenders'
  BY <1>2, <1>5, SpendersStay DEF Spent, Gone
<1>11. LossesExplained'
  <2>1. \A w \in Updates : Replaced(w) <=> Replaced(w)'
    BY <1>2, <1>5 DEF Replaced
  <2> QED
    BY <1>2, <1>5, <2>1 DEF IInv, LossesExplained, LossNeedsCause, Settled, Rows
<1>12. QuorumsNoticed'
  <2> SUFFICES ASSUME NEW r \in Rounds, NEW X \in SUBSET Rows(r),
                      Cardinality(X) >= MIN_DEVICES_PER_ROUND
               PROVE  \E w \in X : Told(w)'
    BY <1>2 DEF QuorumsNoticed, Rows
  <2>1. CASE u \in X
    <3>1. RoundOf[u] = r /\ Rows(r) \subseteq Updates
      BY <1>6, <2>1 DEF Rows
    <3>2. IsFiniteSet(Rows(r))
      BY <3>1, FS_Subset, RoundAssumption
    <3>3. /\ Cardinality(X) <= Cardinality(Rows(r))
          /\ Cardinality(X) \in Nat /\ Cardinality(Rows(r)) \in Nat
      BY <3>2, FS_Subset, FS_CardinalityType
    <3>4. Cardinality(Rows(r)) >= MIN_DEVICES_PER_ROUND
      BY <3>3, RoundAssumption
    <3>5. q
      BY <1>1, <3>1, <3>4 DEF QuorumReached
    <3> QED
      BY <1>5, <2>1, <3>5 DEF Told
  <2>2. CASE u \notin X
    <3>1. PICK w \in X : Told(w)
      BY DEF IInv, QuorumsNoticed
    <3> QED
      BY <1>5, <1>6, <2>2, <3>1 DEF Told, Rows
  <2> QED
    BY <2>1, <2>2
<1> QED
  BY <1>4, <1>8, <1>9, <1>10, <1>11, <1>12 DEF IInv

-----------------------------------------------------------------------------
(* Workers *)

\* A worker that takes rows from the table, or goes on with the ones it has,
\* leaves submissions alone.
LEMMA WorkerStep ==
  ASSUME IInv, NEW a \in Aggregators, NEW l, Goto(a, l),
         UNCHANGED <<submits, seen>>, table' \subseteq table,
         l.pc # "idle" =>
           l.rows \subseteq table \/ (Busy(a) /\ l.rows = aggs[a].rows)
  PROVE  /\ StoredFirst' /\ RetryReplaces' /\ QuorumsNoticed'
         /\ aggs'[a] = l
         /\ \A b \in Aggregators \ {a} : aggs'[b] = aggs[b]
<1>1. /\ aggs'[a] = l
      /\ \A b \in Aggregators \ {a} : aggs'[b] = aggs[b]
  BY DEF Goto, IInv, TypeOK
<1>2. \A w : IsStored(w)' <=> IsStored(w)
  BY DEF IsStored
<1>3. StoredFirst'
  BY <1>1, <1>2 DEF IInv, StoredFirst, Busy
<1>4. RetryReplaces'
  <2>1. \A v, w \in table : v # w /\ SameSlot(v, w) => Overlapped(v, w)
    BY DEF IInv, RetryReplaces
  <2>2. \A b \in Aggregators : Busy(b) =>
          \A v, w \in aggs[b].rows : v # w /\ SameSlot(v, w) => Overlapped(v, w)
    BY DEF IInv, RetryReplaces, Busy
  <2>3. \A b \in Aggregators : aggs'[b].pc # "idle" =>
          \A v, w \in aggs'[b].rows : v # w /\ SameSlot(v, w) => Overlapped(v, w)
    BY <1>1, <2>1, <2>2 DEF Busy
  <2>4. \A v, w : Overlapped(v, w)' <=> Overlapped(v, w)
    BY DEF Overlapped
  <2> QED
    BY <2>1, <2>3, <2>4 DEF RetryReplaces
<1>5. QuorumsNoticed'
  <2>1. \A w : Told(w)' <=> Told(w)
    BY DEF Told
  <2>2. \A r \in Rounds : Rows(r)' \subseteq Rows(r)
    BY DEF Rows
  <2> QED
    BY <2>1, <2>2 DEF IInv, QuorumsNoticed
<1> QED
  BY <1>1, <1>3, <1>4, <1>5

\* The SELECT takes the round as it is.
LEMMA SelectRoundStep ==
  ASSUME IInv, NEW a \in Aggregators, NEW r \in Rounds, SelectRound(a, r)
  PROVE  IInv'
<1> DEFINE rows == Rows(r)
           y == [pc |-> "drift", round |-> r, rows |-> {}]
           z == [pc |-> "load", round |-> r, rows |-> rows]
<1>1. rows \subseteq table /\ table \subseteq Updates /\ IsFiniteSet(rows)
  <2>1. rows \subseteq table /\ table \subseteq Updates
    BY DEF Rows, IInv, TypeOK
  <2> QED
    BY <2>1, FS_Subset, RoundAssumption
<1>2. PICK l : l = (IF Cardinality(rows) < MIN_DEVICES_PER_ROUND
                         \/ ShapesDiffer(rows) THEN y ELSE z)
  OBVIOUS
<1>3. /\ Goto(a, l) /\ aggs[a].pc = "idle"
      /\ UNCHANGED <<table, submits, weights, modelRound, crashes, redisFaults,
                     seen, late, applied, overlapped>>
  BY <1>2 DEF SelectRound, faults
<1>4. l = y \/ (l = z /\ ~(Cardinality(rows) < MIN_DEVICES_PER_ROUND)
                      /\ ~ShapesDiffer(rows))
  BY <1>2
<1>5. l \in Aggregator
  BY <1>1, <1>4 DEF Aggregator
<1>6. /\ StoredFirst' /\ RetryReplaces' /\ QuorumsNoticed'
      /\ aggs'[a] = l
      /\ \A b \in Aggregators \ {a} : aggs'[b] = aggs[b]
  BY <1>1, <1>3, <1>4, WorkerStep
<1>7. TypeOK'
  BY <1>3, <1>5 DEF Goto, IInv, TypeOK
<1>8. RowsAlike'
  <2>1. ASSUME l = z
        PROVE  rows # {} /\ \A u \in rows :
                 /\ RoundOf[u] = r
                 /\ DimsOf[u] = ShapeOf(rows)
    <3>1. ~ShapesDiffer(rows) /\ ~(Cardinality(rows) < MIN_DEVICES_PER_ROUND)
      BY <1>4, <2>1
    <3>2. rows # {}
      BY <1>1, <3>1, FS_EmptySet, RoundAssumption
    <3>3. \A u \in rows : DimsOf[u] = ShapeOf(rows)
      BY <1>1, <3>1, <3>2, MeanShape
    <3>4. \A u \in rows : RoundOf[u] = r
      BY DEF Rows
    <3> QED
      BY <3>2, <3>3, <3>4
  <2> HIDE DEF rows
  <2> QED
    BY <1>4, <1>6, <2>1 DEF IInv, RowsAlike, Working
<1>9. WeightsAccounted'
  BY <1>3, <1>4, <1>6 DEF IInv, WeightsAccounted, Accounted
<1>10. DoomedCovers'
  BY <1>3, <1>4, <1>6 DEF IInv, DoomedCovers
<1>11. AppliedBySpenders'
  BY <1>1, <1>3, <1>4, <1>6, SpendersStay DEF Spent, Gone, IsStored
<1>12. LossesExplained'
  <2>1. LossNeedsCause'
    BY <1>3 DEF IInv, LossesExplained, LossNeedsCause, IsStored, Replaced
  <2>2. \A u : Settled(u)' <=> Settled(u)
    BY <1>3 DEF Settled
  <2>3. \A q : Rows(q)' = Rows(q)
    BY <1>3 DEF Rows
  <2> QED
    BY <1>3, <1>4, <1>6, <2>1, <2>2, <2>3 DEF IInv, LossesExplained
<1> QED
  BY <1>6, <1>7, <1>8, <1>9, <1>10, <1>11, <1>12 DEF IInv

\* Weights that hold nothing are accounted for.
LEMMA ZerosAccounted ==
  ASSUME IInv, NEW n
  PROVE  Accounted(Zeros(n)) /\ Zeros(n).shape = n
BY DEF Accounted, Zeros, IInv, TypeOK

\* The worker loads the weights as they are, or zeros when Redis fails.
LEMMA LoadWeightsStep ==
  ASSUME IInv, NEW a \in Aggregators, LoadWeights(a)
  PROVE  IInv'
<1> DEFINE mean == ShapeOf(aggs[a].rows)
<1>1. PICK f \in {0, 1}, base \in {weights, Zeros(mean)} :
        /\ base = IF weights = None \/ f = 1 THEN Zeros(mean) ELSE weights
        /\ redisFaults' = redisFaults + f
        /\ Goto(a, IF Compatible(base.shape, mean)
                   THEN [pc |-> "save", round |-> aggs[a].round,
                         rows |-> aggs[a].rows, base |-> base]
                   ELSE [pc |-> "idle"])
  BY DEF LoadWeights
<1>2. /\ aggs[a].pc = "load"
      /\ UNCHANGED <<table, submits, weights, modelRound, crashes, seen, late,
                     applied, overlapped>>
  BY DEF LoadWeights
<1>3. /\ aggs[a].round \in Rounds /\ aggs[a].rows \subseteq Updates
      /\ aggs[a].rows # {}
      /\ \A u \in aggs[a].rows : /\ RoundOf[u] = aggs[a].round
                                 /\ DimsOf[u] = mean
  BY <1>2, WorkerShape DEF IInv, TypeOK, RowsAlike, Working
<1>4. mean \in Seq(Nat)
  BY <1>3, RoundAssumption
<1>5. base \in Weights /\ Accounted(base)
  <2>1. Zeros(mean) \in Weights
    BY <1>4 DEF Zeros, Weights
  <2> QED
    BY <1>1, <2>1, ZerosAccounted DEF IInv, TypeOK, WeightsAccounted
<1> DEFINE z == [pc |-> "save", round |-> aggs[a].round, rows |-> aggs[a].rows,
                 base |-> base]
<1>6. PICK l : /\ l = IF Compatible(base.shape, mean) THEN z
                      ELSE [pc |-> "idle"]
               /\ Goto(a, l)
  BY <1>1
<1>7. l = [pc |-> "idle"] \/ (l = z /\ Compatible(base.shape, mean))
  BY <1>6
<1>8. l \in Aggregator
  BY <1>3, <1>5, <1>7 DEF Aggregator
<1>9. /\ StoredFirst' /\ RetryReplaces' /\ QuorumsNoticed'
      /\ aggs'[a] = l
      /\ \A b \in Aggregators \ {a} : aggs'[b] = aggs[b]
  BY <1>2, <1>6, <1>7, WorkerStep DEF Busy
<1>10. TypeOK'
  BY <1>1, <1>2, <1>6, <1>8 DEF Goto, IInv, TypeOK
<1>11. \A b \in Aggregators : Working(b)' =>
         /\ aggs'[b].rows = aggs[b].rows /\ aggs'[b].round = aggs[b].round
         /\ Working(b)
  BY <1>2, <1>7, <1>9 DEF Working
<1>12. RowsAlike'
  BY <1>11 DEF IInv, RowsAlike
<1>13. WeightsAccounted'
  <2>1. \A w : Accounted(w)' <=> Accounted(w)
    BY <1>2 DEF Accounted
  <2> QED
    BY <1>2, <1>5, <1>7, <1>9, <1>11, <2>1 DEF IInv, WeightsAccounted, Working
<1>14. DoomedCovers'
  BY <1>2, <1>7, <1>9 DEF IInv, DoomedCovers
<1>15. AppliedBySpenders'
  BY <1>2, <1>7, <1>9, SpendersStay DEF Spent, Gone, IsStored
<1>16. LossesExplained'
  <2>1. \A u : Settled(u) => Settled(u)'
    BY <1>1, <1>2 DEF Settled, IInv, TypeOK
  <2>2. LossNeedsCause'
    BY <1>1, <1>2
    DEF IInv, TypeOK, LossesExplained, LossNeedsCause, IsStored, Replaced
  <2>3. \A q : Rows(q)' = Rows(q)
    BY <1>2 DEF Rows
  <2>4. l = z /\ weights # None => redisFaults' > 0 \/ base = weights
    BY <1>1 DEF IInv, TypeOK
  <2>5. redisFaults > 0 => redisFaults' > 0
    BY <1>1 DEF IInv, TypeOK
  <2> QED
    BY <1>2, <1>7, <1>9, <2>1, <2>2, <2>3, <2>4, <2>5 DEF IInv, LossesExplained
<1> QED
  BY <1>9, <1>10, <1>12, <1>13, <1>14, <1>15, <1>16 DEF IInv

\* The worker saves the weights, and so adds its rows once more, or believes
\* it did.
LEMMA SaveWeightsStep ==
  ASSUME IInv, NEW a \in Aggregators, SaveWeights(a)
  PROVE  IInv'
<1> DEFINE rows == aggs[a].rows
           base == aggs[a].base
           mean == ShapeOf(rows)
           sum  == Broadcast(base.shape, mean)
           l == [pc |-> "delete", round |-> aggs[a].round, rows |-> rows]
<1>1. /\ aggs[a].pc = "save" /\ Goto(a, l)
      /\ UNCHANGED <<table, submits, modelRound, crashes, seen, late>>
  BY DEF SaveWeights
<1>2. /\ aggs[a].round \in Rounds /\ rows \subseteq Updates /\ rows # {}
      /\ base \in Weights /\ Accounted(base) /\ Compatible(base.shape, mean)
      /\ \A u \in rows : /\ RoundOf[u] = aggs[a].round
                         /\ DimsOf[u] = mean
  BY <1>1, WorkerShape
  DEF IInv, TypeOK, RowsAlike, WeightsAccounted, Working
<1>3. l \in Aggregator
  BY <1>2 DEF Aggregator
<1>4. PICK k : k = l
  OBVIOUS
<1>5. /\ StoredFirst' /\ RetryReplaces' /\ QuorumsNoticed'
      /\ aggs'[a] = k
      /\ \A b \in Aggregators \ {a} : aggs'[b] = aggs[b]
  BY <1>1, <1>4, WorkerStep DEF Busy
<1>6. aggs' \in [Aggregators -> Aggregator]
  BY <1>1, <1>3 DEF Goto, IInv, TypeOK
<1>7. \A b \in Aggregators : /\ Working(b)' <=> Working(b)
                             /\ Working(b) => /\ aggs'[b].rows = aggs[b].rows
                                              /\ aggs'[b].round = aggs[b].round
  BY <1>1, <1>4, <1>5 DEF Working
<1>8. RowsAlike'
  BY <1>7 DEF IInv, RowsAlike
<1>9. DoomedCovers'
  BY <1>1, <1>4, <1>5 DEF IInv, DoomedCovers
<1>10. /\ \A q : Rows(q)' = Rows(q)
       /\ \A u : IsStored(u)' <=> IsStored(u)
       /\ \A u : Replaced(u)' <=> Replaced(u)
       /\ \A u : Gone(u)' <=> Gone(u)
  BY <1>1 DEF Rows, IsStored, Replaced, Gone
<1>11. \A b \in Aggregators, u \in Updates : Spent(b, u) => Spent(b, u)'
  BY <1>1, <1>4, <1>5, <1>10 DEF Spent
<1>12. \A b \in Aggregators :
         aggs'[b].pc \in {"load", "save", "delete"} =>
           \A u \in table' : RoundOf[u] = aggs'[b].round =>
             u \in aggs'[b].rows \/ u \in late'
  BY <1>1, <1>4, <1>5 DEF IInv, LossesExplained, Rows
<1>13. CASE /\ weights' = Averaged(base, rows)
            /\ applied' = AddedOnce(applied, rows)
            /\ overlapped' = (overlapped \/ OthersLoaded(a))
            /\ UNCHANGED redisFaults
  <2>1. /\ base.times \in [Updates -> Nat] /\ base.shape \in Seq(Nat)
        /\ applied \in [Updates -> Nat]
    BY <1>2 DEF Weights, IInv, TypeOK
  <2>0. mean \in Seq(Nat)
    BY <1>2, RoundAssumption
  <2>2. /\ weights' \in Weights /\ weights' # None
        /\ weights'.shape = sum
        /\ \A u \in Updates : weights'.times[u] =
             IF u \in rows THEN base.times[u] + 1 ELSE base.times[u]
    <3> DEFINE t == AddedOnce(base.times, rows)
    <3>1. /\ t \in [Updates -> Nat]
          /\ \A u \in Updates : t[u] = IF u \in rows THEN base.times[u] + 1
                                        ELSE base.times[u]
      BY <2>1 DEF AddedOnce
    <3>2. weights' = [shape |-> sum, times |-> t]
      BY <1>13 DEF Averaged
    <3>3. sum \in Seq(Nat)
      BY <2>1, <2>0, BroadcastShape
    <3> HIDE DEF t, sum
    <3>4. weights' \in Weights /\ weights'.shape = sum /\ weights'.times = t
      BY <3>1, <3>2, <3>3 DEF Weights
    <3> QED
      BY <3>1, <3>4, NoneAssumption
  <2>3. \A u \in Updates : applied[u] <= applied'[u] /\ applied'[u] \in Nat
    BY <1>13, <2>1 DEF AddedOnce
  <2>4. Accounted(weights)'
    <3>1. Fits(mean, sum) /\ Fits(base.shape, sum) /\ sum \in Seq(Nat)
      BY <1>2, <2>0, <2>1, BothFit, BroadcastShape
    <3>2. \A u \in Updates : weights'.times[u] > 0 => Fits(DimsOf[u], sum)
      <4> SUFFICES ASSUME NEW u \in Updates, weights'.times[u] > 0
                   PROVE  Fits(DimsOf[u], sum)
        OBVIOUS
      <4>1. CASE u \in rows
        BY <1>2, <3>1, <4>1
      <4>2. CASE u \notin rows
        <5>1. Fits(DimsOf[u], base.shape)
          BY <1>2, <2>2, <4>2 DEF Accounted
        <5>2. DimsOf[u] \in Seq(Nat)
          BY RoundAssumption
        <5> QED
          BY <2>1, <3>1, <5>1, <5>2, FitsThrough
      <4> QED
        BY <4>1, <4>2
    <3>3. \A u \in Updates : weights'.times[u] <= applied'[u]
      BY <1>2, <1>13, <2>1, <2>2 DEF Accounted, AddedOnce
    <3> QED
      BY <2>2, <3>2, <3>3 DEF Accounted
  <2>5. TypeOK'
    <3>1. applied' \in [Updates -> Nat]
      BY <1>13, <2>3 DEF AddedOnce
    <3>2. overlapped' \in BOOLEAN
      BY <1>13, Zenon DEF IInv, TypeOK, OthersLoaded
    <3> QED
      BY <1>1, <1>6, <1>13, <2>2, <2>4, <3>1, <3>2 DEF IInv, TypeOK, Accounted
  <2>6. WeightsAccounted'
    <3>1. \A w \in Weights : Accounted(w) => Accounted(w)'
      BY <1>13, <2>1, <2>3 DEF Accounted, Weights
    <3>2. \A b \in Aggregators : aggs'[b].pc = "save" =>
            /\ b # a /\ aggs'[b] = aggs[b] /\ aggs[b].base \in Weights
      <4>1. \A b \in Aggregators : aggs[b].pc = "save" => aggs[b].base \in Weights
        BY WorkerShape DEF IInv, TypeOK
      <4> QED
        BY <1>4, <1>5, <4>1
    <3> QED
      BY <2>4, <3>1, <3>2 DEF IInv, WeightsAccounted
  <2>7. AppliedBySpenders'
    <3> SUFFICES ASSUME NEW u \in Updates
                 PROVE  applied'[u] <= Cardinality(Aggregators) * crashes
                                         + Cardinality(Spenders(u)')
      BY <1>1 DEF AppliedBySpenders
    <3> DEFINE p == Cardinality(Aggregators) * crashes
               S == Spenders(u)
               T == Spenders(u)'
    <3>1. S \subseteq T /\ T \in SUBSET Aggregators
      BY <1>11 DEF Spenders
    <3>2. IsFiniteSet(T) /\ IsFiniteSet(S)
      BY <3>1, FS_Subset, RoundAssumption
    <3>3. /\ applied[u] <= p + Cardinality(S) /\ applied[u] \in Nat
          /\ crashes \in Nat /\ Cardinality(Aggregators) \in Nat
      BY SpendersFinite DEF IInv, AppliedBySpenders, TypeOK
    <3>4. p \in Nat
      BY <3>3
    <3>5. Cardinality(S) \in Nat /\ Cardinality(T) \in Nat
      BY <3>2, FS_CardinalityType
    <3>6. CASE u \in rows
      <4>1. a \notin S /\ a \in T
        BY <1>1, <1>4, <1>5, <3>6 DEF Spenders, Spent
      <4>2. /\ Cardinality(S \cup {a}) = Cardinality(S) + 1
            /\ S \cup {a} \in SUBSET T
        BY <3>1, <3>2, <4>1, FS_AddElement
      <4>3. Cardinality(S) + 1 <= Cardinality(T)
        BY <3>2, <4>2, FS_Subset
      <4>4. applied'[u] = applied[u] + 1
        BY <1>13, <3>6 DEF AddedOnce
      <4> HIDE DEF p, S, T
      <4>5. applied'[u] <= p + Cardinality(T)
        BY <3>3, <3>4, <3>5, <4>3, <4>4
      <4> QED
        BY <4>5 DEF p, T
    <3>7. CASE u \notin rows
      <4>1. Cardinality(S) <= Cardinality(T)
        BY <3>1, <3>2, FS_Subset
      <4>2. applied'[u] = applied[u]
        BY <1>13, <3>7 DEF AddedOnce
      <4> HIDE DEF p, S, T
      <4>3. applied'[u] <= p + Cardinality(T)
        BY <3>3, <3>4, <3>5, <4>1, <4>2
      <4> QED
        BY <4>3 DEF p, T
    <3> QED
      BY <3>6, <3>7
  <2>8. LossesExplained'
    <3>1. \A u \in rows : Settled(u)'
      BY <1>2, <2>1, <2>2 DEF Settled
    <3>2. \A u \in Updates : Settled(u) => Settled(u)'
      <4>1. weights # None => overlapped \/ redisFaults > 0 \/ base = weights
        BY <1>1 DEF IInv, LossesExplained
      <4>2. overlapped => overlapped'
        BY <1>13
      <4> QED
        BY <1>1, <1>13, <2>1, <2>2, <4>1, <4>2 DEF Settled
    <3>3. LossNeedsCause'
      <4>1. \A u \in Updates : IsStored(u) /\ u \notin table /\ ~Replaced(u)
                                => Settled(u)
        BY DEF IInv, LossesExplained, LossNeedsCause, Settled
      <4>2. \A u \in Updates : IsStored(u)' /\ u \notin table' /\ ~Replaced(u)'
                                => Settled(u)'
        BY <1>1, <1>10, <3>2, <4>1
      <4> QED
        BY <4>2 DEF LossNeedsCause, Settled
    <3>4. \A b \in Aggregators : aggs'[b].pc = "save" => overlapped'
      <4>1. \A b \in Aggregators : aggs'[b].pc = "save" => OthersLoaded(a)
        BY <1>4, <1>5 DEF OthersLoaded
      <4> QED
        BY <1>13, <4>1
    <3>5. \A b \in Aggregators :
            /\ aggs'[b].pc = "delete" => \A u \in aggs'[b].rows : Settled(u)'
            /\ aggs'[b].pc = "commit" => \A u \in aggs'[b].doomed : Settled(u)'
      <4>1. \A b \in Aggregators \ {a} :
              /\ aggs[b].pc = "delete" => \A u \in aggs[b].rows : Settled(u)'
              /\ aggs[b].pc = "commit" => \A u \in aggs[b].doomed : Settled(u)'
        BY <3>2, WorkerShape DEF IInv, TypeOK, LossesExplained
      <4> QED
        BY <1>4, <1>5, <3>1, <4>1
    <3> QED
      BY <1>12, <3>3, <3>4, <3>5 DEF LossesExplained, Rows
  <2> QED
    BY <1>5, <1>8, <1>9, <2>5, <2>6, <2>7, <2>8 DEF IInv
<1>14. CASE redisFaults' = redisFaults + 1 /\ UNCHANGED <<weights, applied, overlapped>>
  <2>1. redisFaults' > 0 /\ redisFaults' \in Nat
    BY <1>14 DEF IInv, TypeOK
  <2>2. TypeOK'
    BY <1>1, <1>6, <1>14, <2>1 DEF IInv, TypeOK
  <2>3. WeightsAccounted'
    <3>1. \A w : Accounted(w)' <=> Accounted(w)
      BY <1>14 DEF Accounted
    <3>2. \A b \in Aggregators : aggs'[b].pc = "save" =>
            b # a /\ aggs'[b] = aggs[b]
      BY <1>4, <1>5
    <3> QED
      BY <1>14, <3>1, <3>2 DEF IInv, WeightsAccounted
  <2>4. AppliedBySpenders'
    BY <1>1, <1>11, <1>14, SpendersStay
  <2>5. LossesExplained'
    BY <1>12, <2>1 DEF LossesExplained, LossNeedsCause, Settled, Rows
  <2> QED
    BY <1>5, <1>8, <1>9, <2>2, <2>3, <2>4, <2>5 DEF IInv
<1> QED
  BY <1>13, <1>14 DEF SaveWeights

\* The DELETE covers the rows that are there, aggregated or late.
LEMMA DeleteRoundStep ==
  ASSUME IInv, NEW a \in Aggregators, DeleteRound(a)
  PROVE  IInv'
<1>1. PICK l : /\ l = [pc |-> "commit", round |-> aggs[a].round,
                       rows |-> aggs[a].rows, doomed |-> Rows(aggs[a].round)]
               /\ Goto(a, l)
  BY DEF DeleteRound
<1>2. /\ aggs[a].pc = "delete"
      /\ UNCHANGED <<table, submits, weights, crashes, seen, late, applied,
                     overlapped>>
      /\ modelRound' \in {modelRound, aggs[a].round}
      /\ redisFaults' \in {redisFaults, redisFaults + 1}
  BY DEF DeleteRound
<1>3. /\ aggs[a].round \in Rounds /\ aggs[a].rows \subseteq Updates
      /\ \A u \in aggs[a].rows : RoundOf[u] = aggs[a].round
      /\ table \subseteq Updates
  BY <1>2, WorkerShape DEF IInv, TypeOK, RowsAlike, Working
<1>4. l \in Aggregator
  BY <1>1, <1>3 DEF Aggregator, Rows
<1>5. /\ StoredFirst' /\ RetryReplaces' /\ QuorumsNoticed'
      /\ aggs'[a] = l
      /\ \A b \in Aggregators \ {a} : aggs'[b] = aggs[b]
  BY <1>1, <1>2, WorkerStep DEF Busy
<1>6. redisFaults' \in Nat /\ (redisFaults > 0 => redisFaults' > 0)
  BY <1>2 DEF IInv, TypeOK
<1>7. TypeOK'
  BY <1>1, <1>2, <1>3, <1>4, <1>6 DEF Goto, IInv, TypeOK
<1>8. \A b \in Aggregators : /\ Working(b)' <=> Working(b)
                             /\ Working(b) => /\ aggs'[b].rows = aggs[b].rows
                                              /\ aggs'[b].round = aggs[b].round
  BY <1>1, <1>2, <1>5 DEF Working
<1>9. RowsAlike'
  BY <1>8 DEF IInv, RowsAlike
<1>10. WeightsAccounted'
  <2>1. \A w : Accounted(w)' <=> Accounted(w)
    BY <1>2 DEF Accounted
  <2>2. \A b \in Aggregators : aggs'[b].pc = "save" =>
          b # a /\ aggs'[b] = aggs[b]
    BY <1>1, <1>5
  <2> QED
    BY <1>2, <2>1, <2>2 DEF IInv, WeightsAccounted
<1>11. DoomedCovers'
  <2>1. \A u \in aggs[a].rows : u \in Rows(aggs[a].round) \/ u \notin table
    BY <1>3 DEF Rows
  <2> QED
    BY <1>1, <1>2, <1>5, <2>1 DEF IInv, DoomedCovers
<1>12. AppliedBySpenders'
  BY <1>1, <1>2, <1>5, SpendersStay DEF Spent, Gone, IsStored
<1>13. LossesExplained'
  <2>1. \A u : Settled(u) => Settled(u)'
    BY <1>2, <1>6 DEF Settled
  <2>2. LossNeedsCause'
    BY <1>2, <1>6
    DEF IInv, LossesExplained, LossNeedsCause, IsStored, Replaced
  <2>3. \A q : Rows(q)' = Rows(q)
    BY <1>2 DEF Rows
  <2>4. \A u \in Rows(aggs[a].round) : Settled(u)
    BY <1>2 DEF IInv, LossesExplained, Settled
  <2>5. \A b \in Aggregators :
          /\ aggs'[b].pc = "delete" => \A u \in aggs'[b].rows : Settled(u)'
          /\ aggs'[b].pc = "commit" => \A u \in aggs'[b].doomed : Settled(u)'
    BY <1>1, <1>5, <2>1, <2>4 DEF IInv, LossesExplained
  <2>6. \A b \in Aggregators :
          /\ aggs'[b].pc \in {"load", "save", "delete"} =>
               \A u \in table : RoundOf[u] = aggs'[b].round =>
                 u \in aggs'[b].rows \/ u \in late
          /\ aggs'[b].pc = "save" /\ weights # None =>
               overlapped \/ redisFaults' > 0 \/ aggs'[b].base = weights
    BY <1>1, <1>5, <1>6 DEF IInv, LossesExplained, Rows
  <2> QED
    BY <1>2, <2>2, <2>5, <2>6 DEF LossesExplained, Rows
<1> QED
  BY <1>5, <1>7, <1>9, <1>10, <1>11, <1>12, <1>13 DEF IInv

\* The rows are gone for good, and with them every further use of them.
LEMMA CommitRoundStep ==
  ASSUME IInv, NEW a \in Aggregators, CommitRound(a)
  PROVE  IInv'
<1>1. PICK l : /\ l = [pc |-> "drift", round |-> aggs[a].round,
                       rows |-> aggs[a].rows]
               /\ Goto(a, l)
  BY DEF CommitRound
<1>2. /\ aggs[a].pc = "commit"
      /\ table' = table \ aggs[a].doomed
      /\ UNCHANGED <<submits, weights, modelRound, crashes, redisFaults, seen,
                     late, applied, overlapped>>
  BY DEF CommitRound, RemainingRows, faults
<1>3. /\ aggs[a].round \in Rounds /\ aggs[a].rows \subseteq Updates
      /\ aggs[a].doomed \subseteq Updates
  BY <1>2, WorkerShape DEF IInv, TypeOK
<1>4. l \in Aggregator
  BY <1>1, <1>3 DEF Aggregator
<1>5. /\ StoredFirst' /\ RetryReplaces' /\ QuorumsNoticed'
      /\ aggs'[a] = l
      /\ \A b \in Aggregators \ {a} : aggs'[b] = aggs[b]
  BY <1>1, <1>2, WorkerStep DEF Busy
<1>6. TypeOK'
  BY <1>1, <1>2, <1>4 DEF Goto, IInv, TypeOK
<1>7. \A b \in Aggregators : Working(b)' =>
        b # a /\ aggs'[b] = aggs[b] /\ Working(b)
  BY <1>1, <1>5 DEF Working
<1>8. RowsAlike'
  BY <1>7 DEF IInv, RowsAlike
<1>9. WeightsAccounted'
  <2>1. \A w : Accounted(w)' <=> Accounted(w)
    BY <1>2 DEF Accounted
  <2> QED
    BY <1>2, <1>7, <2>1 DEF IInv, WeightsAccounted, Working
<1>10. DoomedCovers'
  BY <1>1, <1>2, <1>5 DEF IInv, DoomedCovers
<1>11. AppliedBySpenders'
  <2>1. \A u \in Updates : Gone(u) => Gone(u)'
    BY <1>2 DEF Gone, IsStored
  <2>2. \A u \in aggs[a].rows : Gone(u)'
    BY <1>2 DEF Gone, IsStored, IInv, DoomedCovers, StoredFirst, Busy
  <2>3. \A u \in Updates : Spent(a, u) => Spent(a, u)'
    BY <1>1, <1>2, <1>5, <2>1, <2>2 DEF Spent
  <2>4. \A u \in Updates : \A b \in Aggregators \ {a} : Spent(b, u) => Spent(b, u)'
    BY <1>5, <2>1 DEF Spent
  <2> QED
    BY <1>2, <2>3, <2>4, SpendersStay
<1>12. LossesExplained'
  <2>1. \A u : Settled(u)' <=> Settled(u)
    BY <1>2 DEF Settled
  <2>2. LossNeedsCause'
    <3> SUFFICES ASSUME NEW u \in Updates, IsStored(u), u \notin table',
                        ~Replaced(u)
                 PROVE  Settled(u)
      BY <1>2, <2>1 DEF LossNeedsCause, Settled, IsStored, Replaced
    <3> QED
      BY <1>2 DEF IInv, LossesExplained, LossNeedsCause, Settled
  <2>3. \A b \in Aggregators :
          /\ aggs'[b].pc \in {"load", "save", "delete"} =>
               \A u \in table' : RoundOf[u] = aggs'[b].round =>
                 u \in aggs'[b].rows \/ u \in late
          /\ aggs'[b].pc = "save" /\ weights # None =>
               overlapped \/ redisFaults > 0 \/ aggs'[b].base = weights
          /\ aggs'[b].pc = "delete" => \A u \in aggs'[b].rows : Settled(u)
          /\ aggs'[b].pc = "commit" => \A u \in aggs'[b].doomed : Settled(u)
    BY <1>1, <1>2, <1>5 DEF IInv, LossesExplained, Rows
  <2> QED
    BY <1>2, <2>1, <2>2, <2>3 DEF LossesExplained, Rows
<1> QED
  BY <1>5, <1>6, <1>8, <1>9, <1>10, <1>11, <1>12 DEF IInv

\* A worker that becomes idle leaves everything else as it is.
LEMMA BackToIdle ==
  ASSUME IInv, NEW a \in Aggregators, Goto(a, [pc |-> "idle"]),
         UNCHANGED <<table, submits, weights, modelRound, redisFaults, seen,
                     late, applied, overlapped>>,
         crashes' \in Nat, AppliedBySpenders'
  PROVE  IInv'
<1>1. PICK l : l = [pc |-> "idle"]
  OBVIOUS
<1>2. l \in Aggregator
  BY <1>1 DEF Aggregator
<1>3. /\ StoredFirst' /\ RetryReplaces' /\ QuorumsNoticed'
      /\ aggs'[a] = l
      /\ \A b \in Aggregators \ {a} : aggs'[b] = aggs[b]
  BY <1>1, WorkerStep
<1>4. TypeOK'
  BY <1>1, <1>2 DEF Goto, IInv, TypeOK
<1>5. \A b \in Aggregators : Working(b)' =>
        b # a /\ aggs'[b] = aggs[b] /\ Working(b)
  BY <1>1, <1>3 DEF Working
<1>6. RowsAlike'
  BY <1>5 DEF IInv, RowsAlike
<1>7. WeightsAccounted'
  <2>1. \A w : Accounted(w)' <=> Accounted(w)
    BY DEF Accounted
  <2> QED
    BY <1>5, <2>1 DEF IInv, WeightsAccounted, Working
<1>8. DoomedCovers'
  BY <1>5 DEF IInv, DoomedCovers, Working
<1>9. LossesExplained'
  <2>1. \A u : Settled(u)' <=> Settled(u)
    BY DEF Settled
  <2>2. LossNeedsCause'
    BY DEF IInv, LossesExplained, LossNeedsCause, IsStored, Replaced
  <2>3. \A q : Rows(q)' = Rows(q)
    BY DEF Rows
  <2> QED
    BY <1>5, <2>1, <2>2, <2>3 DEF IInv, LossesExplained, Working
<1> QED
  BY <1>3, <1>4, <1>6, <1>7, <1>8, <1>9 DEF IInv

\* After the reports nothing remains of a round.
LEMMA DetectDriftStep ==
  ASSUME IInv, NEW a \in Aggregators, DetectDrift(a)
  PROVE  IInv'
<1>1. AppliedBySpenders'
  <2>1. aggs'[a] = [pc |-> "idle"] /\ \A b \in Aggregators \ {a} : aggs'[b] = aggs[b]
    BY DEF DetectDrift, Goto, IInv, TypeOK
  <2> QED
    BY <2>1, SpendersStay DEF DetectDrift, faults, Spent, Gone, IsStored
<1> QED
  BY <1>1, BackToIdle DEF DetectDrift, faults, IInv, TypeOK

\* A transaction that is rolled back keeps its rows, for another go.
LEMMA AggregationFailsStep ==
  ASSUME IInv, NEW a \in Aggregators, AggregationFails(a)
  PROVE  IInv'
<1>1. crashes' \in Nat /\ AppliedBySpenders'
  BY FaultRefills DEF AggregationFails, IInv, TypeOK
<1> QED
  BY <1>1, BackToIdle DEF AggregationFails

\* Weights that expire are a loss with a cause.
LEMMA WeightsExpireStep ==
  ASSUME IInv, WeightsExpire
  PROVE  IInv'
<1>1. /\ weights' = None /\ modelRound' = None
      /\ redisFaults' = redisFaults + 1
      /\ UNCHANGED <<table, submits, aggs, crashes, seen, late, applied,
                     overlapped>>
  BY DEF WeightsExpire
<1>2. redisFaults' > 0 /\ redisFaults' \in Nat
  BY <1>1 DEF IInv, TypeOK
<1>3. TypeOK'
  BY <1>1, <1>2 DEF IInv, TypeOK
<1>4. StoredFirst' /\ RowsAlike' /\ DoomedCovers'
  BY <1>1 DEF IInv, StoredFirst, Busy, IsStored, RowsAlike, Working,
              DoomedCovers
<1>5. RetryReplaces'
  BY <1>1 DEF IInv, RetryReplaces, Overlapped
<1>6. WeightsAccounted'
  BY <1>1 DEF IInv, WeightsAccounted, Accounted
<1>7. AppliedBySpenders'
  BY <1>1, SpendersStay DEF Spent, Gone, IsStored
<1>8. LossesExplained'
  BY <1>1, <1>2
  DEF IInv, LossesExplained, LossNeedsCause, Settled, Rows
<1>9. QuorumsNoticed'
  BY <1>1 DEF IInv, QuorumsNoticed, Told, Rows
<1> QED
  BY <1>3, <1>4, <1>5, <1>6, <1>7, <1>8, <1>9 DEF IInv

\* A restart ends every call and every worker.
LEMMA CrashStep ==
  ASSUME IInv, Crash
  PROVE  IInv'
<1>1. /\ crashes' = crashes + 1
      /\ \A a \in Aggregators : aggs'[a] = [pc |-> "idle"]
      /\ \A u \in Updates : submits'[u] = Broken(submits[u])
      /\ UNCHANGED <<table, weights, modelRound, redisFaults, seen, late,
                     applied, overlapped>>
  BY DEF Crash
<1>2. \A u \in Updates :
        /\ submits'[u] \in Submit
        /\ IsStored(u)' <=> IsStored(u)
        /\ Told(u) => Told(u)'
        /\ submits'[u].pc = "new" => submits[u].pc = "new"
        /\ submits'[u].pc # "insert"
  <2> SUFFICES ASSUME NEW u \in Updates
               PROVE  /\ submits'[u] \in Submit
                      /\ IsStored(u)' <=> IsStored(u)
                      /\ Told(u) => Told(u)'
                      /\ submits'[u].pc = "new" => submits[u].pc = "new"
                      /\ submits'[u].pc # "insert"
    OBVIOUS
  <2>1. submits[u] \in Submit
    BY DEF IInv, TypeOK
  <2>2. CASE submits[u].pc = "insert"
    BY <1>1, <2>2 DEF Broken, Submit, IsStored, Told
  <2>3. CASE submits[u].pc = "count"
    BY <1>1, <2>3 DEF Broken, Submit, IsStored, Told
  <2>4. CASE submits[u].pc \notin {"insert", "count"}
    <3>1. submits'[u] = submits[u]
      BY <1>1, <2>4 DEF Broken
    <3> QED
      BY <2>1, <2>4, <3>1 DEF IsStored, Told
  <2> QED
    BY <2>2, <2>3, <2>4
<1>3. TypeOK'
  <2>1. submits' \in [Updates -> Submit] /\ aggs' \in [Aggregators -> Aggregator]
    BY <1>2 DEF Crash, Aggregator
  <2> QED
    BY <1>1, <2>1 DEF IInv, TypeOK
<1>4. table \subseteq Updates /\ seen \in [Updates -> SUBSET Updates]
  BY DEF IInv, TypeOK
<1>5. StoredFirst'
  BY <1>1, <1>2, <1>4 DEF IInv, StoredFirst, Busy
<1>6. RetryReplaces'
  BY <1>1 DEF IInv, RetryReplaces, Overlapped
<1>7. RowsAlike' /\ DoomedCovers'
  BY <1>1 DEF RowsAlike, Working, DoomedCovers
<1>8. WeightsAccounted'
  BY <1>1 DEF IInv, WeightsAccounted, Accounted
<1>9. AppliedBySpenders'
  BY <1>1, FaultRefills
<1>10. LossesExplained'
  <2>1. \A u \in Updates : Replaced(u)' <=> Replaced(u)
    BY <1>1, <1>2 DEF Replaced
  <2> QED
    BY <1>1, <1>2, <2>1 DEF IInv, LossesExplained, LossNeedsCause
<1>11. QuorumsNoticed'
  BY <1>1, <1>2, <1>4 DEF IInv, QuorumsNoticed, Rows
<1> QED
  BY <1>3, <1>5, <1>6, <1>7, <1>8, <1>9, <1>10, <1>11 DEF IInv

-----------------------------------------------------------------------------
(* Theorems *)

\* Before the first submission there is nothing to account for.
LEMMA InitInv == Init => IInv
<1> SUFFICES ASSUME Init PROVE IInv
  OBVIOUS
<1>1. /\ table = {} /\ late = {} /\ modelRound = None /\ overlapped = FALSE
      /\ crashes = 0 /\ redisFaults = 0
      /\ submits = [u \in Updates |-> [pc |-> "new"]]
      /\ aggs = [a \in Aggregators |-> [pc |-> "idle"]]
      /\ seen = [u \in Updates |-> {}] /\ applied = [u \in Updates |-> 0]
  BY DEF Init
<1>2. weights # None =>
        weights \in Weights /\ \A u \in Updates : weights.times[u] = 0
  <2> SUFFICES ASSUME weights # None
               PROVE  weights \in Weights
                        /\ \A u \in Updates : weights.times[u] = 0
    OBVIOUS
  <2>1. PICK n \in OldShapes : weights = Zeros(n)
    BY DEF Init
  <2>2. n \in Seq(Nat)
    BY RoundAssumption
  <2> QED
    BY <2>1, <2>2 DEF Zeros, Weights
<1>3. TypeOK
  <2>1. submits \in [Updates -> Submit]
    BY <1>1 DEF Submit
  <2>2. aggs \in [Aggregators -> Aggregator]
    BY <1>1 DEF Aggregator
  <2>3. overlapped \in BOOLEAN
    BY <1>1
  <2>4. /\ seen \in [Updates -> SUBSET Updates] /\ applied \in [Updates -> Nat]
        /\ crashes \in Nat /\ redisFaults \in Nat
        /\ table \subseteq Updates /\ late \subseteq Updates
        /\ modelRound \in Rounds \cup {None}
    BY <1>1
  <2>5. /\ weights \in Weights \cup {None}
        /\ weights # None => \A u \in Updates :
             weights.times[u] > 0 => Fits(DimsOf[u], weights.shape)
    BY <1>2
  <2> QED
    BY <2>1, <2>2, <2>3, <2>4, <2>5 DEF TypeOK
<1>4. WeightsAccounted
  BY <1>1, <1>2 DEF WeightsAccounted, Accounted
<1>5. \A u \in Updates : ~IsStored(u)
  BY <1>1 DEF IsStored
<1>6. StoredFirst /\ RetryReplaces /\ RowsAlike /\ DoomedCovers
  BY <1>1, <1>5 DEF StoredFirst, Busy, RetryReplaces, RowsAlike, Working,
                    DoomedCovers
<1>7. AppliedBySpenders
  <2> SUFFICES ASSUME NEW u \in Updates
               PROVE  0 <= Cardinality(Aggregators) * 0
                             + Cardinality(Spenders(u))
    BY <1>1 DEF AppliedBySpenders
  <2>1. Cardinality(Spenders(u)) \in Nat /\ Cardinality(Aggregators) \in Nat
    BY SpendersFinite
  <2> QED
    BY <2>1
<1>8. LossesExplained
  BY <1>1, <1>5 DEF LossesExplained, LossNeedsCause
<1>9. QuorumsNoticed
  <2> SUFFICES ASSUME NEW r \in Rounds, NEW X \in SUBSET Rows(r),
                      Cardinality(X) >= MIN_DEVICES_PER_ROUND
               PROVE  FALSE
    BY DEF QuorumsNoticed
  <2>1. X = {}
    BY <1>1 DEF Rows
  <2> QED
    BY <2>1, FS_EmptySet, RoundAssumption
<1> QED
  BY <1>3, <1>4, <1>6, <1>7, <1>8, <1>9 DEF IInv

\* Every step keeps the invariant.
LEMMA NextInv ==
  ASSUME IInv, [Next]_vars
  PROVE  IInv'
<1>1. ASSUME NEW u \in Updates, SubmitStep(u)
      PROVE  IInv'
  BY <1>1, DeletePreviousStep, InsertUpdateStep, CountSubmissionsStep
     DEF SubmitStep
<1>2. ASSUME NEW a \in Aggregators, AggregateStep(a)
      PROVE  IInv'
  BY <1>2, SelectRoundStep, LoadWeightsStep, SaveWeightsStep, DeleteRoundStep,
     CommitRoundStep, DetectDriftStep DEF AggregateStep
<1>3. ASSUME NEW a \in Aggregators, AggregationFails(a)
      PROVE  IInv'
  BY <1>3, AggregationFailsStep
<1>4. CASE WeightsExpire
  BY <1>4, WeightsExpireStep
<1>5. CASE Crash
  BY <1>5, CrashStep
<1>6. CASE UNCHANGED vars
  <2>1. UNCHANGED <<table, submits, aggs, weights, modelRound, crashes,
                    redisFaults, seen, late, applied, overlapped>>
    BY <1>6 DEF vars, faults
  <2>2. TypeOK'
    BY <2>1 DEF IInv, TypeOK
  <2>3. StoredFirst' /\ RetryReplaces'
    BY <2>1 DEF IInv, StoredFirst, IsStored, Busy, RetryReplaces, Overlapped
  <2>4. RowsAlike'
    BY <2>1 DEF IInv, RowsAlike, Working
  <2>5. WeightsAccounted' /\ DoomedCovers' /\ QuorumsNoticed'
    BY <2>1 DEF IInv, WeightsAccounted, Accounted, DoomedCovers,
                QuorumsNoticed, Rows, Told
  <2>6. AppliedBySpenders'
    <3>1. \A u \in Updates : \A a \in Aggregators : Spent(a, u) => Spent(a, u)'
      BY <2>1 DEF Spent, Gone, IsStored
    <3> QED
      BY <2>1, <3>1, SpendersStay
  <2>7. LossesExplained'
    BY <2>1 DEF IInv, LossesExplained, LossNeedsCause, Replaced, IsStored,
                Settled, Rows
  <2> QED
    BY <2>2, <2>3, <2>4, <2>5, <2>6, <2>7 DEF IInv
<1> QED
  BY <1>1, <1>2, <1>3, <1>4, <1>5, <1>6 DEF Next

\* The invariant holds throughout.
LEMMA Invariance == Spec => []IInv
<1>1. IInv /\ [Next]_vars => IInv'
  BY NextInv
<1> QED
  BY InitInv, <1>1, PTL DEF Spec

\* The type invariant: in particular every delta that run_aggregation added
\* fits the weights in Redis, whatever shapes devices submit.  The addition of
\* numpy arrays broadcasts, so the weights may be wider than a delta in them,
\* but never too narrow for one: ValueError ends a round before that.
THEOREM TypeCorrect == Spec => []TypeOK
<1>1. IInv => TypeOK
  BY DEF IInv
<1> QED
  BY Invariance, <1>1, PTL

\* The DELETE and INSERT of store_gradient_update replace the submission that a
\* device retries, unless the two overlap.
THEOREM RetriesReplace == Spec => []RetryReplaces
<1>1. IInv => RetryReplaces
  BY DEF IInv
<1> QED
  BY Invariance, <1>1, PTL

\* run_aggregation saves a submission at most once per worker, and once more per
\* worker for every restart or failed statement between save and commit.
THEOREM AppliedAtMost == Spec => []AppliedBound
<1>1. IInv => AppliedBound
  <2> SUFFICES ASSUME IInv, NEW u \in Updates
               PROVE  /\ applied[u] <= Cardinality(Aggregators) * (1 + crashes)
                      /\ weights # None => weights.times[u] <= applied[u]
    BY DEF AppliedBound
  <2> DEFINE n == Cardinality(Aggregators)
             q == Cardinality(Spenders(u))
  <2>1. applied[u] <= n * crashes + q /\ applied[u] \in Nat /\ crashes \in Nat
    BY DEF IInv, AppliedBySpenders, TypeOK
  <2>2. n \in Nat /\ q \in Nat /\ q <= n
    BY SpendersFinite
  <2>3. weights # None => weights.times[u] <= applied[u]
    BY DEF IInv, WeightsAccounted, Accounted
  <2> HIDE DEF n, q
  <2>4. n * (1 + crashes) = n * crashes + n /\ n * crashes \in Nat
    BY <2>1, <2>2
  <2>5. applied[u] <= n * (1 + crashes)
    BY <2>1, <2>2, <2>4
  <2> QED
    BY <2>3, <2>5 DEF n
<1> QED
  BY Invariance, <1>1, PTL

\* A stored submission is lost only for one of the reasons that LossNeedsCause
\* names (the gap between SELECT and DELETE, overlapping workers, Redis).
THEOREM LossExplained == Spec => []LossNeedsCause
<1>1. IInv => LossNeedsCause
  BY DEF IInv, LossesExplained
<1> QED
  BY Invariance, <1>1, PTL

\* However submissions and aggregations overlap, _submission_count tells somebody
\* of a quorum that is in the table.
THEOREM QuorumIsNoticed == Spec => []QuorumNoticed
<1>1. IInv => QuorumNoticed
  <2> SUFFICES ASSUME IInv, NEW r \in Rounds,
                      Cardinality(Rows(r)) >= MIN_DEVICES_PER_ROUND
               PROVE  \E u \in Rows(r) : Told(u)
    BY DEF QuorumNoticed, Told
  <2>1. Rows(r) \in SUBSET Rows(r)
    OBVIOUS
  <2> QED
    BY <2>1 DEF IInv, QuorumsNoticed
<1> QED
  BY Invariance, <1>1, PTL

\* Without restarts and Redis faults one worker alone disturbs nothing.
Calm == /\ crashes = 0 /\ redisFaults = 0 /\ overlapped = FALSE

\* What a step of the calm system leaves alone.
LEMMA CalmStep ==
  ASSUME MaxFaults = 0, \A a, b \in Aggregators : a = b, Calm, [Next]_vars
  PROVE  Calm'
<1>1. ~MoreFaults
  BY DEF MoreFaults, Calm
<1>2. \A a \in Aggregators : ~OthersLoaded(a)
  BY DEF OthersLoaded
<1>3. ASSUME NEW a \in Aggregators, SaveWeights(a)
      PROVE  Calm'
  BY <1>1, <1>2, <1>3 DEF SaveWeights, Calm
<1>4. ASSUME NEW a \in Aggregators, LoadWeights(a)
      PROVE  Calm'
  BY <1>1, <1>4 DEF LoadWeights, Calm
<1>5. ASSUME NEW a \in Aggregators, DeleteRound(a)
      PROVE  Calm'
  BY <1>1, <1>5 DEF DeleteRound, Calm
<1>6. CASE UNCHANGED <<crashes, redisFaults, overlapped>>
  BY <1>6 DEF Calm
<1>7. ASSUME NEW u \in Updates, SubmitStep(u)
      PROVE  UNCHANGED <<crashes, redisFaults, overlapped>>
  BY <1>7 DEF SubmitStep, DeletePrevious, InsertUpdate, CountSubmissions, faults
<1>8. ASSUME NEW a \in Aggregators,
             \/ \E r \in Rounds : SelectRound(a, r)
             \/ CommitRound(a)
             \/ DetectDrift(a)
      PROVE  UNCHANGED <<crashes, redisFaults, overlapped>>
  BY <1>8 DEF SelectRound, CommitRound, DetectDrift, faults
<1>9. ASSUME \/ \E a \in Aggregators : AggregationFails(a)
             \/ WeightsExpire \/ Crash
      PROVE  FALSE
  BY <1>1, <1>9 DEF AggregationFails, WeightsExpire, Crash
<1>10. ASSUME UNCHANGED vars
       PROVE  UNCHANGED <<crashes, redisFaults, overlapped>>
  BY <1>10 DEF vars, faults
<1> QED
  BY <1>3, <1>4, <1>5, <1>6, <1>7, <1>8, <1>9, <1>10 DEF Next, AggregateStep

\* A stored submission that left the table was replaced, came while its round
\* was aggregated, or is in the weights once.
AggregatedOnce ==
  \A u \in Updates :
    /\ applied[u] <= 1
    /\ IsStored(u) /\ u \notin table /\ ~Replaced(u) /\ u \notin late =>
         weights # None /\ weights.times[u] = 1

\* With a single worker and no faults run_aggregation adds a submission to the
\* model exactly once, but for those that come between its SELECT and its
\* DELETE: that gap is the one flaw that needs neither overlap nor failure.
THEOREM SingleWorkerOnce ==
  ASSUME Cardinality(Aggregators) = 1, MaxFaults = 0
  PROVE  Spec => []AggregatedOnce
<1>1. \A a, b \in Aggregators : a = b
  BY FS_Singleton, RoundAssumption
<1>2. Init => Calm
  BY DEF Init, Calm
<1>3. Calm /\ [Next]_vars => Calm'
  BY <1>1, CalmStep
<1>4. TypeOK /\ AppliedBound /\ LossNeedsCause /\ Calm => AggregatedOnce
  <2> SUFFICES ASSUME TypeOK, AppliedBound, LossNeedsCause, Calm,
                      NEW u \in Updates
               PROVE  /\ applied[u] <= 1
                      /\ IsStored(u) /\ u \notin table /\ ~Replaced(u)
                           /\ u \notin late =>
                           weights # None /\ weights.times[u] = 1
    BY DEF AggregatedOnce
  <2>1. /\ applied[u] <= 1
        /\ weights # None => weights.times[u] <= applied[u]
    BY DEF AppliedBound, Calm
  <2>2. /\ applied[u] \in Nat
        /\ weights # None => weights.times[u] \in Nat
    BY DEF TypeOK, Weights
  <2>3. IsStored(u) /\ u \notin table /\ ~Replaced(u) /\ u \notin late =>
          weights # None /\ weights.times[u] > 0
    BY DEF LossNeedsCause, Calm
  <2> QED
    BY <2>1, <2>2, <2>3
<1> QED
  BY <1>2, <1>3, <1>4, TypeCorrect, AppliedAtMost, LossExplained, PTL DEF Spec

-----------------------------------------------------------------------------
(* The magnitude detector *)

\* A set of natural numbers has a least member.
LEMMA LeastNumber ==
  ASSUME NEW T \in SUBSET Nat, T # {}
  PROVE  \E m \in T : \A n \in T : ~(n < m)
<1>1. IsWellFoundedOn(OpToRel(<, Nat), Nat)
  BY NatLessThanWellFounded
<1>2. PICK m \in T : \A n \in T : ~(<<n, m>> \in OpToRel(<, Nat))
  BY <1>1, WFMin, Zenon
<1> QED
  BY <1>2 DEF OpToRel

\* A vector's product with itself is not negative, and its length is a number.
LEMMA NormType ==
  ASSUME NEW a \in Seq(Int)
  PROVE  Norm(a) \in Nat
<1> DEFINE x == Dot(a, a)
           f == [i \in DOMAIN a |-> a[i] * a[i]]
           T == {n \in Nat : x < (n + 1) * (n + 1)}
<1>1. x \in Nat
  <2>1. IsFiniteSet(DOMAIN a)
    <3>1. DOMAIN a = 1 .. Len(a) /\ Len(a) \in Nat
      OBVIOUS
    <3> QED
      BY <3>1, FS_Interval
  <2>2. \A i \in DOMAIN a : f[i] \in Nat
    <3> SUFFICES ASSUME NEW i \in DOMAIN a PROVE a[i] * a[i] \in Nat
      OBVIOUS
    <3>1. a[i] \in Int
      OBVIOUS
    <3> QED
      BY <3>1
  <2>3. DOMAIN f = DOMAIN a
    OBVIOUS
  <2>4. SumFunctionOnSet(f, DOMAIN a) \in Nat
    <3> HIDE DEF f
    <3> QED
      BY <2>1, <2>2, SumType
  <2>5. x = SumFunctionOnSet(f, DOMAIN f)
    BY DEF Dot, SumFunction
  <2> QED
    BY <2>3, <2>4, <2>5
<1> HIDE DEF x
<1>2. x \in T
  BY <1>1
<1>3. PICK m \in T : \A n \in T : ~(n < m)
  <2>1. T \in SUBSET Nat /\ T # {}
    BY <1>2
  <2> HIDE DEF T
  <2> QED
    BY <2>1, LeastNumber
<1>4. m \in Nat /\ x < (m + 1) * (m + 1)
  BY <1>3
<1>5. m * m <= x
  <2>1. CASE m = 0
    BY <1>1, <2>1
  <2>2. CASE m # 0
    <3>1. m - 1 \in Nat /\ m - 1 < m /\ (m - 1) + 1 = m
      BY <1>4, <2>2
    <3>2. m - 1 \notin T
      BY <1>3, <3>1
    <3>3. ~(x < m * m)
      BY <3>1, <3>2
    <3>4. m * m \in Nat
      BY <1>4
    <3> QED
      BY <1>1, <3>3, <3>4
  <2> QED
    BY <2>1, <2>2
<1>6. m <= x
  <2>1. m <= m * m
    BY <1>4
  <2>2. m * m \in Nat
    BY <1>4
  <2> QED
    BY <1>1, <1>4, <1>5, <2>1, <2>2
<1>7. \E n \in 0 .. x : n * n <= x /\ x < (n + 1) * (n + 1)
  BY <1>1, <1>4, <1>5, <1>6
<1>8. Norm(a) \in 0 .. x
  BY <1>7 DEF Norm, x
<1> QED
  BY <1>1, <1>8

\* Of at most three natural numbers none is more than their sum.
LEMMA OwnShare ==
  ASSUME NEW D, IsFiniteSet(D), Cardinality(D) <= 3, NEW f,
         \A e \in D : f[e] \in Nat, NEW d \in D
  PROVE  ~(f[d] * Cardinality(D) > 3 * SumFunctionOnSet(f, D))
<1> DEFINE n == Cardinality(D)
           s == SumFunctionOnSet(f, D)
           r == SumFunctionOnSet(f, D \ {d})
<1>1. n \in Nat /\ n <= 3
  BY FS_CardinalityType
<1>2. s = f[d] + r
  BY SumSplit
<1>3. r \in Nat
  BY FS_RemoveElement, SumType
<1>4. f[d] \in Nat
  OBVIOUS
<1> HIDE DEF n, s, r
<1>5. f[d] * n <= f[d] * 3
  BY <1>1, <1>4
<1>6. f[d] * n \in Nat
  BY <1>1, <1>4
<1> QED
  BY <1>2, <1>3, <1>4, <1>5, <1>6 DEF n, s

\* The devices of a worker's rows are finitely many.
LEMMA DevicesFinite ==
  ASSUME NEW S \in SUBSET Updates
  PROVE  IsFiniteSet(DevicesOf(S))
<1> DEFINE f == [u \in S |-> DeviceOf[u]]
<1>1. IsFiniteSet(S)
  BY FS_Subset, RoundAssumption
<1>2. f \in Surjection(S, DevicesOf(S))
  BY DEF Surjection, DevicesOf
<1> QED
  BY <1>1, <1>2, FS_Surjection

\* What a report of run_drift_detection on a round of three can say.
LEMMA ReportOfThree ==
  ASSUME TypeOK, NEW a \in Aggregators, NEW fired \in Evaluations(a),
         Cardinality(DOMAIN fired) <= 3, NEW d \in DOMAIN fired
  PROVE  fired[d] \subseteq {"cosine", "sign"}
<1> DEFINE rows == Rows(aggs[a].round)
<1>1. rows \in SUBSET Updates
  BY DEF Rows, TypeOK
<1>2. PICK pick \in RowPerDevice(rows) : fired = Reports(pick)
  BY DEF Evaluations
<1> DEFINE D      == DOMAIN pick
           deltas == [e \in D |-> DeltaOf[pick[e]]]
           f      == [e \in D |-> Norm(deltas[e])]
<1>3. pick \in [DevicesOf(rows) -> rows]
  BY <1>2 DEF RowPerDevice
<1>4. D = DevicesOf(rows) /\ IsFiniteSet(D)
  BY <1>1, <1>3, DevicesFinite
<1>5. DOMAIN fired = D /\ fired[d] = DetectorsFired(d, deltas)
  BY <1>2 DEF Reports
<1>6. \A e \in D : f[e] \in Nat
  <2> SUFFICES ASSUME NEW e \in D PROVE Norm(deltas[e]) \in Nat
    OBVIOUS
  <2>1. deltas[e] \in Seq(Int)
    BY <1>1, <1>3, RoundAssumption
  <2> QED
    BY <2>1, NormType
<1>7. DOMAIN deltas = D /\ DOMAIN f = D /\ d \in D /\ f[d] = Norm(deltas[d])
  BY <1>5
<1>8. ~MagnitudeFires(d, deltas)
  <2>1. ~(f[d] * Cardinality(D) > 3 * SumFunctionOnSet(f, D))
    <3> HIDE DEF f, D
    <3> QED
      BY <1>4, <1>5, <1>6, <1>7, OwnShare
  <2>2. MagnitudeFires(d, deltas)
          <=> Norm(deltas[d]) * Cardinality(D) > 3 * SumFunction(f)
    BY <1>7 DEF MagnitudeFires
  <2> QED
    BY <1>7, <2>1, <2>2 DEF SumFunction
<1> QED
  BY <1>5, <1>8 DEF DetectorsFired

\* In a round of up to three devices, however it came about, the magnitude
\* detector stays silent and a flag takes both other detectors.
THEOREM MagnitudeSilent == Spec => []MagnitudeNeedsFour
<1>1. TypeOK => MagnitudeNeedsFour
  <2> SUFFICES ASSUME TypeOK, NEW a \in Aggregators,
                      NEW fired \in Evaluations(a),
                      Cardinality(DOMAIN fired) <= 3, NEW d \in DOMAIN fired
               PROVE  /\ "l2" \notin fired[d]
                      /\ Flagged(fired[d]) => fired[d] = {"cosine", "sign"}
    BY DEF MagnitudeNeedsFour
  <2>1. fired[d] \subseteq {"cosine", "sign"}
    BY ReportOfThree
  <2>2. "l2" \notin fired[d]
    BY <2>1
  <2>3. ASSUME fired[d] # {"cosine", "sign"}
        PROVE  ~Flagged(fired[d])
    <3>1. fired[d] = {} \/ fired[d] = {"cosine"} \/ fired[d] = {"sign"}
      BY <2>1, <2>3
    <3>2. Cardinality(fired[d]) = 0 \/ Cardinality(fired[d]) = 1
      BY <3>1, FS_EmptySet, FS_Singleton
    <3> QED
      BY <3>2 DEF Flagged
  <2> QED
    BY <2>2, <2>3
<1> QED
  BY TypeCorrect, <1>1, PTL
=============================================================================
