--------------------------- MODULE FederatedRound ---------------------------
(***************************************************************************)
(* Federated rounds (fl_worker/aggregator.py, drift_detector.py).  Devices *)
(* submit gradient deltas to the table fl_model_updates; a worker          *)
(* aggregates a round into the global weights in Redis, deletes its rows   *)
(* and runs the drift detector.  A coroutine yields at every statement and *)
(* every Redis call.                                                       *)
(*                                                                         *)
(* Row locks of the DELETEs are left out: a DELETE that waits for a row    *)
(* works on the rows that were visible when it started, and which of two   *)
(* DELETEs waits makes no difference to what their transactions leave.     *)
(*                                                                         *)
(* A delta is an array of any shape.  Its shape is the sequence of its     *)
(* dimensions; its elements are listed in order, as flatten does.          *)
(*                                                                         *)
(* fl_worker/models.py is not in the repository; the table is taken from   *)
(* the schema in README.md, which has no constraint on device and round.   *)
(***************************************************************************)
EXTENDS DriftDetector

CONSTANTS Updates,      \* calls of store_gradient_update, one per id
          DeviceOf, RoundOf,            \* their arguments, by id:
          DeltaOf, DimsOf,              \* elements and shape of the delta
          OldShapes,    \* shapes of the weights earlier rounds may have left
          Aggregators,  \* workers that run aggregation and drift detection
          MIN_DEVICES_PER_ROUND,
          MaxFaults,    \* bound on restarts, failed statements and Redis faults
          None

ASSUME RoundAssumption ==
  /\ IsFiniteSet(Updates) /\ IsFiniteSet(Aggregators)
  /\ DOMAIN DeviceOf = Updates /\ DOMAIN RoundOf = Updates
  /\ DeltaOf \in [Updates -> Seq(Int)]
  /\ DimsOf \in [Updates -> Seq(Nat)]
  /\ \A u, w \in Updates :
       DimsOf[u] = DimsOf[w] => Len(DeltaOf[u]) = Len(DeltaOf[w])
  /\ OldShapes \subseteq Seq(Nat)
  /\ MIN_DEVICES_PER_ROUND \in Nat \ {0}
  /\ MaxFaults \in Nat

Rounds       == {RoundOf[u] : u \in Updates}
SameSlot(u, w) == DeviceOf[u] = DeviceOf[w] /\ RoundOf[u] = RoundOf[w]
DevicesOf(S) == {DeviceOf[u] : u \in S}
Shapes(S)    == {DimsOf[u] : u \in S}

-----------------------------------------------------------------------------
(* Shapes in the addition of numpy arrays *)

\* The k-th dimension counted from the last; missing ones count as 1.
Dim(s, k) == IF k <= Len(s) THEN s[Len(s) + 1 - k] ELSE 1

Rank(s, t) == IF Len(s) < Len(t) THEN Len(t) ELSE Len(s)

\* Arrays of the shapes s and t can be added: dimensions are equal or 1.
Compatible(s, t) ==
  \A k \in 1 .. Rank(s, t) :
    Dim(s, k) = Dim(t, k) \/ Dim(s, k) = 1 \/ Dim(t, k) = 1

\* The shape of their sum.
Broadcast(s, t) ==
  LET n == Rank(s, t) IN
    [i \in 1 .. n |-> IF Dim(s, n + 1 - i) = 1 THEN Dim(t, n + 1 - i)
                      ELSE Dim(s, n + 1 - i)]

\* An array of shape s can be added to one of shape t and leaves its shape.
Fits(s, t) ==
  Len(s) <= Len(t) /\ \A k \in 1 .. Len(s) : Dim(s, k) \in {1, Dim(t, k)}

-----------------------------------------------------------------------------
VARIABLES table,      \* ids of the rows of fl_model_updates
          submits,    \* Updates -> place and locals of the call
          aggs,       \* Aggregators -> place and locals of the worker
          weights,    \* fl:global_model:weights, or None
          modelRound, \* fl:global_model:round, or None
          crashes,    \* restarts and failed statements so far
          redisFaults, \* Redis calls that failed and weights that expired
          seen,       \* history: the rows of its slot a submission's DELETE saw
          late,       \* history: rows stored while an aggregation of their
                      \* round was between SELECT and DELETE
          applied,    \* history: how often a row was saved into the weights
          overlapped  \* history: weights were saved that another worker had
                      \* loaded to add to

faults == <<crashes, redisFaults>>
vars   == <<table, submits, aggs, weights, modelRound, faults, seen, late,
            applied, overlapped>>

\* The shape of the weights, and how often each delta was added to them.
Weights == [shape : Seq(Nat), times : [Updates -> Nat]]

Submit == [pc : {"new", "count", "failed", "unanswered"}]
            \cup [pc : {"insert"}, old : SUBSET Updates]
            \cup [pc : {"answered"}, quorum : BOOLEAN]

Aggregator ==
  [pc : {"idle"}]
    \cup [pc : {"load", "delete"}, round : Rounds, rows : SUBSET Updates]
    \cup [pc : {"save"}, round : Rounds, rows : SUBSET Updates, base : Weights]
    \cup [pc : {"commit"}, round : Rounds, rows : SUBSET Updates,
          doomed : SUBSET Updates]
    \cup [pc : {"drift"}, round : Rounds, rows : SUBSET Updates]

Rows(r) == {u \in table : RoundOf[u] = r}

ASSUME NoneAssumption == None \notin Weights /\ None \notin Rounds

\* Weights of shape s that hold nothing of these updates.
Zeros(s) == [shape |-> s, times |-> [u \in Updates |-> 0]]

\* Earlier rounds may have left weights.
Init ==
  /\ table = {}
  /\ submits = [u \in Updates |-> [pc |-> "new"]]
  /\ aggs = [a \in Aggregators |-> [pc |-> "idle"]]
  /\ weights \in {None} \cup {Zeros(s) : s \in OldShapes}
  /\ modelRound = None
  /\ crashes = 0 /\ redisFaults = 0
  /\ seen = [u \in Updates |-> {}]
  /\ late = {}
  /\ applied = [u \in Updates |-> 0]
  /\ overlapped = FALSE

MoreFaults == crashes + redisFaults < MaxFaults

SubmitGoto(u, s) == submits' = [submits EXCEPT ![u] = s]
Goto(a, s)       == aggs' = [aggs EXCEPT ![a] = s]

-----------------------------------------------------------------------------
(* store_gradient_update *)

\* The DELETE of the "upsert".
DeletePrevious(u) ==
  /\ submits[u].pc = "new"
  /\ LET old == {w \in table : SameSlot(u, w)} IN
       /\ SubmitGoto(u, [pc |-> "insert", old |-> old])
       /\ seen' = [seen EXCEPT ![u] = old]
  /\ UNCHANGED <<table, aggs, weights, modelRound, faults, late, applied,
                 overlapped>>

Selecting(a, r) ==
  aggs[a].pc \in {"load", "save", "delete"} /\ aggs[a].round = r

\* Faulty variant: the old row is not deleted.
InsertOnly(u) == table \cup {u}

Stored(u) == (table \ submits[u].old) \cup {u}

\* INSERT and commit.
InsertUpdate(u) ==
  /\ submits[u].pc = "insert"
  /\ table' = Stored(u)
  /\ late' = IF \E a \in Aggregators : Selecting(a, RoundOf[u])
             THEN late \cup {u} ELSE late
  /\ SubmitGoto(u, [pc |-> "count"])
  /\ UNCHANGED <<aggs, weights, modelRound, faults, seen, applied, overlapped>>

\* Faulty variant: quorum is reported only when it is exceeded.
QuorumExceeded(r) == Cardinality(Rows(r)) > MIN_DEVICES_PER_ROUND

QuorumReached(r) == Cardinality(Rows(r)) >= MIN_DEVICES_PER_ROUND

\* _submission_count and the answer.
CountSubmissions(u) ==
  /\ submits[u].pc = "count"
  /\ SubmitGoto(u, [pc |-> "answered", quorum |-> QuorumReached(RoundOf[u])])
  /\ UNCHANGED <<table, aggs, weights, modelRound, faults, seen, late, applied,
                 overlapped>>

-----------------------------------------------------------------------------
(* run_aggregation *)

\* Faulty variant: shapes are not compared.
AnyShapes(rows) == FALSE

ShapesDiffer(rows) == Cardinality(Shapes(rows)) > 1

\* The SELECT.  Below quorum, and when shapes differ, the function returns and
\* the rows stay.
SelectRound(a, r) ==
  /\ aggs[a].pc = "idle"
  /\ LET rows == Rows(r) IN
       Goto(a, IF Cardinality(rows) < MIN_DEVICES_PER_ROUND
                    \/ ShapesDiffer(rows)
               THEN [pc |-> "drift", round |-> r, rows |-> {}]
               ELSE [pc |-> "load", round |-> r, rows |-> rows])
  /\ UNCHANGED <<table, submits, weights, modelRound, faults, seen, late,
                 applied, overlapped>>

\* The shape of rows that do not differ, and of their mean.
ShapeOf(rows) == CHOOSE s \in Shapes(rows) : TRUE

\* _load_global_weights: get_raw returns None for a missing or expired key and
\* for every error, and None means zeros.  Weights of another shape are added
\* to if numpy can broadcast the two; if not, ValueError ends the call.
LoadWeights(a) ==
  /\ aggs[a].pc = "load"
  /\ \E failed \in (IF MoreFaults THEN {0, 1} ELSE {0}) :
       LET mean == ShapeOf(aggs[a].rows)
           base == IF weights = None \/ failed = 1 THEN Zeros(mean) ELSE weights
       IN  /\ redisFaults' = redisFaults + failed
           /\ Goto(a, IF Compatible(base.shape, mean)
                      THEN [pc |-> "save", round |-> aggs[a].round,
                            rows |-> aggs[a].rows, base |-> base]
                      ELSE [pc |-> "idle"])
  /\ UNCHANGED <<table, submits, weights, modelRound, crashes, seen, late,
                 applied, overlapped>>

AddedOnce(times, rows) ==
  [u \in Updates |-> IF u \in rows THEN times[u] + 1 ELSE times[u]]

\* Faulty variant: one delta is left out of the mean.
AveragedButOne(base, rows) ==
  [base EXCEPT !.times = AddedOnce(@, rows \ {CHOOSE u \in rows : TRUE})]

\* current_weights + averaged_delta
Averaged(base, rows) ==
  [shape |-> Broadcast(base.shape, ShapeOf(rows)),
   times |-> AddedOnce(base.times, rows)]

\* Somebody else has loaded weights that are about to be outdated.
OthersLoaded(a) == \E b \in Aggregators \ {a} : aggs[b].pc = "save"

\* set_raw, which swallows every error.
SaveWeights(a) ==
  /\ aggs[a].pc = "save"
  /\ \/ /\ weights' = Averaged(aggs[a].base, aggs[a].rows)
        /\ applied' = AddedOnce(applied, aggs[a].rows)
        /\ overlapped' = (overlapped \/ OthersLoaded(a))
        /\ UNCHANGED redisFaults
     \/ /\ MoreFaults
        /\ redisFaults' = redisFaults + 1
        /\ UNCHANGED <<weights, applied, overlapped>>
  /\ Goto(a, [pc |-> "delete", round |-> aggs[a].round,
              rows |-> aggs[a].rows])
  /\ UNCHANGED <<table, submits, modelRound, crashes, seen, late>>

\* Set the round key, if Redis answers, and DELETE the round's rows.
DeleteRound(a) ==
  /\ aggs[a].pc = "delete"
  /\ \/ /\ modelRound' = aggs[a].round
        /\ UNCHANGED redisFaults
     \/ /\ MoreFaults
        /\ redisFaults' = redisFaults + 1
        /\ UNCHANGED modelRound
  /\ Goto(a, [pc |-> "commit", round |-> aggs[a].round, rows |-> aggs[a].rows,
              doomed |-> Rows(aggs[a].round)])
  /\ UNCHANGED <<table, submits, weights, crashes, seen, late, applied, overlapped>>

\* Faulty variant: the transaction is never committed.
KeptRows(a) == table

RemainingRows(a) == table \ aggs[a].doomed

CommitRound(a) ==
  /\ aggs[a].pc = "commit"
  /\ table' = RemainingRows(a)
  /\ Goto(a, [pc |-> "drift", round |-> aggs[a].round, rows |-> aggs[a].rows])
  /\ UNCHANGED <<submits, weights, modelRound, faults, seen, late, applied,
                 overlapped>>

-----------------------------------------------------------------------------
(* run_drift_detection, which follows when run_aggregation returned *)

\* One row per device: of several, the one the SELECT returns last.
RowPerDevice(rows) ==
  {pick \in [DevicesOf(rows) -> rows] :
     \A d \in DevicesOf(rows) : DeviceOf[pick[d]] = d}

\* The detectors fired per device, for two devices or more.
Reports(pick) ==
  LET deltas == [d \in DOMAIN pick |-> DeltaOf[pick[d]]] IN
    IF Cardinality(DOMAIN pick) < 2 THEN [d \in {} |-> {}]
    ELSE [d \in DOMAIN pick |-> DetectorsFired(d, deltas)]

\* The reports the worker's next SELECT may lead to; none when np.stack raises
\* ValueError on deltas of different shapes.
Evaluations(a) ==
  {Reports(pick) : pick \in {p \in RowPerDevice(Rows(aggs[a].round)) :
                               Cardinality(Shapes(Range(p))) <= 1}}

\* The reports go to the caller.  A flagged device leaves no trace:
\* flag_anomalous_device sets a dict, which RedisClient.set drops.
DetectDrift(a) ==
  /\ aggs[a].pc = "drift"
  /\ Goto(a, [pc |-> "idle"])
  /\ UNCHANGED <<table, submits, weights, modelRound, faults, seen, late,
                 applied, overlapped>>

-----------------------------------------------------------------------------
(* Failures *)

\* MODEL_TTL_SECONDS after the last save.
WeightsExpire ==
  /\ MoreFaults
  /\ weights # None
  /\ weights' = None /\ modelRound' = None
  /\ redisFaults' = redisFaults + 1
  /\ UNCHANGED <<table, submits, aggs, crashes, seen, late, applied,
                 overlapped>>

\* What a device that gets no answer leaves behind.
Broken(s) == CASE s.pc = "insert" -> [pc |-> "failed"]
               [] s.pc = "count"  -> [pc |-> "unanswered"]
               [] OTHER           -> s

\* A statement of a worker fails and its transaction is rolled back.
AggregationFails(a) ==
  /\ MoreFaults
  /\ aggs[a].pc \in {"delete", "commit", "drift"}
  /\ crashes' = crashes + 1
  /\ Goto(a, [pc |-> "idle"])
  /\ UNCHANGED <<table, submits, weights, modelRound, redisFaults, seen, late, applied,
                 overlapped>>

Crash ==
  /\ MoreFaults
  /\ crashes' = crashes + 1
  /\ aggs' = [a \in Aggregators |-> [pc |-> "idle"]]
  /\ submits' = [u \in Updates |-> Broken(submits[u])]
  /\ UNCHANGED <<table, weights, modelRound, redisFaults, seen, late, applied, overlapped>>

SubmitStep(u) == DeletePrevious(u) \/ InsertUpdate(u) \/ CountSubmissions(u)

AggregateStep(a) ==
  \/ \E r \in Rounds : SelectRound(a, r)
  \/ LoadWeights(a)
  \/ SaveWeights(a)
  \/ DeleteRound(a)
  \/ CommitRound(a)
  \/ DetectDrift(a)

Next ==
  \/ \E u \in Updates : SubmitStep(u)
  \/ \E a \in Aggregators : AggregateStep(a) \/ AggregationFails(a)
  \/ WeightsExpire
  \/ Crash

Spec == Init /\ [][Next]_vars

-----------------------------------------------------------------------------
(* Properties *)

\* Calls have the locals their place in the code needs, and every delta in the
\* weights fits them: adding numpy arrays may widen the weights, but never to a
\* shape that no longer holds what was added before.
TypeOK ==
  /\ table \subseteq Updates
  /\ submits \in [Updates -> Submit]
  /\ aggs \in [Aggregators -> Aggregator]
  /\ weights \in Weights \cup {None}
  /\ weights # None =>
       \A u \in Updates : weights.times[u] > 0 => Fits(DimsOf[u], weights.shape)
  /\ modelRound \in Rounds \cup {None}
  /\ crashes \in Nat /\ redisFaults \in Nat
  /\ seen \in [Updates -> SUBSET Updates]
  /\ late \subseteq Updates
  /\ applied \in [Updates -> Nat] /\ overlapped \in BOOLEAN

\* "Overwrites any previous submission from the same device in the same
\* round": neither the table nor an aggregation has two submissions of a
\* device unless they overlapped, neither being stored when the other began.
Overlapped(u, w) == u \notin seen[w] /\ w \notin seen[u]

RetryReplaces ==
  \A S \in {table} \cup {aggs[a].rows : a \in {b \in Aggregators :
                                                 aggs[b].pc # "idle"}} :
    \A u, w \in S : u # w /\ SameSlot(u, w) => Overlapped(u, w)

\* Saving the weights in Redis and deleting the rows in Postgres are not one
\* transaction, so a row may be aggregated more than once, but at most once
\* per worker and once more per worker for every fault.
AppliedBound ==
  \A u \in Updates :
    /\ applied[u] <= Cardinality(Aggregators) * (1 + crashes)
    /\ weights # None => weights.times[u] <= applied[u]

IsStored(u) == submits[u].pc \in {"count", "answered", "unanswered"}
Replaced(u) == \E w \in Updates : IsStored(w) /\ u \in seen[w]

\* A stored submission leaves the table only for a newer one of its device or
\* for the model, unless it came in while its round was being aggregated, two
\* aggregations overlapped, or Redis failed or expired the weights.
LossNeedsCause ==
  \A u \in Updates :
    IsStored(u) /\ u \notin table /\ ~Replaced(u) =>
      u \in late \/ overlapped \/ redisFaults > 0
        \/ (weights # None /\ weights.times[u] > 0)

\* When a round has its quorum somebody is told: of its rows there is one whose
\* submitter has been, unless that answer is under way or lost.
QuorumNoticed ==
  \A r \in Rounds : Cardinality(Rows(r)) >= MIN_DEVICES_PER_ROUND =>
    \E u \in Rows(r) : \/ submits[u].pc \in {"count", "unanswered"}
                       \/ submits[u].pc = "answered" /\ submits[u].quorum

\* The mean norm includes the device's own, so no device of three is three
\* times the mean: in a round of the minimal size the magnitude detector never
\* fires, and a flag takes both others.
MagnitudeNeedsFour ==
  \A a \in {b \in Aggregators : aggs[b].pc = "drift"} :
    \A fired \in Evaluations(a) : Cardinality(DOMAIN fired) <= 3 =>
      \A d \in DOMAIN fired :
        /\ "l2" \notin fired[d]
        /\ Flagged(fired[d]) => fired[d] = {"cosine", "sign"}

\* "Drift detector is triggered on the same round's deltas": every device that
\* was aggregated is evaluated.
DriftCoversRound ==
  \A a \in {b \in Aggregators : aggs[b].pc = "drift"} :
    \A fired \in Evaluations(a) : DevicesOf(aggs[a].rows) \subseteq DOMAIN fired
=============================================================================
