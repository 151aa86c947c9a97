--------------------------- MODULE DriftDetector ---------------------------
(***************************************************************************)
(* The detectors of fl_worker/drift_detector.py, for gradient deltas that  *)
(* are vectors of integers.  The sum of the deltas stands for their mean:  *)
(* direction and signs are the same, and comparisons are multiplied out,   *)
(* so that they are exact for the lengths compared.  A length is a whole   *)
(* number, as the float of the code is one of so many digits.              *)
(***************************************************************************)
EXTENDS Integers, Sequences, FiniteSets, Functions

\* deltas is a function from the devices evaluated to vectors of one length.
Dot(a, b) == SumFunction([i \in DOMAIN a |-> a[i] * b[i]])

\* np.linalg.norm, rounded down to a whole number.
Norm(a) ==
  CHOOSE n \in 0 .. Dot(a, a) :
    n * n <= Dot(a, a) /\ Dot(a, a) < (n + 1) * (n + 1)

SumOfDeltas(deltas) ==
  LET d == CHOOSE d \in DOMAIN deltas : TRUE
  IN  [i \in DOMAIN deltas[d] |->
         SumFunction([e \in DOMAIN deltas |-> deltas[e][i]])]

Sign(n) == IF n > 0 THEN 1 ELSE IF n < 0 THEN -1 ELSE 0

\* _cosine_similarity(...) < COSINE_SIMILARITY_FLOOR (0.70); a zero vector has
\* similarity 1.
CosineFires(delta, sum) ==
  LET dot     == Dot(delta, sum)
      squares == Dot(delta, delta) * Dot(sum, sum)
  IN  squares # 0 /\ (dot < 0 \/ 100 * dot * dot < 49 * squares)

\* Faulty variant: the baseline is the mean norm of the other devices.
MagnitudeAgainstOthers(d, deltas) ==
  Norm(deltas[d]) * (Cardinality(DOMAIN deltas) - 1)
    > 3 * SumFunction([e \in DOMAIN deltas \ {d} |-> Norm(deltas[e])])

\* The norm is more than L2_RATIO_CEILING (3.0) times the mean norm.
MagnitudeFires(d, deltas) ==
  Norm(deltas[d]) * Cardinality(DOMAIN deltas)
    > 3 * SumFunction([e \in DOMAIN deltas |-> Norm(deltas[e])])

\* More than SIGN_FLIP_FLOOR (0.60) of the signs differ; that of 0 differs
\* from both others.
SignFires(delta, sum) ==
  5 * Cardinality({i \in DOMAIN delta : Sign(delta[i]) # Sign(sum[i])})
    > 3 * Len(delta)

DetectorsFired(d, deltas) ==
  LET sum == SumOfDeltas(deltas) IN
    {x \in {"cosine", "l2", "sign"} :
       \/ x = "cosine" /\ CosineFires(deltas[d], sum)
       \/ x = "l2"     /\ MagnitudeFires(d, deltas)
       \/ x = "sign"   /\ SignFires(deltas[d], sum)}

\* VOTE_THRESHOLD detectors fire.
Flagged(fired) == Cardinality(fired) >= 2
=============================================================================
