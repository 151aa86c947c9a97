------------------------- MODULE UsageSession_proofs -------------------------
(***************************************************************************)
(* For every budget, category, time and set of durations: however a        *)
(* session is cut into reports it is never overcharged, nor undercharged   *)
(* by more than a fraction of a second per report, and spending never      *)
(* makes a verdict milder.                                                 *)
(***************************************************************************)
EXTENDS UsageSession, TLAPS

IInv == TypeOK /\ NeverOvercharged /\ UnderchargeBounded

-----------------------------------------------------------------------------
(* Operators *)

\* The weights that CATEGORY_WEIGHT.get can return.
LEMMA WeightValues == ASSUME NEW g PROVE Weight(g) \in {5, 8, 10, 12, 15}
BY DEF Weight, CATEGORY_WEIGHT

\* int(raw * weight) truncates: the cost is a natural number that is not
\* above the weighted duration, and less than a second below it.
LEMMA CostRoundsDown ==
  ASSUME NEW g, NEW r \in Nat
  PROVE  /\ effective_cost(g, r) \in Nat
         /\ 10 * effective_cost(g, r) <= Weight(g) * r
         /\ Weight(g) * r <= 10 * effective_cost(g, r) + 9
<1>1. Weight(g) \in {5, 8, 10, 12, 15}
  BY WeightValues
<1> DEFINE p == r * Weight(g)
<1>2. p \in Nat /\ p = Weight(g) * r
  BY <1>1
<1> HIDE DEF p
<1>3. p \div 10 \in Nat /\ 10 * (p \div 10) <= p /\ p <= 10 * (p \div 10) + 9
  BY <1>2
<1> QED
  BY <1>2, <1>3 DEF effective_cost, p

\* What is left cannot grow by spending.
LEMMA RemainingFalls ==
  ASSUME NEW u \in Nat, NEW v \in Nat, u <= v
  PROVE  /\ Remaining(u) \in Nat /\ Remaining(v) \in Nat
         /\ Remaining(v) <= Remaining(u)
BY SessionAssumption DEF Remaining

\* evaluate_rules on two contexts that differ only in what is left.
LEMMA VerdictMonotone ==
  ASSUME NEW g, NEW r \in Nat, NEW t \in Nat,
         NEW m \in Nat, NEW n \in Nat, n <= m
  PROVE  Severity(evaluate_rules([category |-> g, raw |-> r,
                                  remaining |-> m, time |-> t]))
           <= Severity(evaluate_rules([category |-> g, raw |-> r,
                                       remaining |-> n, time |-> t]))
<1> DEFINE a == [category |-> g, raw |-> r, remaining |-> m, time |-> t]
           b == [category |-> g, raw |-> r, remaining |-> n, time |-> t]
<1>0. effective_cost(g, r) \in Nat
  BY CostRoundsDown
<1>1. rule_bedtime_block(a) <=> rule_bedtime_block(b)
  BY DEF rule_bedtime_block
<1>2. rule_focus_hours(a) <=> rule_focus_hours(b)
  BY DEF rule_focus_hours
<1>3. rule_budget_exhausted(a) => rule_budget_exhausted(b)
  BY DEF rule_budget_exhausted, BLOCK_THRESHOLD_SECONDS
<1>4. rule_budget_warning(a) =>
        rule_budget_exhausted(b) \/ rule_budget_warning(b)
  BY DEF rule_budget_warning, rule_budget_exhausted, BLOCK_THRESHOLD_SECONDS,
         WARN_THRESHOLD_SECONDS
<1>5. rule_high_cost_category(a) =>
        rule_budget_exhausted(b) \/ rule_high_cost_category(b)
  BY <1>0 DEF rule_high_cost_category, rule_budget_exhausted,
              BLOCK_THRESHOLD_SECONDS
<1> HIDE DEF a, b
<1>6. Severity(evaluate_rules(a)) <= Severity(evaluate_rules(b))
  <2>1. /\ Severity("block") = 2 /\ Severity("warn") = 1 /\ Severity("allow") = 0
    BY DEF Severity
  <2>2. evaluate_rules(a) = "block" => evaluate_rules(b) = "block"
    BY <1>1, <1>2, <1>3 DEF evaluate_rules
  <2>3. evaluate_rules(a) = "warn" => evaluate_rules(b) \in {"warn", "block"}
    BY <1>1, <1>2, <1>3, <1>4, <1>5 DEF evaluate_rules
  <2>4. /\ evaluate_rules(a) \in {"block", "warn", "allow"}
        /\ evaluate_rules(b) \in {"block", "warn", "allow"}
    BY DEF evaluate_rules
  <2> QED
    BY <2>1, <2>2, <2>3, <2>4
<1> QED
  BY <1>6 DEF a, b

-----------------------------------------------------------------------------
(* The session *)

\* The total charged is a natural number between the two bounds.
LEMMA InvariantStep ==
  ASSUME IInv, [Next]_vars
  PROVE  IInv'
<1> USE SessionAssumption DEF IInv
<1>1. ASSUME Report
      PROVE  IInv'
  <2> DEFINE cost == effective_cost(category, raw)
             w    == Weight(category)
  <2>1. /\ raw \in Nat /\ used \in Nat /\ screen \in Nat /\ reports \in Nat
        /\ 10 * used <= w * screen
        /\ w * screen <= 10 * used + 9 * reports
    BY DEF TypeOK, NeverOvercharged, UnderchargeBounded
  <2>2. cost \in Nat /\ 10 * cost <= w * raw /\ w * raw <= 10 * cost + 9
    BY <2>1, CostRoundsDown
  <2>3. w \in {5, 8, 10, 12, 15}
    BY WeightValues
  <2>4. /\ used' = used + cost /\ screen' = screen + raw
        /\ reports' = reports + 1
        /\ UNCHANGED <<category, time, raw>>
    BY <1>1 DEF Report
  <2> HIDE DEF cost, w
  <2>5. /\ 10 * (used + cost) <= w * (screen + raw)
        /\ w * (screen + raw) <= 10 * (used + cost) + 9 * (reports + 1)
    BY <2>1, <2>2, <2>3
  <2>6. TypeOK'
    BY <2>1, <2>2, <2>4 DEF TypeOK
  <2> QED
    BY <2>4, <2>5, <2>6 DEF NeverOvercharged, UnderchargeBounded, w
<1>2. ASSUME ChangeDuration
      PROVE  IInv'
  BY <1>2 DEF ChangeDuration, TypeOK, NeverOvercharged, UnderchargeBounded
<1>3. CASE UNCHANGED vars
  BY <1>3 DEF vars, TypeOK, NeverOvercharged, UnderchargeBounded
<1> QED
  BY <1>1, <1>2, <1>3 DEF Next

\* The invariant holds throughout.
LEMMA Invariance == Spec => []IInv
<1>1. ASSUME Init
      PROVE  IInv
  <2>1. Weight(category) \in {5, 8, 10, 12, 15}
    BY WeightValues
  <2> QED
    BY <1>1, <2>1
    DEF Init, IInv, TypeOK, NeverOvercharged, UnderchargeBounded
<1>2. IInv /\ [Next]_vars => IInv'
  BY InvariantStep
<1> QED
  BY <1>1, <1>2, PTL DEF Spec

\* effective_cost's truncation is in the user's favour over a whole session,
\* however it is cut into reports.
THEOREM SessionNeverOvercharged == Spec => []NeverOvercharged
<1>1. IInv => NeverOvercharged
  BY DEF IInv
<1> QED
  BY Invariance, <1>1, PTL

\* ... and never by as much as a second per report.
THEOREM SessionNotUndercharged == Spec => []UnderchargeBounded
<1>1. IInv => UnderchargeBounded
  BY DEF IInv
<1> QED
  BY Invariance, <1>1, PTL

\* Spending never makes evaluate_rules milder on the same report.
THEOREM StricterOnly == Spec => VerdictOnlyStricter
<1>1. Init => TypeOK
  BY DEF Init, TypeOK
<1>2. TypeOK /\ [Next]_vars => TypeOK'
  <2>1. ASSUME TypeOK, Report
        PROVE  TypeOK'
    BY <2>1, CostRoundsDown, SessionAssumption DEF Report, TypeOK
  <2>2. ASSUME TypeOK, ChangeDuration \/ UNCHANGED vars
        PROVE  TypeOK'
    BY <2>2 DEF ChangeDuration, vars, TypeOK
  <2> QED
    BY <2>1, <2>2 DEF Next
<1>3. TypeOK /\ [Next]_vars =>
        [raw' = raw =>
           Severity(evaluate_rules(Context(used)))
             <= Severity(evaluate_rules(Context(used)'))]_vars
  <2> SUFFICES ASSUME TypeOK, [Next]_vars, raw' = raw
               PROVE  Severity(evaluate_rules(Context(used)))
                        <= Severity(evaluate_rules(Context(used)'))
    OBVIOUS
  <2>1. /\ used \in Nat /\ used' \in Nat /\ used <= used'
        /\ UNCHANGED <<category, time, raw>>
    BY CostRoundsDown, SessionAssumption
    DEF Next, Report, ChangeDuration, vars, TypeOK
  <2>2. raw \in Nat /\ time \in Nat
    BY SessionAssumption DEF TypeOK
  <2>3. /\ Remaining(used) \in Nat /\ Remaining(used') \in Nat
        /\ Remaining(used') <= Remaining(used)
    BY <2>1, RemainingFalls
  <2>4. /\ Context(used) = [category |-> category, raw |-> raw,
                            remaining |-> Remaining(used), time |-> time]
        /\ Context(used)' = [category |-> category, raw |-> raw,
                             remaining |-> Remaining(used'), time |-> time]
    BY <2>1 DEF Context, Remaining
  <2> QED
    BY <2>2, <2>3, <2>4, VerdictMonotone
<1> QED
  BY <1>1, <1>2, <1>3, PTL DEF Spec, VerdictOnlyStricter
=============================================================================
