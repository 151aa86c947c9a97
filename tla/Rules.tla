------------------------------- MODULE Rules -------------------------------
(***************************************************************************)
(* The rule engine (decision_engine/rules.py), as operators.  A time of    *)
(* day is in minutes, a weight in tenths; the windows and thresholds are   *)
(* those of the source.  int(n * weight) and the comparison of a ratio     *)
(* with 0.20 are exact in integers for every duration of a day.            *)
(***************************************************************************)
EXTENDS Integers

BEDTIME_START == 22 * 60
BEDTIME_END   == 6 * 60
FOCUS_START   == 9 * 60
FOCUS_END     == 12 * 60

WARN_THRESHOLD_SECONDS  == 600
BLOCK_THRESHOLD_SECONDS == 0

CATEGORY_WEIGHT ==
  [productivity |-> 5, active_social |-> 8, passive_social |-> 10,
   entertainment |-> 12, passive_entertainment |-> 15, unknown |-> 10]

\* CATEGORY_WEIGHT.get(category, 1.0)
Weight(category) ==
  IF category \in DOMAIN CATEGORY_WEIGHT THEN CATEGORY_WEIGHT[category]
  ELSE 10

\* Faulty variant: rounds up.
RoundedUpCost(category, raw) == (raw * Weight(category) + 9) \div 10

\* Faulty variant: truncates before it multiplies.
CostOfWholeTenths(category, raw) == (raw \div 10) * Weight(category)

effective_cost(category, raw) == (raw * Weight(category)) \div 10

\* Bedtime wraps midnight; both windows include both ends.
_is_bedtime(t)     == t >= BEDTIME_START \/ t <= BEDTIME_END
_is_focus_hours(t) == FOCUS_START <= t /\ t <= FOCUS_END

-----------------------------------------------------------------------------
(* A context is a record of category, raw seconds, remaining seconds and   *)
(* time of day.                                                            *)

rule_bedtime_block(ctx) ==
  _is_bedtime(ctx.time) /\ ctx.category # "productivity"

rule_focus_hours(ctx) ==
  /\ _is_focus_hours(ctx.time)
  /\ ctx.category \in {"entertainment", "passive_entertainment",
                       "passive_social"}

\* Faulty variant: a budget never runs out.
NeverExhausted(ctx) == FALSE

rule_budget_exhausted(ctx) == ctx.remaining <= BLOCK_THRESHOLD_SECONDS

rule_budget_warning(ctx) ==
  /\ BLOCK_THRESHOLD_SECONDS < ctx.remaining
  /\ ctx.remaining <= WARN_THRESHOLD_SECONDS

\* Faulty variant: the comparison is turned round.
CheapSession(ctx) ==
  /\ ctx.remaining > 0
  /\ 5 * effective_cost(ctx.category, ctx.raw) < ctx.remaining

rule_high_cost_category(ctx) ==
  /\ ctx.remaining > 0
  /\ 5 * effective_cost(ctx.category, ctx.raw) > ctx.remaining

\* The first rule that fires decides.
evaluate_rules(ctx) ==
  IF rule_bedtime_block(ctx) \/ rule_focus_hours(ctx)
       \/ rule_budget_exhausted(ctx)
  THEN "block"
  ELSE IF rule_budget_warning(ctx) \/ rule_high_cost_category(ctx)
  THEN "warn"
  ELSE "allow"
=============================================================================
