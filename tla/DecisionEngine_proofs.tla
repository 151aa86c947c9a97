------------------------ MODULE DecisionEngine_proofs ------------------------
(***************************************************************************)
(* For every set of devices, callers, categories and durations: the books  *)
(* of the decision engine balance, lazy initialisation serves the device   *)
(* it was called for, and a budget is overshot by less than one longest    *)
(* report per call in progress.                                            *)
(***************************************************************************)
EXTENDS DecisionEngine, FiniteSetTheorems, TLAPS

\* The call c has read a positive remainder of device d that it has not
\* charged yet.
Armed(c, d) ==
  /\ calls[c].pc \in {"rules", "charge"}
  /\ calls[c].event.device = d
  /\ calls[c].remaining > 0

\* The callers that owe device d nothing.
Free(d) == {c \in Callers : ~Armed(c, d)}

\* A call is let through to the charge only on a positive remainder.
ChargeNeedsTime ==
  \A c \in Callers : calls[c].pc = "charge" => calls[c].remaining > 0

\* Before its row exists, nothing is charged or granted to a device.
NothingBefore ==
  \A d \in Devices : budgets[d] = None => charged[d] = 0 /\ granted[d] = 0

\* A call that initialises on behalf of an event.
Initialising(call) ==
  call.pc \in {"init", "select", "insert", "reread"} /\ call.event # None

\* It does not lose sight of the event's device d, which is registered, then
\* selected, then to get its row, then has it, unless d is removed or another
\* call is faster.
Covered(call, d) ==
  \/ registry[d] = "removed"
  \/ /\ registry[d] = "registered"
     /\ call.pc = "select" => d \in call.devices
     /\ call.pc = "insert" => d \in call.missing \/ budgets[d] # None
     /\ call.pc = "reread" => budgets[d] # None

InitCovers ==
  \A c \in Callers :
    Initialising(calls[c]) => Covered(calls[c], calls[c].event.device)

\* The overshoot is paid for by callers that have charged: each caller that
\* has not leaves one report less.
Reserve ==
  \A g \in Categories, r \in Durations :
    MaxCost(effective_cost(g, r)) =>
      \A d \in Devices : budgets[d] # None =>
        budgets[d].used <
          budgets[d].total + Cardinality(Free(d)) * effective_cost(g, r)

IInv == /\ TypeOK
        /\ ChargeNeedsTime
        /\ NothingBefore
        /\ BooksBalance
        /\ InitCovers

-----------------------------------------------------------------------------
(* Operators *)

\* effective_cost is a whole number of seconds, not below zero.
LEMMA CostType ==
  ASSUME NEW g, NEW r \in Nat
  PROVE  effective_cost(g, r) \in Nat
<1>1. Weight(g) \in Nat
  BY DEF Weight, CATEGORY_WEIGHT
<1>2. r * Weight(g) \in Nat
  BY <1>1
<1> QED
  BY <1>2 DEF effective_cost

\* A fresh row is a row, with time on it.
LEMMA NewRowType ==
  ASSUME NEW d \in Devices
  PROVE  /\ NewRow(d) \in Row
         /\ NewRow(d).used = 0
         /\ NewRow(d).total = _priority_adjusted_budget(Priority[d])
         /\ NewRow(d).total > 0
<1>1. Priority[d] \in 1 .. 10
  BY EngineAssumption
<1>2. /\ _priority_adjusted_budget(Priority[d]) \in Nat
      /\ _priority_adjusted_budget(Priority[d]) > 0
  BY <1>1 DEF _priority_adjusted_budget, DEFAULT_DAILY_BUDGET_SECONDS
<1> QED
  BY <1>2 DEF NewRow, Row

\* remaining_seconds is positive exactly while the row is not exhausted.
LEMMA RemainingType ==
  ASSUME NEW row \in Row
  PROVE  /\ remaining_seconds(row) \in Nat
         /\ remaining_seconds(row) > 0 <=> row.used < row.total
BY DEF remaining_seconds, Row

\* A local is of the shape its program counter says.
LEMMA CallShape ==
  ASSUME NEW l \in Call
  PROVE  /\ l.pc \in {"idle", "init", "select", "insert", "reread", "rules",
                      "charge"}
         /\ l.pc \in {"init", "select", "insert"} => l.event \in Event \cup {None}
         /\ l.pc = "reread" => l.event \in Event
         /\ l.pc = "select" => l.devices \in SUBSET Devices
         /\ l.pc = "insert" => l.missing \in SUBSET Devices
         /\ l.pc \in {"rules", "charge"} => /\ l.event \in Event
                                            /\ l.remaining \in Nat
BY DEF Call

\* The fields of an event.
LEMMA EventType ==
  ASSUME NEW e \in Event
  PROVE  e.device \in Devices /\ e.raw \in Nat /\ e # None
<1>1. Durations \subseteq Nat
  BY EngineAssumption
<1> QED
  BY <1>1, NoneAssumption DEF Event

\* A call let through by the rules had time left.
LEMMA NotBlocked ==
  ASSUME NEW ctx, ctx.remaining \in Nat, evaluate_rules(ctx) # "block"
  PROVE  ctx.remaining > 0
BY DEF evaluate_rules, rule_budget_exhausted, BLOCK_THRESHOLD_SECONDS

-----------------------------------------------------------------------------
(* Type correctness and books *)

\* Every step keeps the type invariant.
LEMMA TypeStep ==
  ASSUME TypeOK, [Next]_vars
  PROVE  TypeOK'
<1>0. [pc |-> "idle"] \in Call
  BY DEF Call
<1>1. ASSUME NEW c \in Callers, NEW e \in Event, ReadBudget(c, e)
      PROVE  TypeOK'
  <2>1. [pc |-> "init", event |-> e] \in Call
    BY DEF Call
  <2>2. budgets[e.device] # None =>
          [pc |-> "rules", event |-> e,
           remaining |-> remaining_seconds(budgets[e.device])] \in Call
    BY EventType, RemainingType DEF TypeOK, Call
  <2> QED
    BY <1>1, <2>1, <2>2 DEF ReadBudget, Goto, TypeOK
<1>2. ASSUME NEW c \in Callers, StartInit(c)
      PROVE  TypeOK'
  <2>1. [pc |-> "init", event |-> None] \in Call
    BY DEF Call
  <2> QED
    BY <1>2, <2>1 DEF StartInit, Goto, TypeOK
<1>2a. ASSUME NEW c \in Callers, InitDevices(c)
       PROVE  TypeOK'
  <2>1. calls[c] \in Call /\ calls[c].pc = "init"
    BY <1>2a DEF InitDevices, TypeOK
  <2>2. calls[c].event \in Event \cup {None}
    BY <2>1, CallShape
  <2>3. [pc |-> "select", event |-> calls[c].event, devices |-> Registered]
          \in Call
    BY <2>2 DEF Call, Registered
  <2> QED
    BY <1>2a, <2>3 DEF InitDevices, Goto, TypeOK
<1>3. ASSUME NEW c \in Callers, InitSelect(c)
      PROVE  TypeOK'
  <2>1. calls[c] \in Call /\ calls[c].pc = "select"
    BY <1>3 DEF InitSelect, TypeOK
  <2>2. calls[c].event \in Event \cup {None} /\ calls[c].devices \in SUBSET Devices
    BY <2>1, CallShape
  <2>3. [pc |-> "insert", event |-> calls[c].event,
         missing |-> {d \in calls[c].devices : budgets[d] = None}] \in Call
    BY <2>2 DEF Call
  <2> QED
    BY <1>3, <2>3 DEF InitSelect, Goto, TypeOK
<1>4. ASSUME NEW c \in Callers, InitCommit(c)
      PROVE  TypeOK'
  <2>1. calls[c] \in Call /\ calls[c].pc = "insert"
    BY <1>4 DEF InitCommit, TypeOK
  <2>2. calls[c].event \in Event \cup {None}
    BY <2>1, CallShape
  <2>3. calls[c].event # None => [pc |-> "reread", event |-> calls[c].event] \in Call
    BY <2>2 DEF Call
  <2>4. RowsAfterInsert(calls[c].missing) \in [Devices -> Row \cup {None}]
    BY NewRowType DEF RowsAfterInsert, TypeOK
  <2> QED
    BY <1>0, <1>4, <2>3, <2>4 DEF InitCommit, Goto, TypeOK
<1>5. ASSUME NEW c \in Callers, Reread(c)
      PROVE  TypeOK'
  <2>1. calls[c] \in Call /\ calls[c].pc = "reread"
    BY <1>5 DEF Reread, TypeOK
  <2>2. calls[c].event \in Event
    BY <2>1, CallShape
  <2> DEFINE row == budgets[calls[c].event.device]
             rem == IF row = None THEN 0 ELSE remaining_seconds(row)
  <2>3. rem \in Nat
    BY <2>2, EventType, RemainingType DEF TypeOK
  <2>4. [pc |-> "rules", event |-> calls[c].event, remaining |-> rem] \in Call
    BY <2>2, <2>3 DEF Call
  <2> QED
    BY <1>5, <2>4 DEF Reread, Goto, TypeOK
<1>6. ASSUME NEW c \in Callers, NEW t \in Times, EvaluateRules(c, t)
      PROVE  TypeOK'
  <2>1. calls[c] \in Call /\ calls[c].pc = "rules"
    BY <1>6 DEF EvaluateRules, TypeOK
  <2>2. [calls[c] EXCEPT !.pc = "charge"] \in Call
    BY <2>1 DEF Call
  <2>3. \/ Goto(c, [pc |-> "idle"])
        \/ Goto(c, [calls[c] EXCEPT !.pc = "charge"])
    BY <1>6, Zenon DEF EvaluateRules
  <2>4. calls' \in [Callers -> Call]
    BY <1>0, <2>2, <2>3 DEF TypeOK, Goto
  <2> QED
    BY <1>6, <2>4 DEF EvaluateRules, TypeOK
<1>7. ASSUME NEW c \in Callers, ChargeUsage(c)
      PROVE  TypeOK'
  <2> DEFINE e == calls[c].event
             d == e.device
             cost == effective_cost(e.category, e.raw)
  <2>1. calls[c] \in Call /\ calls[c].pc = "charge"
    BY <1>7 DEF ChargeUsage, TypeOK
  <2>2. e \in Event /\ d \in Devices /\ cost \in Nat
    BY <2>1, EventType, CallShape, CostType
  <2>3. calls' = [calls EXCEPT ![c] = [pc |-> "idle"]]
    BY <1>7 DEF ChargeUsage, Goto
  <2>4. UNCHANGED <<registry, granted, grants>>
    BY <1>7 DEF ChargeUsage
  <2>5. CASE budgets[d] = None
    <3>1. UNCHANGED <<budgets, charged>>
      BY <1>7, <2>5 DEF ChargeUsage
    <3> QED
      BY <1>0, <2>3, <2>4, <3>1 DEF TypeOK
  <2>6. CASE budgets[d] # None
    <3>1. budgets[d] \in Row
      BY <2>2, <2>6 DEF TypeOK
    <3>2. Charged(budgets[d], cost, calls[c].remaining) \in Row
      BY <2>2, <3>1 DEF Charged, Row
    <3>3. budgets' = [budgets EXCEPT ![d] = Charged(budgets[d], cost, calls[c].remaining)]
      BY <1>7, <2>6 DEF ChargeUsage
    <3>4. charged' = [charged EXCEPT ![d] = @ + cost]
      BY <1>7, <2>6 DEF ChargeUsage
    <3> HIDE DEF d, cost
    <3> QED
      BY <1>0, <2>2, <2>3, <2>4, <3>2, <3>3, <3>4 DEF TypeOK
  <2> QED
    BY <2>5, <2>6
<1>8. ASSUME NEW d \in Devices, NEW s \in ExtraSeconds, GrantExtraTime(d, s)
      PROVE  TypeOK'
  <2>1. s \in Nat
    BY EngineAssumption
  <2>2. budgets[d] # None => Granted(budgets[d], s) \in Row
    BY <2>1 DEF Granted, Row, TypeOK
  <2> QED
    BY <1>8, <2>1, <2>2 DEF GrantExtraTime, TypeOK
<1>9. ASSUME RebalanceBudgets
      PROVE  TypeOK'
  <2>1. \A d \in Devices : budgets[d] # None =>
          [budgets[d] EXCEPT !.rebalanced = TRUE] \in Row
    BY DEF TypeOK, Row
  <2> QED
    BY <1>9, <2>1 DEF RebalanceBudgets, TypeOK
<1>10. CASE UNCHANGED vars
  BY <1>10 DEF vars, TypeOK
<1>11. ASSUME NEW d \in Devices, RegisterDevice(d)
       PROVE  TypeOK'
  BY <1>11 DEF RegisterDevice, TypeOK
<1>12. ASSUME NEW d \in Devices, DeregisterDevice(d)
       PROVE  TypeOK'
  BY <1>12 DEF DeregisterDevice, TypeOK
<1> QED
  BY <1>1, <1>2, <1>2a, <1>3, <1>4, <1>5, <1>6, <1>7, <1>8, <1>9, <1>10,
     <1>11, <1>12
  DEF Next, CallStep

\* What a charge does to a row.
LEMMA ChargeEffect ==
  ASSUME TypeOK, ChargeNeedsTime, NEW c \in Callers, ChargeUsage(c),
         budgets[calls[c].event.device] # None
  PROVE  LET d    == calls[c].event.device
             cost == effective_cost(calls[c].event.category, calls[c].event.raw)
         IN  /\ d \in Devices
             /\ cost \in Nat
             /\ budgets[d] \in Row
             /\ Armed(c, d)
             /\ budgets'[d] \in Row
             /\ budgets'[d].used = budgets[d].used + cost
             /\ budgets'[d].total = budgets[d].total
             /\ charged'[d] = charged[d] + cost
             /\ \A x \in Devices : x # d => /\ budgets'[x] = budgets[x]
                                            /\ charged'[x] = charged[x]
<1> DEFINE d    == calls[c].event.device
           cost == effective_cost(calls[c].event.category, calls[c].event.raw)
           new  == Charged(budgets[d], cost, calls[c].remaining)
<1>1. calls[c] \in Call /\ calls[c].pc = "charge"
  BY DEF ChargeUsage, TypeOK
<1>2. calls[c].event \in Event
  BY <1>1, CallShape
<1>3. d \in Devices /\ cost \in Nat
  BY <1>2, EventType, CostType
<1>4. Armed(c, d)
  BY <1>1 DEF ChargeNeedsTime, Armed
<1>5. budgets[d] \in Row
  BY <1>3 DEF TypeOK
<1>6. /\ new \in Row
      /\ new.used = budgets[d].used + cost
      /\ new.total = budgets[d].total
  BY <1>3, <1>5 DEF Charged, Row
<1>7. /\ budgets' = [budgets EXCEPT ![d] = new]
      /\ charged' = [charged EXCEPT ![d] = charged[d] + cost]
  BY DEF ChargeUsage
<1> HIDE DEF d, cost, new
<1>8. /\ budgets'[d] \in Row
      /\ budgets'[d].used = budgets[d].used + cost
      /\ budgets'[d].total = budgets[d].total
      /\ charged'[d] = charged[d] + cost
      /\ \A x \in Devices : x # d => /\ budgets'[x] = budgets[x]
                                     /\ charged'[x] = charged[x]
  BY <1>3, <1>6, <1>7 DEF TypeOK
<1> QED
  BY <1>3, <1>4, <1>5, <1>8 DEF d, cost

\* A charge leaves a row a row.
LEMMA ChargeKeepsRows ==
  ASSUME TypeOK, ChargeNeedsTime, NEW c \in Callers, ChargeUsage(c),
         NEW d \in Devices
  PROVE  budgets'[d] = None <=> budgets[d] = None
<1>1. CASE budgets[calls[c].event.device] = None
  BY <1>1 DEF ChargeUsage
<1>2. CASE budgets[calls[c].event.device] # None
  BY <1>2, ChargeEffect, NoneAssumption
<1> QED
  BY <1>1, <1>2

\* A device is registered once and removed for good; a row goes only with it.
LEMMA RowsStay ==
  ASSUME TypeOK, ChargeNeedsTime, [Next]_vars, NEW d \in Devices
  PROVE  /\ registry[d] = "removed" => registry'[d] = "removed"
         /\ registry[d] = "registered" => registry'[d] \in {"registered", "removed"}
         /\ budgets[d] # None => budgets'[d] # None \/ registry'[d] = "removed"
<1> USE NoneAssumption
<1> DEFINE Stays == registry' = registry /\ (budgets[d] # None => budgets'[d] # None)
<1>0. Stays => /\ registry[d] = "removed" => registry'[d] = "removed"
               /\ registry[d] = "registered" => registry'[d] \in {"registered", "removed"}
               /\ budgets[d] # None => budgets'[d] # None \/ registry'[d] = "removed"
  OBVIOUS
<1>1. ASSUME NEW c \in Callers, NEW e \in Event, ReadBudget(c, e)
      PROVE  Stays
  BY <1>1 DEF ReadBudget
<1>2. ASSUME NEW c \in Callers,
             StartInit(c) \/ InitDevices(c) \/ InitSelect(c) \/ Reread(c)
      PROVE  Stays
  BY <1>2 DEF StartInit, InitDevices, InitSelect, Reread
<1>3. ASSUME NEW c \in Callers, InitCommit(c)
      PROVE  Stays
  BY <1>3, NewRowType DEF InitCommit, RowsAfterInsert, TypeOK
<1>4. ASSUME NEW c \in Callers, NEW t \in Times, EvaluateRules(c, t)
      PROVE  Stays
  BY <1>4 DEF EvaluateRules
<1>5. ASSUME NEW c \in Callers, ChargeUsage(c)
      PROVE  Stays
  <2>1. registry' = registry
    BY <1>5 DEF ChargeUsage
  <2> QED
    BY <1>5, <2>1, ChargeKeepsRows
<1>6. ASSUME NEW x \in Devices, NEW s \in ExtraSeconds, GrantExtraTime(x, s)
      PROVE  Stays
  <2>1. budgets[x] # None => Granted(budgets[x], s) \in Row
    BY EngineAssumption DEF Granted, Row, TypeOK
  <2> QED
    BY <1>6, <2>1 DEF GrantExtraTime, TypeOK
<1>7. ASSUME RebalanceBudgets
      PROVE  Stays
  <2>1. budgets[d] # None => [budgets[d] EXCEPT !.rebalanced = TRUE] \in Row
    BY DEF TypeOK, Row
  <2> QED
    BY <1>7, <2>1 DEF RebalanceBudgets, TypeOK
<1>8. CASE UNCHANGED vars
  BY <1>0, <1>8 DEF vars
<1>9. ASSUME NEW x \in Devices, RegisterDevice(x) \/ DeregisterDevice(x)
      PROVE  /\ registry[d] = "removed" => registry'[d] = "removed"
             /\ registry[d] = "registered" => registry'[d] \in {"registered", "removed"}
             /\ budgets[d] # None => budgets'[d] # None \/ registry'[d] = "removed"
  BY <1>9 DEF RegisterDevice, DeregisterDevice, TypeOK
<1> HIDE DEF Stays
<1> QED
  BY <1>0, <1>1, <1>2, <1>3, <1>4, <1>5, <1>6, <1>7, <1>8, <1>9 DEF Next, CallStep

\* A step that leaves a call alone leaves it armed or not; a call becomes
\* armed only by reading a row that is not exhausted.
LEMMA ArmedStep ==
  ASSUME TypeOK, [Next]_vars,
         NEW c \in Callers, NEW d \in Devices, Armed(c, d)', ~Armed(c, d)
  PROVE  /\ budgets[d] \in Row
         /\ budgets[d].used < budgets[d].total
         /\ UNCHANGED budgets
<1>1. ASSUME NEW x \in Callers, NEW e \in Event, ReadBudget(x, e)
      PROVE  /\ budgets[d] \in Row
             /\ budgets[d].used < budgets[d].total
             /\ UNCHANGED budgets
  <2>1. x = c
    BY <1>1 DEF ReadBudget, Goto, Armed, TypeOK
  <2>2. e.device \in Devices
    BY EventType
  <2>3. /\ budgets[e.device] # None
        /\ calls'[c] = [pc |-> "rules", event |-> e,
                        remaining |-> remaining_seconds(budgets[e.device])]
    BY <1>1, <2>1 DEF ReadBudget, Goto, Armed, TypeOK
  <2>4. e.device = d /\ remaining_seconds(budgets[d]) > 0
    BY <2>3 DEF Armed
  <2>5. budgets[d] \in Row
    BY <2>3, <2>4 DEF TypeOK
  <2> QED
    BY <1>1, <2>4, <2>5, RemainingType DEF ReadBudget
<1>2. ASSUME NEW x \in Callers, \/ StartInit(x) \/ InitDevices(x)
                                \/ InitSelect(x) \/ InitCommit(x)
      PROVE  FALSE
  BY <1>2 DEF StartInit, InitDevices, InitSelect, InitCommit, Goto, Armed, TypeOK
<1>5. ASSUME NEW x \in Callers, Reread(x)
      PROVE  /\ budgets[d] \in Row
             /\ budgets[d].used < budgets[d].total
             /\ UNCHANGED budgets
  <2> DEFINE e   == calls[x].event
             row == budgets[e.device]
             rem == IF row = None THEN 0 ELSE remaining_seconds(row)
  <2>0. calls' = [calls EXCEPT ![x] = [pc |-> "rules", event |-> e, remaining |-> rem]]
    BY <1>5 DEF Reread, Goto
  <2> HIDE DEF rem
  <2>1. x = c
    BY <2>0 DEF Armed, TypeOK
  <2>2. e \in Event
    BY <1>5, CallShape DEF Reread, TypeOK
  <2>3. calls'[c] = [pc |-> "rules", event |-> e, remaining |-> rem]
    BY <2>0, <2>1 DEF TypeOK
  <2>4. e.device = d /\ rem > 0
    BY <2>3 DEF Armed
  <2>5. row # None /\ remaining_seconds(budgets[d]) > 0
    BY <2>4 DEF rem
  <2>6. budgets[d] \in Row
    BY <2>4, <2>5 DEF TypeOK
  <2> QED
    BY <1>5, <2>5, <2>6, RemainingType DEF Reread
<1>6. ASSUME NEW x \in Callers, NEW t \in Times, EvaluateRules(x, t)
      PROVE  FALSE
  <2>1. \/ Goto(x, [pc |-> "idle"])
        \/ Goto(x, [calls[x] EXCEPT !.pc = "charge"])
    BY <1>6, Zenon DEF EvaluateRules
  <2>2. calls[x] \in Call /\ calls[x].pc = "rules"
    BY <1>6 DEF EvaluateRules, TypeOK
  <2>3. CASE Goto(x, [pc |-> "idle"])
    BY <2>3 DEF Goto, Armed, TypeOK
  <2>4. CASE Goto(x, [calls[x] EXCEPT !.pc = "charge"])
    <3>1. /\ [calls[x] EXCEPT !.pc = "charge"].event = calls[x].event
          /\ [calls[x] EXCEPT !.pc = "charge"].remaining = calls[x].remaining
      BY <2>2 DEF Call
    <3> QED
      BY <2>2, <2>4, <3>1 DEF Goto, Armed, TypeOK
  <2> QED
    BY <2>1, <2>3, <2>4
<1>7. ASSUME NEW x \in Callers, ChargeUsage(x)
      PROVE  FALSE
  BY <1>7 DEF ChargeUsage, Goto, Armed, TypeOK
<1>8. ASSUME NEW x \in Devices, NEW s \in ExtraSeconds, GrantExtraTime(x, s)
      PROVE  FALSE
  BY <1>8 DEF GrantExtraTime, Armed
<1>9. ASSUME RebalanceBudgets
      PROVE  FALSE
  BY <1>9 DEF RebalanceBudgets, Armed
<1>10. ASSUME UNCHANGED vars
       PROVE  FALSE
  BY <1>10 DEF vars, Armed
<1>11. ASSUME NEW x \in Devices, RegisterDevice(x) \/ DeregisterDevice(x)
       PROVE  FALSE
  BY <1>11 DEF RegisterDevice, DeregisterDevice, Armed
<1> QED
  BY <1>1, <1>2, <1>5, <1>6, <1>7, <1>8, <1>9, <1>10, <1>11 DEF Next, CallStep

\* evaluate_rules lets a call through only on time left.
LEMMA ChargeNeedsTimeStep ==
  ASSUME TypeOK, ChargeNeedsTime, [Next]_vars
  PROVE  ChargeNeedsTime'
<1> SUFFICES ASSUME NEW c \in Callers, calls'[c].pc = "charge"
             PROVE  calls'[c].remaining > 0
  BY DEF ChargeNeedsTime
<1>1. ASSUME NEW x \in Callers, NEW e \in Event, ReadBudget(x, e)
      PROVE  calls'[c] = calls[c]
  BY <1>1 DEF ReadBudget, Goto, TypeOK
<1>2. ASSUME NEW x \in Callers, \/ StartInit(x) \/ InitDevices(x)
                                \/ InitSelect(x) \/ InitCommit(x)
      PROVE  calls'[c] = calls[c]
  BY <1>2 DEF StartInit, InitDevices, InitSelect, InitCommit, Goto, TypeOK
<1>3. ASSUME NEW x \in Callers, Reread(x) \/ ChargeUsage(x)
      PROVE  calls'[c] = calls[c]
  BY <1>3 DEF Reread, ChargeUsage, Goto, TypeOK
<1>4. ASSUME NEW x \in Callers, NEW t \in Times, EvaluateRules(x, t)
      PROVE  calls'[c] = calls[c] \/ calls'[c].remaining > 0
  <2> DEFINE ctx == [category |-> calls[x].event.category,
                     raw |-> calls[x].event.raw,
                     remaining |-> calls[x].remaining, time |-> t]
  <2>1. calls[x] \in Call /\ calls[x].pc = "rules"
    BY <1>4 DEF EvaluateRules, TypeOK
  <2>2. \/ Goto(x, [pc |-> "idle"])
        \/ /\ evaluate_rules(ctx) # "block"
           /\ Goto(x, [calls[x] EXCEPT !.pc = "charge"])
    BY <1>4, Zenon DEF EvaluateRules
  <2>3. CASE x # c
    BY <2>2, <2>3 DEF Goto, TypeOK
  <2>4. CASE x = c
    <3>1. /\ evaluate_rules(ctx) # "block"
          /\ calls'[c] = [calls[c] EXCEPT !.pc = "charge"]
      BY <2>2, <2>4 DEF Goto, TypeOK
    <3>2. ctx.remaining = calls[c].remaining /\ ctx.remaining \in Nat
      BY <2>1, <2>4, CallShape
    <3> HIDE DEF ctx
    <3>3. calls[c].remaining > 0
      BY <3>1, <3>2, NotBlocked
    <3>4. [calls[c] EXCEPT !.pc = "charge"].remaining = calls[c].remaining
      BY <2>1, <2>4 DEF Call
    <3> QED
      BY <3>1, <3>3, <3>4
  <2> QED
    BY <2>3, <2>4
<1>5. ASSUME NEW d \in Devices, RegisterDevice(d) \/ DeregisterDevice(d)
      PROVE  calls'[c] = calls[c]
  BY <1>5 DEF RegisterDevice, DeregisterDevice
<1>6. ASSUME NEW d \in Devices, NEW s \in ExtraSeconds, GrantExtraTime(d, s)
      PROVE  calls'[c] = calls[c]
  BY <1>6 DEF GrantExtraTime
<1>7. ASSUME RebalanceBudgets
      PROVE  calls'[c] = calls[c]
  BY <1>7 DEF RebalanceBudgets
<1>8. CASE UNCHANGED vars
  BY <1>8 DEF vars, ChargeNeedsTime
<1>9. calls'[c] = calls[c] => calls'[c].remaining > 0
  BY DEF ChargeNeedsTime
<1> QED
  BY <1>1, <1>2, <1>3, <1>4, <1>5, <1>6, <1>7, <1>8, <1>9 DEF Next, CallStep

\* The parts about the rows, action by action.
LEMMA BooksStep ==
  ASSUME IInv, [Next]_vars
  PROVE  NothingBefore' /\ BooksBalance'
<1> USE NoneAssumption DEF IInv
<1>1. ASSUME UNCHANGED <<budgets, charged, granted>>
      PROVE  NothingBefore' /\ BooksBalance'
  BY <1>1 DEF NothingBefore, BooksBalance
<1>2. ASSUME NEW c \in Callers, InitCommit(c)
      PROVE  NothingBefore' /\ BooksBalance'
  <2> DEFINE missing == calls[c].missing
  <2>1. CASE UNCHANGED budgets
    BY <1>1, <1>2, <2>1 DEF InitCommit
  <2>2. CASE /\ InsertsAllowed(missing)
             /\ budgets' = RowsAfterInsert(missing)
    <3>1. UNCHANGED <<charged, granted>>
      BY <1>2 DEF InitCommit
    <3>2. \A d \in missing \cap Devices :
            budgets[d] = None /\ budgets'[d] = NewRow(d)
      BY <2>2 DEF InsertsAllowed, RowsAfterInsert
    <3>3. \A d \in Devices \ missing : budgets'[d] = budgets[d]
      BY <2>2 DEF RowsAfterInsert
    <3> HIDE DEF missing
    <3>4. \A d \in missing \cap Devices :
            /\ budgets'[d] # None /\ charged'[d] = 0 /\ granted'[d] = 0
            /\ budgets'[d].used = 0
            /\ budgets'[d].total = _priority_adjusted_budget(Priority[d])
            /\ budgets'[d].total \in Nat
      BY <3>1, <3>2, NewRowType DEF NothingBefore, Row
    <3>5. NothingBefore'
      BY <3>1, <3>3, <3>4 DEF NothingBefore
    <3>6. BooksBalance'
      <4> SUFFICES ASSUME NEW d \in Devices, budgets'[d] # None
                   PROVE  /\ budgets'[d].used = charged'[d]
                          /\ budgets'[d].total =
                               _priority_adjusted_budget(Priority[d]) + granted'[d]
        BY DEF BooksBalance
      <4>1. CASE d \in missing
        BY <3>4, <4>1
      <4>2. CASE d \notin missing
        BY <3>1, <3>3, <4>2 DEF BooksBalance
      <4> QED
        BY <4>1, <4>2
    <3> QED
      BY <3>5, <3>6
  <2> QED
    BY <1>2, <2>1, <2>2 DEF InitCommit
<1>3. ASSUME NEW c \in Callers, ChargeUsage(c)
      PROVE  NothingBefore' /\ BooksBalance'
  <2> DEFINE x    == calls[c].event.device
             cost == effective_cost(calls[c].event.category, calls[c].event.raw)
  <2>0. CASE budgets[x] = None
    BY <1>1, <1>3, <2>0 DEF ChargeUsage
  <2> SUFFICES ASSUME budgets[x] # None
               PROVE  NothingBefore' /\ BooksBalance'
    BY <2>0
  <2>1. /\ x \in Devices
        /\ budgets'[x] # None
        /\ budgets'[x].used = budgets[x].used + cost
        /\ budgets'[x].total = budgets[x].total
        /\ charged'[x] = charged[x] + cost
        /\ \A d \in Devices : d # x => /\ budgets'[d] = budgets[d]
                                       /\ charged'[d] = charged[d]
    BY <1>3, ChargeEffect
  <2>2. UNCHANGED granted
    BY <1>3 DEF ChargeUsage
  <2> HIDE DEF x, cost
  <2>3. NothingBefore'
    BY <2>1, <2>2 DEF NothingBefore
  <2>4. BooksBalance'
    BY <2>1, <2>2 DEF BooksBalance
  <2> QED
    BY <2>3, <2>4
<1>4. ASSUME NEW x \in Devices, NEW s \in ExtraSeconds, GrantExtraTime(x, s)
      PROVE  NothingBefore' /\ BooksBalance'
  <2>1. CASE budgets[x] = None
    BY <1>1, <1>4, <2>1 DEF GrantExtraTime
  <2>2. CASE budgets[x] # None
    <3>1. s \in Nat
      BY EngineAssumption
    <3> DEFINE new == Granted(budgets[x], s)
    <3>2. /\ new \in Row
          /\ new.used = budgets[x].used
          /\ new.total = budgets[x].total + s
      BY <2>2, <3>1 DEF Granted, Row, TypeOK
    <3>3. /\ budgets' = [budgets EXCEPT ![x] = new]
          /\ granted' = [granted EXCEPT ![x] = granted[x] + s]
          /\ UNCHANGED charged
      BY <1>4, <2>2 DEF GrantExtraTime
    <3> HIDE DEF new
    <3>4. /\ budgets'[x] # None
          /\ budgets'[x].used = budgets[x].used
          /\ budgets'[x].total = budgets[x].total + s
          /\ granted'[x] = granted[x] + s
          /\ \A d \in Devices : d # x => /\ budgets'[d] = budgets[d]
                                         /\ granted'[d] = granted[d]
      BY <3>2, <3>3 DEF TypeOK
    <3>5. NothingBefore'
      BY <3>3, <3>4 DEF NothingBefore
    <3>6. BooksBalance'
      <4>1. /\ budgets[x].total = _priority_adjusted_budget(Priority[x]) + granted[x]
            /\ budgets[x].used = charged[x]
        BY <2>2 DEF BooksBalance
      <4>2. _priority_adjusted_budget(Priority[x]) \in Int
        BY EngineAssumption DEF _priority_adjusted_budget, DEFAULT_DAILY_BUDGET_SECONDS
      <4>3. budgets'[x].total = _priority_adjusted_budget(Priority[x]) + granted'[x]
        BY <3>1, <3>4, <4>1, <4>2 DEF TypeOK
      <4> QED
        BY <3>3, <3>4, <4>1, <4>3 DEF BooksBalance
    <3> QED
      BY <3>5, <3>6
  <2> QED
    BY <2>1, <2>2
<1>5. ASSUME RebalanceBudgets
      PROVE  NothingBefore' /\ BooksBalance'
  <2>1. UNCHANGED <<charged, granted>>
    BY <1>5 DEF RebalanceBudgets
  <2>2. \A d \in Devices :
          /\ budgets'[d] = None <=> budgets[d] = None
          /\ budgets[d] # None => /\ budgets'[d].used = budgets[d].used
                                  /\ budgets'[d].total = budgets[d].total
    <3>1. \A d \in Devices : budgets[d] # None =>
            LET new == [budgets[d] EXCEPT !.rebalanced = TRUE]
            IN  /\ new \in Row
                /\ new.used = budgets[d].used
                /\ new.total = budgets[d].total
      BY DEF TypeOK, Row
    <3> QED
      BY <1>5, <3>1 DEF RebalanceBudgets
  <2> QED
    BY <2>1, <2>2 DEF NothingBefore, BooksBalance
<1>6. ASSUME NEW c \in Callers, NEW e \in Event, ReadBudget(c, e)
      PROVE  UNCHANGED <<budgets, charged, granted>>
  BY <1>6 DEF ReadBudget
<1>7. ASSUME NEW c \in Callers,
             StartInit(c) \/ InitDevices(c) \/ InitSelect(c) \/ Reread(c)
      PROVE  UNCHANGED <<budgets, charged, granted>>
  BY <1>7 DEF StartInit, InitDevices, InitSelect, Reread
<1>8. ASSUME NEW c \in Callers, NEW t \in Times, EvaluateRules(c, t)
      PROVE  UNCHANGED <<budgets, charged, granted>>
  BY <1>8 DEF EvaluateRules
<1>9. CASE UNCHANGED vars
  BY <1>1, <1>9 DEF vars
<1>10. ASSUME NEW x \in Devices, RegisterDevice(x)
       PROVE  UNCHANGED <<budgets, charged, granted>>
  BY <1>10 DEF RegisterDevice
<1>11. ASSUME NEW x \in Devices, DeregisterDevice(x)
       PROVE  NothingBefore' /\ BooksBalance'
  BY <1>11 DEF DeregisterDevice, NothingBefore, BooksBalance, TypeOK
<1> QED
  BY <1>1, <1>2, <1>3, <1>4, <1>5, <1>6, <1>7, <1>8, <1>9, <1>10, <1>11
  DEF Next, CallStep

\* The device an initialisation is for stays covered.
LEMMA InitCoversStep ==
  ASSUME TypeOK, ChargeNeedsTime, InitCovers, [Next]_vars
  PROVE  InitCovers'
<1> USE NoneAssumption
<1> SUFFICES ASSUME NEW c \in Callers, Initialising(calls'[c])
             PROVE  Covered(calls[c], calls[c].event.device)'
  BY DEF InitCovers
<1> DEFINE d == calls[c].event.device
<1>1. ASSUME Initialising(calls[c])
      PROVE  d \in Devices /\ Covered(calls[c], d)
  BY <1>1, CallShape, EventType DEF Initialising, InitCovers, TypeOK
<1>2. ASSUME Initialising(calls[c])
      PROVE  /\ registry[d] = "removed" => registry'[d] = "removed"
             /\ registry[d] = "registered" => registry'[d] \in {"registered", "removed"}
             /\ budgets[d] # None => budgets'[d] # None \/ registry'[d] = "removed"
  BY <1>1, <1>2, RowsStay
<1>3. CASE calls'[c] = calls[c]
  BY <1>1, <1>2, <1>3 DEF Covered
<1>4. ASSUME NEW x \in Callers, NEW e \in Event, ReadBudget(x, e)
      PROVE  Covered(calls[c], calls[c].event.device)'
  <2>1. CASE x # c
    BY <1>3, <1>4, <2>1 DEF ReadBudget, Goto, TypeOK
  <2>2. CASE x = c
    <3>1. calls'[c] = [pc |-> "init", event |-> e]
      BY <1>4, <2>2 DEF ReadBudget, Goto, TypeOK, Initialising
    <3>2. registry'[e.device] \in {"registered", "removed"}
      BY <1>4, EventType DEF ReadBudget, TypeOK
    <3> QED
      BY <3>1, <3>2 DEF Covered
  <2> QED
    BY <2>1, <2>2
<1>5. ASSUME NEW x \in Callers, StartInit(x)
      PROVE  calls'[c] = calls[c]
  BY <1>5 DEF StartInit, Goto, TypeOK, Initialising
<1>6. ASSUME NEW x \in Callers, InitDevices(x)
      PROVE  Covered(calls[c], calls[c].event.device)'
  <2>1. CASE x # c
    BY <1>3, <1>6, <2>1 DEF InitDevices, Goto, TypeOK
  <2>2. CASE x = c
    <3>1. /\ calls'[c] = [pc |-> "select", event |-> calls[c].event,
                          devices |-> Registered]
          /\ calls[c].pc = "init" /\ UNCHANGED <<registry, budgets>>
      BY <1>6, <2>2 DEF InitDevices, Goto, TypeOK
    <3>2. Initialising(calls[c])
      BY <3>1 DEF Initialising
    <3> QED
      BY <1>1, <3>1, <3>2 DEF Covered, Registered
  <2> QED
    BY <2>1, <2>2
<1>7. ASSUME NEW x \in Callers, InitSelect(x)
      PROVE  Covered(calls[c], calls[c].event.device)'
  <2>1. CASE x # c
    BY <1>3, <1>7, <2>1 DEF InitSelect, Goto, TypeOK
  <2>2. CASE x = c
    <3>1. /\ calls'[c] = [pc |-> "insert", event |-> calls[c].event,
                missing |-> {y \in calls[c].devices : budgets[y] = None}]
          /\ calls[c].pc = "select" /\ UNCHANGED <<registry, budgets>>
      BY <1>7, <2>2 DEF InitSelect, Goto, TypeOK
    <3>2. Initialising(calls[c])
      BY <3>1 DEF Initialising
    <3> QED
      BY <1>1, <3>1, <3>2 DEF Covered
  <2> QED
    BY <2>1, <2>2
<1>8. ASSUME NEW x \in Callers, InitCommit(x)
      PROVE  Covered(calls[c], calls[c].event.device)'
  <2>1. CASE x # c
    BY <1>3, <1>8, <2>1 DEF InitCommit, Goto, TypeOK
  <2>2. CASE x = c
    <3>1. /\ calls'[c] = [pc |-> "reread", event |-> calls[c].event]
          /\ budgets' = RowsAfterInsert(calls[c].missing)
          /\ calls[c].pc = "insert" /\ UNCHANGED registry
      BY <1>8, <2>2 DEF InitCommit, Goto, TypeOK, Initialising
    <3>2. Initialising(calls[c])
      BY <3>1 DEF Initialising
    <3>3. registry[d] = "registered" => budgets'[d] # None
      BY <1>1, <1>2, <3>1, <3>2, NewRowType DEF Covered, RowsAfterInsert
    <3> QED
      BY <1>1, <3>1, <3>2, <3>3 DEF Covered
  <2> QED
    BY <2>1, <2>2
<1>9. ASSUME NEW x \in Callers, Reread(x) \/ ChargeUsage(x)
      PROVE  calls'[c] = calls[c]
  BY <1>9 DEF Reread, ChargeUsage, Goto, TypeOK, Initialising
<1>10. ASSUME NEW x \in Callers, NEW t \in Times, EvaluateRules(x, t)
       PROVE  calls'[c] = calls[c]
  <2>1. \/ Goto(x, [pc |-> "idle"])
        \/ Goto(x, [calls[x] EXCEPT !.pc = "charge"])
    BY <1>10, Zenon DEF EvaluateRules
  <2>2. calls[x] \in Call /\ calls[x].pc = "rules"
    BY <1>10 DEF EvaluateRules, TypeOK
  <2> DEFINE new == [calls[x] EXCEPT !.pc = "charge"]
  <2>3. new.pc = "charge"
    BY <2>2 DEF Call
  <2>4. \/ calls' = [calls EXCEPT ![x] = [pc |-> "idle"]]
        \/ calls' = [calls EXCEPT ![x] = new]
    BY <2>1 DEF Goto
  <2> HIDE DEF new
  <2> QED
    BY <2>3, <2>4 DEF TypeOK, Initialising
<1>11. ASSUME \/ \E y \in Devices : RegisterDevice(y) \/ DeregisterDevice(y)
              \/ \E y \in Devices, s \in ExtraSeconds : GrantExtraTime(y, s)
              \/ RebalanceBudgets \/ UNCHANGED vars
       PROVE  calls'[c] = calls[c]
  BY <1>11 DEF RegisterDevice, DeregisterDevice, GrantExtraTime,
               RebalanceBudgets, vars
<1> QED
  BY <1>3, <1>4, <1>5, <1>6, <1>7, <1>8, <1>9, <1>10, <1>11 DEF Next, CallStep

\* The inductive invariant holds initially.
LEMMA InitIInv ==
  ASSUME Init
  PROVE  IInv
<1>1. TypeOK
  BY DEF Init, TypeOK, Call
<1>2. \A c \in Callers : calls[c].pc = "idle"
  BY DEF Init
<1>3. ChargeNeedsTime /\ InitCovers
  BY <1>2 DEF ChargeNeedsTime, InitCovers, Initialising
<1>4. NothingBefore /\ BooksBalance
  BY DEF Init, NothingBefore, BooksBalance
<1> QED
  BY <1>1, <1>3, <1>4 DEF IInv

\* Every reachable state of the engine satisfies the inductive invariant.
THEOREM Inductive == Spec => []IInv
<1>1. IInv /\ [Next]_vars => IInv'
  BY TypeStep, ChargeNeedsTimeStep, BooksStep, InitCoversStep DEF IInv
<1> QED
  BY <1>1, InitIInv, PTL DEF Spec

\* The remaining seconds, totals and charges of process_usage_event,
\* record_usage and grant_extra_time are never negative, and each call in
\* progress has the locals that its place in the code needs.
THEOREM TypeCorrect == Spec => []TypeOK
<1>1. IInv => TypeOK
  BY DEF IInv
<1> QED
  BY <1>1, Inductive, PTL

\* However calls of record_usage, grant_extra_time and
\* initialise_daily_budgets overlap, no charge or grant is lost or doubled.
THEOREM NoLostUpdate == Spec => []BooksBalance
<1>1. IInv => BooksBalance
  BY DEF IInv
<1> QED
  BY <1>1, Inductive, PTL

\* However registrations and initialisations interleave, a call of
\* process_usage_event that ran initialise_daily_budgets without an exception
\* finds a budget of its device, as long as the device is registered.
THEOREM LazyInit == Spec => []LazyInitSuffices
<1>1. IInv => LazyInitSuffices
  <2> SUFFICES ASSUME IInv, NEW c \in Callers, calls[c].pc = "reread",
                      registry[calls[c].event.device] = "registered"
               PROVE  budgets[calls[c].event.device] # None
    BY DEF LazyInitSuffices
  <2>1. calls[c].event # None
    BY CallShape, NoneAssumption DEF IInv, TypeOK
  <2> QED
    BY <2>1 DEF IInv, InitCovers, Initialising, Covered
<1> QED
  BY <1>1, Inductive, PTL

-----------------------------------------------------------------------------
(* The overshoot *)

\* Multiplication, as far as the overshoot needs it.
LEMMA TimesFacts ==
  ASSUME NEW m \in Nat, NEW n \in Nat, NEW k \in Nat, m <= n
  PROVE  m * k \in Nat /\ m * k <= n * k /\ (m + 1) * k = m * k + k
OBVIOUS

\* Caller sets are finite.
LEMMA FreeFinite ==
  ASSUME NEW d \in Devices
  PROVE  /\ IsFiniteSet(Free(d)) /\ Cardinality(Free(d)) \in Nat
         /\ Cardinality(Free(d)) <= Cardinality(Callers)
         /\ Cardinality(Callers) \in Nat
         /\ IsFiniteSet(Free(d)') /\ Cardinality(Free(d)') \in Nat
<1>1. IsFiniteSet(Callers)
  BY EngineAssumption
<1>2. Free(d) \subseteq Callers /\ Free(d)' \subseteq Callers
  BY DEF Free
<1> QED
  BY <1>1, <1>2, FS_Subset, FS_CardinalityType

\* A step other than a charge to d disarms callers or finds d not exhausted.
LEMMA ReserveStep ==
  ASSUME IInv, Reserve, [Next]_vars
  PROVE  Reserve'
<1> USE DEF IInv
<1> SUFFICES ASSUME NEW g \in Categories, NEW r \in Durations,
                    MaxCost(effective_cost(g, r)),
                    NEW d \in Devices, budgets'[d] # None
             PROVE  budgets'[d].used < budgets'[d].total +
                      Cardinality(Free(d)') * effective_cost(g, r)
  BY DEF Reserve, Free, MaxCost
<1> DEFINE k == effective_cost(g, r)
           m == Cardinality(Free(d))
           n == Cardinality(Free(d)')
<1>1. k \in Nat /\ m \in Nat /\ n \in Nat
  BY CostType, FreeFinite, EngineAssumption
<1>2. n * k \in Nat
  BY <1>1, TimesFacts
<1>t. TypeOK'
  BY TypeStep
<1>3. budgets'[d] \in Row
  BY <1>t DEF TypeOK
<1> HIDE DEF k, m, n
<1>4. CASE budgets[d] = None
  <2>1. budgets'[d].used = 0 /\ budgets'[d].total > 0
    <3>1. ASSUME NEW c \in Callers, InitCommit(c)
          PROVE  budgets'[d] = NewRow(d)
      BY <1>4, <3>1 DEF InitCommit, RowsAfterInsert
    <3>2. ASSUME NEW c \in Callers, ChargeUsage(c)
          PROVE  FALSE
      BY <1>4, <3>2, ChargeKeepsRows
    <3>3. ASSUME NEW x \in Devices, NEW s \in ExtraSeconds, GrantExtraTime(x, s)
          PROVE  FALSE
      BY <1>4, <3>3 DEF GrantExtraTime, TypeOK
    <3>4. ASSUME RebalanceBudgets
          PROVE  FALSE
      BY <1>4, <3>4 DEF RebalanceBudgets
    <3>5. ASSUME UNCHANGED budgets
          PROVE  FALSE
      BY <1>4, <3>5
    <3>6. ASSUME NEW x \in Devices, DeregisterDevice(x)
          PROVE  FALSE
      BY <1>4, <3>6 DEF DeregisterDevice, TypeOK
    <3>7. budgets'[d] = NewRow(d)
      BY <3>1, <3>2, <3>3, <3>4, <3>5, <3>6
      DEF Next, CallStep, RegisterDevice, ReadBudget, StartInit, InitDevices,
          InitSelect, Reread, EvaluateRules, vars
    <3> QED
      BY <3>7, NewRowType
  <2> QED
    BY <1>2, <1>3, <2>1 DEF Row, k, n
<1>5. CASE budgets[d] # None /\ Free(d) \subseteq Free(d)'
           /\ budgets'[d].used = budgets[d].used
           /\ budgets'[d].total >= budgets[d].total
  <2>1. budgets[d].used < budgets[d].total + m * k
    BY <1>5 DEF Reserve, m, k
  <2>2. m <= n
    BY <1>5, FreeFinite, FS_Subset DEF m, n
  <2>3. m * k \in Nat /\ m * k <= n * k
    BY <1>1, <2>2, TimesFacts
  <2>4. budgets[d] \in Row
    BY <1>5 DEF TypeOK
  <2> QED
    BY <1>2, <1>3, <1>5, <2>1, <2>3, <2>4 DEF Row, k, n
<1>6. CASE budgets[d] # None /\ ~(Free(d) \subseteq Free(d)')
  <2>1. PICK c \in Callers : Armed(c, d)' /\ ~Armed(c, d)
    BY <1>6 DEF Free
  <2>2. budgets'[d].used < budgets'[d].total
    BY <2>1, ArmedStep
  <2> QED
    BY <1>2, <1>3, <2>2 DEF Row, k, n
<1>7. ASSUME NEW c \in Callers, ChargeUsage(c), calls[c].event.device = d,
             budgets[d] # None, Free(d) \subseteq Free(d)'
      PROVE  budgets'[d].used < budgets'[d].total + n * k
  <2> DEFINE cost == effective_cost(calls[c].event.category, calls[c].event.raw)
  <2>1. /\ cost \in Nat
        /\ Armed(c, d)
        /\ budgets[d] \in Row
        /\ budgets'[d].used = budgets[d].used + cost
        /\ budgets'[d].total = budgets[d].total
    BY <1>7, ChargeEffect
  <2>2. cost <= k
    <3>1. calls[c].event \in Event
      BY <1>7, CallShape DEF ChargeUsage, TypeOK
    <3> QED
      BY <3>1 DEF Event, MaxCost, k
  <2> HIDE DEF cost
  <2>3. c \notin Free(d) /\ c \in Free(d)'
    BY <1>7, <2>1 DEF Free, Armed, ChargeUsage, Goto, TypeOK
  <2>4. m + 1 <= n
    <3>1. Free(d) \cup {c} \subseteq Free(d)'
      BY <1>7, <2>3
    <3>2. Cardinality(Free(d) \cup {c}) = m + 1
      BY <2>3, FreeFinite, FS_AddElement DEF m
    <3> QED
      BY <3>1, <3>2, FreeFinite, FS_Subset DEF n
  <2>5. (m + 1) * k <= n * k /\ (m + 1) * k = m * k + k /\ m * k \in Nat
    <3>1. m + 1 \in Nat
      BY <1>1
    <3>2. (m + 1) * k <= n * k
      BY <1>1, <2>4, <3>1, TimesFacts
    <3> QED
      BY <1>1, <3>2, TimesFacts
  <2>6. budgets[d].used < budgets[d].total + m * k
    BY <1>7 DEF Reserve, m, k
  <2> QED
    BY <1>1, <1>2, <2>1, <2>2, <2>5, <2>6 DEF Row
<1>8. ASSUME budgets[d] # None,
             ~\E c \in Callers : ChargeUsage(c) /\ calls[c].event.device = d
      PROVE  /\ budgets'[d].used = budgets[d].used
             /\ budgets'[d].total >= budgets[d].total
  <2>0. budgets[d] \in Row
    BY <1>8 DEF TypeOK
  <2>1. ASSUME UNCHANGED budgets
        PROVE  /\ budgets'[d].used = budgets[d].used
               /\ budgets'[d].total >= budgets[d].total
    BY <2>0, <2>1 DEF Row
  <2>2. ASSUME NEW c \in Callers, InitCommit(c)
        PROVE  budgets'[d] = budgets[d]
    BY <1>8, <2>2 DEF InitCommit, InsertsAllowed, RowsAfterInsert
  <2>3. ASSUME NEW c \in Callers, ChargeUsage(c)
        PROVE  budgets'[d] = budgets[d]
    <3>1. CASE budgets[calls[c].event.device] = None
      BY <2>3, <3>1 DEF ChargeUsage
    <3>2. CASE budgets[calls[c].event.device] # None
      BY <1>8, <2>3, <3>2, ChargeEffect
    <3> QED
      BY <3>1, <3>2
  <2>4. ASSUME NEW x \in Devices, NEW s \in ExtraSeconds, GrantExtraTime(x, s)
        PROVE  /\ budgets'[d].used = budgets[d].used
               /\ budgets'[d].total >= budgets[d].total
    <3>1. s \in Nat
      BY EngineAssumption
    <3>2. CASE x = d
      <4>1. budgets'[d] = Granted(budgets[d], s)
        BY <1>8, <2>4, <3>2 DEF GrantExtraTime, TypeOK
      <4> QED
        BY <2>0, <3>1, <4>1 DEF Granted, Row
    <3>3. CASE x # d
      <4>1. budgets'[d] = budgets[d]
        BY <2>4, <3>3 DEF GrantExtraTime, TypeOK
      <4> QED
        BY <2>0, <4>1 DEF Row
    <3> QED
      BY <3>2, <3>3
  <2>5. ASSUME RebalanceBudgets
        PROVE  /\ budgets'[d].used = budgets[d].used
               /\ budgets'[d].total >= budgets[d].total
    <3>1. \/ budgets'[d] = budgets[d]
          \/ budgets'[d] = [budgets[d] EXCEPT !.rebalanced = TRUE]
      BY <2>5 DEF RebalanceBudgets
    <3> QED
      BY <2>0, <3>1 DEF Row
  <2>6. ASSUME NEW x \in Devices, DeregisterDevice(x)
        PROVE  budgets'[d] = budgets[d]
    BY <2>6 DEF DeregisterDevice, TypeOK
  <2>7. budgets'[d] = budgets[d] => /\ budgets'[d].used = budgets[d].used
                                    /\ budgets'[d].total >= budgets[d].total
    BY <2>0 DEF Row
  <2> QED
    BY <2>1, <2>2, <2>3, <2>4, <2>5, <2>7, <2>6
    DEF Next, CallStep, RegisterDevice, ReadBudget, StartInit, InitDevices,
        InitSelect, Reread, EvaluateRules, vars
<1> QED
  BY <1>4, <1>5, <1>6, <1>7, <1>8 DEF k, n

\* Reports that overlap overshoot a budget by less than one longest report
\* for each call of process_usage_event that may be in progress.
THEOREM OvershootBound == Spec => []OvershootBounded
<1>1. Init => Reserve
  BY DEF Init, Reserve
<1>2. IInv /\ Reserve => OvershootBounded
  <2> SUFFICES ASSUME IInv, Reserve,
                      NEW g \in Categories, NEW r \in Durations,
                      MaxCost(effective_cost(g, r)),
                      NEW d \in Devices, budgets[d] # None
               PROVE  budgets[d].used < budgets[d].total +
                        Cardinality(Callers) * effective_cost(g, r)
    BY DEF OvershootBounded
  <2> DEFINE k == effective_cost(g, r)
             m == Cardinality(Free(d))
             n == Cardinality(Callers)
  <2>1. k \in Nat /\ m \in Nat /\ n \in Nat /\ m <= n
    BY CostType, FreeFinite, EngineAssumption
  <2>2. budgets[d].used < budgets[d].total + m * k
    BY DEF Reserve
  <2>3. budgets[d] \in Row
    BY DEF IInv, TypeOK
  <2> HIDE DEF k, m, n
  <2>4. m * k \in Nat /\ m * k <= n * k /\ n * k \in Nat
    BY <2>1, TimesFacts
  <2>5. budgets[d].used < budgets[d].total + n * k
    BY <2>2, <2>3, <2>4 DEF Row
  <2> QED
    BY <2>5 DEF k, n
<1>3. IInv /\ Reserve /\ [Next]_vars => Reserve'
  BY ReserveStep
<1> QED
  BY <1>1, <1>2, <1>3, Inductive, PTL DEF Spec
=============================================================================
