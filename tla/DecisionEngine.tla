--------------------------- MODULE DecisionEngine ---------------------------
(***************************************************************************)
(* The decision engine's budgets (decision_engine/budget.py, engine.py)    *)
(* for the devices of one user on one day, which are registered and        *)
(* deregistered meanwhile.  Each call of process_usage_event,              *)
(* initialise_daily_budgets, rebalance_budgets or grant_extra_time runs on *)
(* a database session of its own and yields at every statement.            *)
(*                                                                         *)
(* Two things hold of the shared clients.  RedisClient has no delete       *)
(* method, so record_usage, grant_extra_time and rebalance_budgets raise   *)
(* AttributeError where they invalidate the cache.  RedisClient.set drops  *)
(* a dict, so the budget cache is always empty and reads go to the         *)
(* database.  mqtt_client is never connected: publishing does nothing.     *)
(***************************************************************************)
EXTENDS Rules, FiniteSets

CONSTANTS Devices,      \* ids of devices the user may register; a
                        \* registered device is_online from then on
          Priority,     \* Devices -> 1..10
          Callers,      \* calls in progress at once
          Categories, Durations, Times,
          ExtraSeconds, \* values for grant_extra_time
          MaxGrants,    \* bound on the grants of a device
          None

ASSUME EngineAssumption ==
  /\ Priority \in [Devices -> 1 .. 10]
  /\ IsFiniteSet(Callers)
  /\ Durations \subseteq Nat
  /\ Times \subseteq 0 .. 1439
  /\ ExtraSeconds \subseteq Nat
  /\ MaxGrants \in Nat

VARIABLES registry,  \* Devices -> "new", "registered" or "removed"
          budgets,   \* the budgets table of the day: Devices -> row or None
          calls,     \* calls in progress and their locals
          charged,   \* history: seconds charged to each device's row
          granted,   \* history: seconds granted to each device's row
          grants,    \* history: number of grants
          raised     \* history: the function that raised an exception in the
                     \* last step, or None

vars == <<registry, budgets, calls, charged, granted, grants, raised>>

DEFAULT_DAILY_BUDGET_SECONDS == 2 * 3600

_priority_adjusted_budget(priority) ==
  DEFAULT_DAILY_BUDGET_SECONDS + (priority - 1) * 720

Event == [device : Devices, category : Categories, raw : Durations]
Row   == [total : Nat, used : Nat, rebalanced : BOOLEAN]

ASSUME NoneAssumption == None \notin Row /\ None \notin Event

Call ==
  [pc : {"idle"}]
    \cup [pc : {"init"}, event : Event \cup {None}]
    \cup [pc : {"select"}, event : Event \cup {None}, devices : SUBSET Devices]
    \cup [pc : {"reread"}, event : Event]
    \cup [pc : {"insert"}, event : Event \cup {None},
          missing : SUBSET Devices]
    \cup [pc : {"rules", "charge"}, event : Event, remaining : Nat]

Init ==
  /\ registry = [d \in Devices |-> "new"]
  /\ budgets = [d \in Devices |-> None]
  /\ calls = [c \in Callers |-> [pc |-> "idle"]]
  /\ charged = [d \in Devices |-> 0]
  /\ granted = [d \in Devices |-> 0]
  /\ grants = [d \in Devices |-> 0]
  /\ raised = None

Registered == {d \in Devices : registry[d] = "registered"}

Goto(c, call) == calls' = [calls EXCEPT ![c] = call]

\* Faulty variant: without max(0, ...).
Unclamped(row) == row.total - row.used

\* max(0, total_budget_seconds - used_seconds), in _budget_to_dict.
remaining_seconds(row) ==
  IF row.used < row.total THEN row.total - row.used ELSE 0

-----------------------------------------------------------------------------
(* The devices table *)

\* register_device and its commit.
RegisterDevice(d) ==
  /\ registry[d] = "new"
  /\ registry' = [registry EXCEPT ![d] = "registered"]
  /\ UNCHANGED <<budgets, calls, charged, granted, grants>>
  /\ raised' = None

\* deregister_device and its commit: the device's budgets go with it.
DeregisterDevice(d) ==
  /\ registry[d] = "registered"
  /\ registry' = [registry EXCEPT ![d] = "removed"]
  /\ budgets' = [budgets EXCEPT ![d] = None]
  /\ charged' = [charged EXCEPT ![d] = 0]
  /\ granted' = [granted EXCEPT ![d] = 0]
  /\ UNCHANGED <<calls, grants>>
  /\ raised' = None

-----------------------------------------------------------------------------
(* process_usage_event and initialise_daily_budgets *)

\* get_budget, the first time.  The device of the event was loaded before; it
\* may be gone by now.
ReadBudget(c, e) ==
  /\ calls[c].pc = "idle"
  /\ registry[e.device] # "new"
  /\ LET row == budgets[e.device] IN
       Goto(c, IF row = None THEN [pc |-> "init", event |-> e]
               ELSE [pc |-> "rules", event |-> e,
                     remaining |-> remaining_seconds(row)])
  /\ UNCHANGED <<registry, budgets, charged, granted, grants>>
  /\ raised' = None

\* initialise_daily_budgets called by itself (cron).
StartInit(c) ==
  /\ calls[c].pc = "idle"
  /\ Goto(c, [pc |-> "init", event |-> None])
  /\ UNCHANGED <<registry, budgets, charged, granted, grants>>
  /\ raised' = None

\* The SELECT of the devices.
InitDevices(c) ==
  /\ calls[c].pc = "init"
  /\ Goto(c, [pc |-> "select", event |-> calls[c].event,
              devices |-> Registered])
  /\ UNCHANGED <<registry, budgets, charged, granted, grants>>
  /\ raised' = None

\* The SELECTs of their budgets, which tell the rows to insert.  One step: if
\* none of these rows appears before the commit, all SELECTs agree with the
\* last, and if one does, the commit fails as after that row's own SELECT.
InitSelect(c) ==
  /\ calls[c].pc = "select"
  /\ Goto(c, [pc |-> "insert", event |-> calls[c].event,
              missing |-> {d \in calls[c].devices : budgets[d] = None}])
  /\ UNCHANGED <<registry, budgets, charged, granted, grants>>
  /\ raised' = None

NewRow(d) == [total |-> _priority_adjusted_budget(Priority[d]), used |-> 0,
              rebalanced |-> FALSE]

\* Faulty variant: the commit is inside the loop, which ends early.
FirstRowOnly(missing) ==
  LET kept == IF missing = {} THEN {} ELSE {CHOOSE m \in missing : TRUE} IN
    [d \in Devices |-> IF d \in kept THEN NewRow(d) ELSE budgets[d]]

RowsAfterInsert(missing) ==
  [d \in Devices |-> IF d \in missing THEN NewRow(d) ELSE budgets[d]]

\* uq_budget_device_date lets the INSERTs through only if none of the rows
\* has appeared since, the foreign key only if their devices are still there.
InsertsAllowed(missing) ==
  \A d \in missing : budgets[d] = None /\ registry[d] = "registered"

\* The INSERTs and the commit; otherwise IntegrityError, which nobody
\* catches, and the transaction is rolled back.
InitCommit(c) ==
  /\ calls[c].pc = "insert"
  /\ \/ /\ InsertsAllowed(calls[c].missing)
        /\ budgets' = RowsAfterInsert(calls[c].missing)
        /\ Goto(c, IF calls[c].event = None THEN [pc |-> "idle"]
                   ELSE [pc |-> "reread", event |-> calls[c].event])
        /\ raised' = None
     \/ /\ ~InsertsAllowed(calls[c].missing)
        /\ Goto(c, [pc |-> "idle"])
        /\ raised' = "initialise_daily_budgets"
        /\ UNCHANGED budgets
  /\ UNCHANGED <<registry, charged, granted, grants>>

\* get_budget again.
Reread(c) ==
  /\ calls[c].pc = "reread"
  /\ LET e   == calls[c].event
         row == budgets[e.device]
     IN  Goto(c, [pc |-> "rules", event |-> e,
                  remaining |-> IF row = None THEN 0
                                ELSE remaining_seconds(row)])
  /\ UNCHANGED <<registry, budgets, charged, granted, grants>>
  /\ raised' = None

\* The verdict, on the remaining seconds read before.  A blocked event ends
\* here; its enforcement message goes nowhere.
EvaluateRules(c, t) ==
  /\ calls[c].pc = "rules"
  /\ LET e       == calls[c].event
         verdict == evaluate_rules([category |-> e.category, raw |-> e.raw,
                                    remaining |-> calls[c].remaining,
                                    time |-> t])
     IN  Goto(c, IF verdict = "block" THEN [pc |-> "idle"]
                 ELSE [calls[c] EXCEPT !.pc = "charge"])
  /\ UNCHANGED <<registry, budgets, charged, granted, grants>>
  /\ raised' = None

\* Faulty variant: the new value is computed from the row read before the
\* rules were evaluated.
ChargedFromRead(row, cost, remaining) ==
  [row EXCEPT !.used = row.total - remaining + cost]

Charged(row, cost, remaining) == [row EXCEPT !.used = @ + cost]

\* record_usage: UPDATE ... SET used_seconds = used_seconds + cost, which does
\* nothing when the row is gone, commit, and the exception at the cache.
ChargeUsage(c) ==
  /\ calls[c].pc = "charge"
  /\ LET e    == calls[c].event
         d    == e.device
         cost == effective_cost(e.category, e.raw)
     IN  IF budgets[d] = None
         THEN UNCHANGED <<budgets, charged>>
         ELSE /\ budgets' =
                   [budgets EXCEPT ![d] = Charged(@, cost, calls[c].remaining)]
              /\ charged' = [charged EXCEPT ![d] = @ + cost]
  /\ raised' = "record_usage"
  /\ Goto(c, [pc |-> "idle"])
  /\ UNCHANGED <<registry, granted, grants>>

-----------------------------------------------------------------------------
(* grant_extra_time and rebalance_budgets, whose statements nothing that   *)
(* another call does can come between to any effect.                       *)

Granted(row, s) == [row EXCEPT !.total = @ + s]

\* One UPDATE; without a row it changes nothing.  Then the exception.
GrantExtraTime(d, s) ==
  /\ registry[d] # "new"
  /\ grants[d] < MaxGrants
  /\ grants' = [grants EXCEPT ![d] = @ + 1]
  /\ IF budgets[d] = None
     THEN UNCHANGED <<budgets, granted>>
     ELSE /\ budgets' = [budgets EXCEPT ![d] = Granted(@, s)]
          /\ granted' = [granted EXCEPT ![d] = @ + s]
  /\ raised' = "grant_extra_time"
  /\ UNCHANGED <<registry, calls, charged>>

Exhausted(row) == row.used >= row.total

\* Exhausted rows are stamped; the first other row raises at the cache after
\* its UPDATE, and everything is rolled back.
RebalanceBudgets ==
  LET rows == {d \in Devices : budgets[d] # None} IN
    /\ rows # {}
    /\ \/ /\ \A d \in rows : Exhausted(budgets[d])
          /\ budgets' = [d \in Devices |->
                           IF d \in rows
                           THEN [budgets[d] EXCEPT !.rebalanced = TRUE]
                           ELSE budgets[d]]
          /\ raised' = None
       \/ /\ \E d \in rows : ~Exhausted(budgets[d])
          /\ raised' = "rebalance_budgets"
          /\ UNCHANGED budgets
    /\ UNCHANGED <<registry, calls, charged, granted, grants>>

CallStep(c) ==
  \/ InitDevices(c)
  \/ InitSelect(c)
  \/ InitCommit(c)
  \/ Reread(c)
  \/ \E t \in Times : EvaluateRules(c, t)
  \/ ChargeUsage(c)

Next ==
  \/ \E d \in Devices : RegisterDevice(d) \/ DeregisterDevice(d)
  \/ \E c \in Callers, e \in Event : ReadBudget(c, e)
  \/ \E c \in Callers : StartInit(c)
  \/ \E c \in Callers : CallStep(c)
  \/ \E d \in Devices, s \in ExtraSeconds : GrantExtraTime(d, s)
  \/ RebalanceBudgets

Spec == Init /\ [][Next]_vars

-----------------------------------------------------------------------------
(* Properties *)

\* Remaining seconds, totals and charges are never negative, and a call has
\* the locals its place in the code needs.
TypeOK ==
  /\ registry \in [Devices -> {"new", "registered", "removed"}]
  /\ budgets \in [Devices -> Row \cup {None}]
  /\ calls \in [Callers -> Call]
  /\ charged \in [Devices -> Nat]
  /\ granted \in [Devices -> Nat]
  /\ grants \in [Devices -> Nat]

\* No update is lost, whatever calls overlap: a row holds exactly what was
\* charged to it, and the day's budget plus what was granted.
BooksBalance ==
  \A d \in Devices : budgets[d] # None =>
    /\ budgets[d].used = charged[d]
    /\ budgets[d].total = _priority_adjusted_budget(Priority[d]) + granted[d]

\* "1. Lazy-init budget for today if missing": whenever a device was registered
\* and whoever initialises meanwhile, a call that initialised and did not fail
\* finds a row of its device, so that the 0 in "remaining_seconds if budget
\* else 0" never blocks a device that is registered.
LazyInitSuffices ==
  \A c \in Callers : calls[c].pc = "reread" =>
    LET d == calls[c].event.device IN
      registry[d] = "registered" => budgets[d] # None

\* No report costs more.
MaxCost(cost) ==
  \A g \in Categories, r \in Durations : effective_cost(g, r) <= cost

\* The check of the remaining seconds and the deduction are two steps, so
\* concurrent reports overshoot the budget, but by less than one longest
\* report per call in progress.
OvershootBounded ==
  \A g \in Categories, r \in Durations :
    MaxCost(effective_cost(g, r)) =>
      \A d \in Devices : budgets[d] # None =>
        budgets[d].used <
          budgets[d].total + Cardinality(Callers) * effective_cost(g, r)

=============================================================================
