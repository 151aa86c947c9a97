---------------------------- MODULE UsageSession ----------------------------
(***************************************************************************)
(* process_usage_event (decision_engine/engine.py) for the reports of one  *)
(* session on one device, one after the other: every report that is not    *)
(* blocked lowers the remaining seconds by its cost.  The client cuts the  *)
(* session into reports as it likes.                                       *)
(***************************************************************************)
EXTENDS Rules

CONSTANTS Categories,  \* categories a device reports
          Durations,   \* lengths of reports, in seconds
          Times,       \* times of day, in minutes
          Budget,      \* the device's seconds for the day
          MaxScreen    \* bound on the seconds reported

ASSUME SessionAssumption ==
  /\ Durations \subseteq Nat
  /\ Times \subseteq 0 .. 1439
  /\ Budget \in Nat /\ MaxScreen \in Nat

VARIABLES category, time,
          raw,      \* duration of the next report
          used,     \* seconds charged
          screen,   \* history: seconds on screen that were charged for
          reports   \* history: how many reports they came in

vars == <<category, time, raw, used, screen, reports>>

Remaining(u) == IF u < Budget THEN Budget - u ELSE 0

Context(u) == [category |-> category, raw |-> raw, remaining |-> Remaining(u),
               time |-> time]

Init ==
  /\ category \in Categories
  /\ time \in Times
  /\ raw \in Durations
  /\ used = 0
  /\ screen = 0
  /\ reports = 0

\* process_usage_event, alone: evaluate, then deduct unless blocked.
Report ==
  /\ evaluate_rules(Context(used)) # "block"
  /\ screen + raw <= MaxScreen
  /\ used' = used + effective_cost(category, raw)
  /\ screen' = screen + raw
  /\ reports' = reports + 1
  /\ UNCHANGED <<category, time, raw>>

\* The client's next report is of another length.
ChangeDuration ==
  /\ raw' \in Durations
  /\ UNCHANGED <<category, time, used, screen, reports>>

Next == Report \/ ChangeDuration

Spec == Init /\ [][Next]_vars

-----------------------------------------------------------------------------
(* Properties *)

Severity(action) ==
  CASE action = "block" -> 2 [] action = "warn" -> 1 [] OTHER -> 0

\* The seconds charged and reported are natural numbers.
TypeOK ==
  /\ category \in Categories /\ time \in Times /\ raw \in Durations
  /\ used \in Nat /\ screen \in Nat /\ reports \in Nat

\* Spending never makes the verdict on the same report milder, whichever rule
\* comes first in RULES; in particular a blocked category stays blocked.
VerdictOnlyStricter ==
  [][raw' = raw =>
       Severity(evaluate_rules(Context(used)))
         <= Severity(evaluate_rules(Context(used)'))]_vars

\* However a session is cut into reports, the truncation in effective_cost is
\* in the user's favour: what is charged never exceeds the weighted seconds.
NeverOvercharged == 10 * used <= Weight(category) * screen

\* Nor is cutting a session into reports a way around the budget, but for the
\* fraction of a second that the truncation drops from each report.
UnderchargeBounded == Weight(category) * screen <= 10 * used + 9 * reports
=============================================================================
