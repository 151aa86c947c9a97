-------------------------- MODULE MCDecisionEngine --------------------------
(* Two devices, of priorities 1 and 10, have budgets of 7200 and 13680     *)
(* seconds; a report of 12001 seconds costs 14401 or 6000, so that a budget *)
(* lasts for one to three reports.  540 is in focus hours, 780 in no       *)
(* window.                                                                 *)
EXTENDS DecisionEngine, TLC

MCPriority   == [d \in Devices |-> IF d = 1 THEN 1 ELSE 10]
MCCategories == {"entertainment", "productivity"}
MCDurations  == {12001}
MCTimes      == {540, 780}
MCSymmetry   == Permutations(Callers)
=============================================================================
