------------------------- MODULE MCOverrideService -------------------------
(***************************************************************************)
(* Small instances of OverrideService.  A UTC offset of one tick makes     *)
(* local and UTC days differ, as they do for the code.                     *)
(***************************************************************************)
EXTENDS OverrideService, TLC

\* total 20: 16/20 = 0.80 is below the spike threshold, 17/20 = 0.85 is on it.
MCCalmRows   == {[total |-> 20, used |-> 16]}
MCBudgetRows == MCCalmRows \cup {[total |-> 20, used |-> 17]}

\* 0, the largest legal value and one beyond it.
MCSeconds == {0, 2, 3}

MCSymmetry == Permutations(Ids) \cup Permutations(Callers)
=============================================================================
