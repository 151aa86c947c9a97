--------------------------- MODULE MCUsageSession ---------------------------
(* Every category, the ends of both windows, and short, odd and long reports. *)
EXTENDS UsageSession

MCCategories == {"productivity", "active_social", "passive_social",
                 "entertainment", "passive_entertainment", "education"}
MCDurations  == {77, 333, 1201}
MCTimes      == {0, 360, 361, 540, 720, 721, 1319, 1320}
=============================================================================
