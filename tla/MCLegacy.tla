------------------------------- MODULE MCLegacy -------------------------------
EXTENDS LegacyProperties

\* Each worker may end in each way that its place in the run tells apart.
Says == [w \in Workers |->
  CASE w = "survey" -> {"success", "blocked", "error"}
    [] w = "column" -> {"success", "cancelled", "error"}
    [] w = "name" -> {"success", "partial"}
    [] w \in {"code", "orm"} -> {"success", "error"}
    [] w = "merge" -> {"success", "error"}]
=============================================================================
