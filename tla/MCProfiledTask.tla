--------------------------- MODULE MCProfiledTask ---------------------------
(* Instances of ProfiledTask with a short table of periods.                *)
EXTENDS ProfiledTask

MCPeriodTable == <<1, 3, 4>>
=============================================================================
