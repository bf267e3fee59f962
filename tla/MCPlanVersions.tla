--------------------------- MODULE MCPlanVersions ---------------------------
(***************************************************************************)
(* PlanVersions for TLC: two worker threads publishing two possible routes *)
(* for two dates, alone or both dates in one transaction.                  *)
(***************************************************************************)
EXTENDS PlanVersions
=============================================================================
