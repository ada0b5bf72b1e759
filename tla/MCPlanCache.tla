----------------------------- MODULE MCPlanCache -----------------------------
(* Two engines that share one of two profiles. *)
EXTENDS PlanCache, TLC

CONSTANTS e1, e2
OneAndBoth == e1 :> {1} @@ e2 :> {1, 2}
==============================================================================
