----------------------------- MODULE MCRunControl -----------------------------
(* Instances of RunControl for TLC.                                        *)
EXTENDS RunControl

TaskRoutes == {"plan", "fast"}
AllRoutes  == {"chat", "plan", "fast"}
PlanRoute  == {"plan"}
=============================================================================
