--------------------------- MODULE MCPlanExecution ---------------------------
(* Instances of PlanExecution for TLC.                                     *)
EXTENDS PlanExecution

CONSTANTS a, b, c, d, f, out

MCIds == {a, b, c, d}

(* a has to create a file; the other tasks create none.                    *)
T(id, deps) == [id |-> id, deps |-> deps, create |-> IF id = a THEN {f} ELSE {}]

TasksAB == {T(id, deps) : id \in {a, b}, deps \in SUBSET {a, b}}

(* Every plan of one or two tasks over two ids: distinct and duplicate     *)
(* ids, self, mutual and unknown dependencies.                             *)
SmallPlans == {<<t>> : t \in TasksAB} \cup {<<t, u>> : t, u \in TasksAB}

(* Plans of three tasks: listed against the order of the dependencies,     *)
(* fan-in, and a cycle behind a task that can run.                         *)
ThreeTaskPlans ==
    { <<T(c, {b}), T(b, {a}), T(a, {})>>,
      <<T(c, {a, b}), T(a, {}), T(b, {})>>,
      <<T(a, {}), T(b, {c}), T(c, {a, b})>> }

(* d is the task whose line the tools edit, in its own call and in that of *)
(* the task after it.                                                      *)
EditedPlan == <<T(d, {}), T(a, {})>>

OutsidePlan == <<[id |-> b, deps |-> {}, create |-> {out}]>>

MCPlans == SmallPlans \cup ThreeTaskPlans \cup {EditedPlan, OutsidePlan}
=============================================================================
