------------------------------ MODULE PlanBoard ------------------------------
(***************************************************************************)
(* What the execution of a plan promises to the user who watches the       *)
(* steps: a step begins once, after the steps it depends on are done; one  *)
(* step runs at a time; a blocked step ends the run; success is reported   *)
(* when every step is done, and a deadlock when no remaining step could    *)
(* begin.  In which order ready steps are taken, how often a step is       *)
(* tried, and who reviews it, is left open.                                *)
(***************************************************************************)
EXTENDS Integers, Sequences

CONSTANTS Ids, Plans

VARIABLES plan, board, outcome

boardVars == <<plan, board, outcome>>

Steps == DOMAIN plan
Running == \E t \in Ids : board[t] = "running"
CanBegin(i) == /\ board[plan[i].id] = "none"
               /\ \A d \in plan[i].deps : board[d] = "done"

Init ==
    /\ plan \in Plans
    /\ board = [t \in Ids |-> "none"]
    /\ outcome = "none"

Begin(i) ==
    /\ outcome = "none" /\ ~Running /\ CanBegin(i)
    /\ board' = [board EXCEPT ![plan[i].id] = "running"]
    /\ UNCHANGED <<plan, outcome>>

Finish(t) ==
    /\ outcome = "none" /\ board[t] = "running"
    /\ board' = [board EXCEPT ![t] = "done"]
    /\ UNCHANGED <<plan, outcome>>

Block(t) ==
    /\ outcome = "none" /\ board[t] = "running"
    /\ board' = [board EXCEPT ![t] = "blocked"]
    /\ outcome' = "failed"
    /\ UNCHANGED plan

Succeed ==
    /\ outcome = "none"
    /\ \A i \in Steps : board[plan[i].id] = "done"
    /\ outcome' = "ok"
    /\ UNCHANGED <<plan, board>>

GiveUp ==
    /\ outcome = "none" /\ ~Running
    /\ \A i \in Steps : ~CanBegin(i)
    /\ outcome' = "deadlock"
    /\ UNCHANGED <<plan, board>>

BeCancelled ==
    /\ outcome = "none"
    /\ outcome' = "cancelled"
    /\ UNCHANGED <<plan, board>>

Next ==
    \/ \E i \in Steps : Begin(i)
    \/ \E t \in Ids : Finish(t) \/ Block(t)
    \/ Succeed \/ GiveUp \/ BeCancelled

Spec == Init /\ [][Next]_boardVars
=============================================================================
