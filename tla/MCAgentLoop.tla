----------------------------- MODULE MCAgentLoop ------------------------------
(* Instances of AgentLoop for TLC.                                         *)
EXTENDS AgentLoop

CONSTANTS c1, c2, a1, a2

TwoCalls  == {c1, c2}
TwoAgents == {a1, a2}
=============================================================================
