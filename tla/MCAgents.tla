------------------------------ MODULE MCAgents ------------------------------
(* Instances of Agents for TLC.                                            *)
EXTENDS Agents

CONSTANTS n1, n2
=============================================================================
