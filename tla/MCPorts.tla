------------------------------- MODULE MCPorts --------------------------------
(* Instances of Ports for TLC.                                             *)
EXTENDS Ports, TLC

CONSTANTS n1, n2, p1, p2, f, a, b, c

(* The processes and the ports are interchangeable.                        *)
Symetrie == Permutations(Procs) \cup Permutations(PORTS)
=============================================================================
