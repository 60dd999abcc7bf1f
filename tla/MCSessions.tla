----------------------------- MODULE MCSessions -----------------------------
(* Instances of Sessions for TLC.                                          *)
EXTENDS Sessions

CONSTANTS u1, u2, p1, p2, m1

MCProprietaire == [m \in Machines |-> u1]
=============================================================================
