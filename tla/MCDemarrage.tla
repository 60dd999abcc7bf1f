----------------------------- MODULE MCDemarrage ----------------------------
(* Instances of Demarrage for TLC: the tables users (1), distributions (2) *)
(* and instances (3), with an index on the last one (4).                   *)
EXTENDS DemarrageInvariant

CONSTANTS web, faucheur

MCTableDe == [o \in Objets |-> IF o = 4 THEN 3 ELSE o]

DeuxVerrous ==
  [f \in Fautes |-> IF f = "verrou" THEN 2 ELSE 1]
=============================================================================
