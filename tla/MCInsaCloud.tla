---------------------------- MODULE MCInsaCloud -----------------------------
(* Instances of InsaCloud for TLC.                                         *)
EXTENDS Promesses, TLC

CONSTANTS n1, n2, local, u1, u2, p1, p2

MCRang == [n \in Noeuds |-> IF n = n1 THEN 1 ELSE IF n = n2 THEN 2 ELSE 0]

UneParNoeud == [n \in Noeuds |-> 1]

DeuxParNoeud == [n \in Noeuds |-> 2]

(* The processes are interchangeable.                                      *)
Symetrie == Permutations(WebProcs)
=============================================================================
