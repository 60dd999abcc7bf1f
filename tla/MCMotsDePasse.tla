---------------------------- MODULE MCMotsDePasse ----------------------------
(* Instances of MotsDePasse for TLC.                                       *)
EXTENDS MotsDePasse

CONSTANTS p1, p2, f
=============================================================================
