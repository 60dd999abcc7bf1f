-------------------------------- MODULE Bail --------------------------------
(***************************************************************************)
(* What InsaCloud promises of each rental, when the recovery of a failed   *)
(* worker is switched off: it is opened once, it is closed once and for    *)
(* all, and never before its machine is gone; a machine that is gone does  *)
(* not come back.                                                          *)
(***************************************************************************)
CONSTANT Baux

VARIABLES
  bail,      \* the state of each rental
  machine    \* whether the machine of the rental exists

bailVars == <<bail, machine>>

BailTypeOK ==
  /\ bail \in [Baux -> {"aucun", "ouvert", "clos"}]
  /\ machine \in [Baux -> BOOLEAN]

BailInit ==
  /\ bail = [b \in Baux |-> "aucun"]
  /\ machine = [b \in Baux |-> FALSE]

(* The machine may already be gone when its rental is written down.        *)
Ouvrir(b) ==
  /\ bail[b] = "aucun"
  /\ bail' = [bail EXCEPT ![b] = "ouvert"]
  /\ \E vivante \in BOOLEAN : machine' = [machine EXCEPT ![b] = vivante]

Perdre(b) ==
  /\ bail[b] = "ouvert"
  /\ machine[b]
  /\ machine' = [machine EXCEPT ![b] = FALSE]
  /\ UNCHANGED bail

Clore(b) ==
  /\ bail[b] = "ouvert"
  /\ ~machine[b]
  /\ bail' = [bail EXCEPT ![b] = "clos"]
  /\ UNCHANGED machine

(* Most steps of the platform leave every rental as it is: saying so first *)
(* changes nothing to the specification, and lets TLC settle them at once. *)
BailNext ==
  \/ UNCHANGED bailVars
  \/ \E b \in Baux : Ouvrir(b) \/ Perdre(b) \/ Clore(b)

BailSpec == BailInit /\ [][BailNext]_bailVars
=============================================================================
