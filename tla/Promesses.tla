----------------------------- MODULE Promesses ------------------------------
(***************************************************************************)
(* What the documentation, the comments and the tests of InsaCloud say of  *)
(* the program, stated for every interleaving.  Each of these is refuted   *)
(* by a run: the README tells the behaviour that TLC finds.                *)
(***************************************************************************)
EXTENDS Invariant

(* The node, the container and the row that a step of the Faucheur or of a *)
(* request treats.                                                         *)
DetruitParCePas(c) == Present(c) /\ ~Present(c)'

PasDuFaucheur == faucheur' # faucheur /\ UNCHANGED pannes

(* README.md:114, faucheur.py:11: the reconciliation removes a container   *)
(* that the database does not know, hence never that of a running row.     *)
MachineConnueEpargnee ==
  [][A("purger") /\ PasDuFaucheur =>
       \A i \in Ids : EnCours(i) => ~DetruitParCePas(instances[i].cid)]_vars

(* README.md:112: the Faucheur destroys the machines whose end date is     *)
(* past; test_machine_encore_valide_epargnee.                              *)
MachineValideEpargnee ==
  [][A("faucher") /\ PasDuFaucheur =>
       \A i \in Ids : EnCours(i) /\ DetruitParCePas(instances[i].cid) => Echue(i)]_vars

(* services.py:301: the recovery gives an instance up only when its node   *)
(* cannot be reached.                                                      *)
RenonceSiInjoignable ==
  [][A("renoncer") /\ PasDuFaucheur /\ Present(instances[faucheur.inst].cid) =>
       ~EstJoignable(faucheur.noeud)]_vars

(* services.py:195: to stop a machine closes its rental; no machine runs   *)
(* under a closed rental.                                                  *)
MachineSousLocation ==
  \A i \in Ids : EnCours(i) => instances[i].location = "ACTIVE"
=============================================================================
