------------------------------ MODULE Database ------------------------------
(***************************************************************************)
(* The database of InsaCloud (database.py, models.py): the instances with  *)
(* their rentals, and the register of workers.  One operator per           *)
(* transaction, or two when what it writes depends on what it has read:    *)
(* extend_instance computes its date in Python (LireFin, EcrireFin), and   *)
(* the UPDATE of set_instance_status or of move_instance leaves out the    *)
(* status when it is the one that was read (LireStatut).  create_instance  *)
(* is two transactions when the node is unknown.                           *)
(***************************************************************************)
EXTENDS Docker

CONSTANTS
  Utilisateurs, \* the users
  Ids,          \* primary keys of instances, drawn in increasing order
  Capacite,     \* Worker.capacity of each node
  Rang,         \* order of the nodes, by host name and in the configuration
  Enregistres,  \* the nodes already in the table of workers at the start
  MaxTemps,     \* bound: last instant of the clock
  MaxFin        \* bound: last date a rental may be extended to

ASSUME DatabaseAssumption ==
  /\ Ids \subseteq Nat
  /\ Capacite \in [Noeuds -> Nat]
  /\ Rang \in [Noeuds -> Nat]
  /\ \A m, n \in Noeuds : Rang[m] = Rang[n] => m = n
  /\ Enregistres \subseteq Noeuds
  /\ MaxTemps \in Nat
  /\ MaxFin \in Nat
  /\ Rien \notin Utilisateurs \cup Ids

VARIABLES
  instances,    \* the rows of instances, each with its row of rentals
  parc,         \* the rows of workers
  maintenant    \* utc_now()

databaseVars == <<instances, parc, maintenant>>

Statuts == {"running", "expired", "stopped"}

(* Variant: the rental receives the status of the instance as it is.       *)
Correspondance_Identite(s) == s

(* set_instance_status: the state of the rental that goes with a status.   *)
Correspondance(s) ==
  CASE s = "expired" -> "EXPIRED"
    [] s = "stopped" -> "STOPPED"
    [] OTHER -> "ACTIVE"

Instance ==
  [status   : Statuts \cup {"libre"},
   user     : Utilisateurs \cup {Rien},
   cid      : Conteneurs \cup {Rien},
   nom      : Conteneurs \cup {Rien},
   worker   : Noeuds \cup {Rien},
   fin      : Nat,
   location : {"aucune", "ACTIVE", "EXPIRED", "STOPPED"}]

LigneLibre ==
  [status |-> "libre", user |-> Rien, cid |-> Rien, nom |-> Rien,
   worker |-> Rien, fin |-> 0, location |-> "aucune"]

(* last_heartbeat is reduced to its age: within the delay or beyond it.    *)
Worker == [status : {"inconnu", "AVAILABLE", "OFFLINE"}, frais : BOOLEAN]

DatabaseTypeOK ==
  /\ instances \in [Ids -> Instance]
  /\ parc \in [Noeuds -> Worker]
  /\ maintenant \in 0..MaxTemps

DatabaseInit ==
  /\ instances = [i \in Ids |-> LigneLibre]
  /\ parc = [n \in Noeuds |->
               IF n \in Enregistres
                 THEN [status |-> "AVAILABLE", frais |-> TRUE]
                 ELSE [status |-> "inconnu", frais |-> FALSE]]
  /\ maintenant = 0

-----------------------------------------------------------------------------
(* Queries.                                                                *)

EnCours(i) == instances[i].status = "running"

(* count_active_instances                                                  *)
Actives(u) == {i \in Ids : EnCours(i) /\ instances[i].user = u}

(* Variant: the query forgets the status.                                  *)
ActivesSur_Toutes(n) == {i \in Ids : instances[i].status # "libre" /\ instances[i].worker = n}

(* get_instances_on_worker                                                 *)
ActivesSur(n) == {i \in Ids : EnCours(i) /\ instances[i].worker = n}

(* get_expired_instances                                                   *)
Echue(i) == EnCours(i) /\ instances[i].fin <= maintenant

(* est_joignable, and mark_stale_workers_offline's condition               *)
EstJoignable(n) == parc[n].status = "AVAILABLE" /\ parc[n].frais
EstMuet(n) == parc[n].status = "AVAILABLE" /\ ~parc[n].frais

Charge(n) == Cardinality(ActivesSur(n))

(* min(..., key=(running_instances, order)): a set of at most one node.    *)
MoinsCharges(candidats) ==
  {n \in candidats : \A m \in candidats \ {n} :
     \/ Charge(n) < Charge(m)
     \/ Charge(n) = Charge(m) /\ Rang[n] < Rang[m]}

Disponibles == {n \in Noeuds : EstJoignable(n) /\ Charge(n) < Capacite[n]}

(* select_available_worker(prefer): empty when it returns None.            *)
SelectAvailableWorker(prefer) ==
  MoinsCharges(IF Disponibles \cap prefer # {}
                 THEN Disponibles \cap prefer
                 ELSE Disponibles)

EstNouvelId(i) ==
  /\ instances[i].status = "libre"
  /\ \A j \in Ids : j < i => instances[j].status # "libre"

-----------------------------------------------------------------------------
(* Transactions on instances and rentals.                                  *)

(* create_instance, first transaction: the row of a node that it did not   *)
(* find.  The host name is unique, so a second insertion fails.            *)
InsererWorker(n) ==
  /\ parc[n].status = "inconnu"
  /\ parc' = [parc EXCEPT ![n] = [status |-> "AVAILABLE", frais |-> TRUE]]
  /\ UNCHANGED <<instances, maintenant>>

(* create_instance, second transaction: the instance and its rental.       *)
CreateInstance(i, u, c, n, duree) ==
  /\ parc[n].status # "inconnu"
  /\ EstNouvelId(i)
  /\ instances' = [instances EXCEPT ![i] =
                     [status |-> "running", user |-> u, cid |-> c, nom |-> c,
                      worker |-> n, fin |-> maintenant + duree,
                      location |-> "ACTIVE"]]
  /\ UNCHANGED <<parc, maintenant>>

(* session.get of set_instance_status and of move_instance.                *)
LireStatut(i) == instances[i].status

(* The UPDATE of an object that was read with status vu: the ORM only      *)
(* writes the columns that have changed.                                   *)
Modifie(i, vu, s) == IF vu = s THEN instances[i].status ELSE s

(* Variant: the rental is forgotten.                                       *)
SetInstanceStatus_InstanceSeule(i, vu, s) ==
  /\ instances' = [instances EXCEPT ![i].status = Modifie(i, vu, s)]
  /\ UNCHANGED <<parc, maintenant>>

(* set_instance_status once it has read the row: the UPDATE, which always  *)
(* writes terminated_at and locks the row, then the rental, read under     *)
(* this lock.                                                              *)
SetInstanceStatus(i, vu, s) ==
  /\ instances' = [instances EXCEPT ![i].status = Modifie(i, vu, s),
                                    ![i].location = Correspondance(s)]
  /\ UNCHANGED <<parc, maintenant>>

(* Variant: the worker of the row is forgotten.                            *)
MoveInstance_SansNoeud(i, vu, c, n) ==
  /\ instances' = [instances EXCEPT ![i].cid = c,
                                    ![i].status = Modifie(i, vu, "running")]
  /\ UNCHANGED <<parc, maintenant>>

(* move_instance once it has read the row; the rental is not touched.      *)
MoveInstance(i, vu, c, n) ==
  /\ instances' = [instances EXCEPT ![i].cid = c,
                                    ![i].worker = n,
                                    ![i].status = Modifie(i, vu, "running")]
  /\ UNCHANGED <<parc, maintenant>>

(* extend_instance: the test and the new date, then the UPDATE.            *)
Prolongeable(i) == instances[i].location = "ACTIVE"

LireFin(i, duree) == instances[i].fin + duree

EcrireFin(i, fin) ==
  /\ instances' = [instances EXCEPT ![i].fin = fin]
  /\ UNCHANGED <<parc, maintenant>>

-----------------------------------------------------------------------------
(* Transactions on workers, and the clock.                                 *)

(* worker_heartbeat on a known row, register_worker on an unknown one: in  *)
(* both cases the row is AVAILABLE with a fresh heartbeat.                 *)
Battre(n) ==
  /\ parc' = [parc EXCEPT ![n] = [status |-> "AVAILABLE", frais |-> TRUE]]
  /\ UNCHANGED <<instances, maintenant>>

Muets == {n \in Noeuds : EstMuet(n)}

MarkStaleWorkersOffline ==
  /\ parc' = [n \in Noeuds |-> IF EstMuet(n) THEN [parc[n] EXCEPT !.status = "OFFLINE"]
                                             ELSE parc[n]]
  /\ UNCHANGED <<instances, maintenant>>

(* HEARTBEAT_TIMEOUT passes without a heartbeat of node n.                 *)
Vieillir(n) ==
  /\ parc[n].frais
  /\ parc' = [parc EXCEPT ![n].frais = FALSE]
  /\ UNCHANGED <<instances, maintenant>>

Tic ==
  /\ maintenant < MaxTemps
  /\ maintenant' = maintenant + 1
  /\ UNCHANGED <<instances, parc>>
=============================================================================
