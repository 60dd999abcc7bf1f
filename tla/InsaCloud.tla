----------------------------- MODULE InsaCloud ------------------------------
(***************************************************************************)
(* The whole platform: the Gunicorn processes (Services), the Faucheur,    *)
(* the database and the Docker daemons they share, the agents of the       *)
(* workers, the clock and the faults.                                      *)
(***************************************************************************)
EXTENDS Faucheur

CONSTANT Agents   \* the nodes that run worker_agent.py

ASSUME AgentsAssumption == Agents \subseteq Noeuds

vars == <<dockerVars, databaseVars, requetes, faucheur>>

TypeOK ==
  /\ DockerTypeOK
  /\ DatabaseTypeOK
  /\ ServicesTypeOK
  /\ FaucheurTypeOK

Init ==
  /\ DockerInit
  /\ DatabaseInit
  /\ ServicesInit
  /\ FaucheurInit

-----------------------------------------------------------------------------
(* The environment.                                                        *)

(* worker_agent.battre: no heartbeat while Docker does not answer; a node  *)
(* the controller does not know is told to register, and does.             *)
BattementAgent(n) ==
  /\ n \in Agents
  /\ joignable[n]
  /\ Battre(n)
  /\ UNCHANGED <<dockerVars, requetes, faucheur>>

(* The heartbeats of n are late by more than HEARTBEAT_TIMEOUT: a fault,   *)
(* unless nobody beats for n (create_instance declared a node that has no  *)
(* agent).                                                                 *)
SilenceAgent(n) ==
  /\ Vieillir(n)
  /\ \/ Panne("silence")
     \/ n \notin Agents \cup {LOCAL_WORKER} /\ UNCHANGED pannes
  /\ UNCHANGED <<conteneurs, joignable, requetes, faucheur>>

PasserLeTemps ==
  /\ Tic
  /\ UNCHANGED <<dockerVars, requetes, faucheur>>

Exploitation ==
  /\ \/ \E n \in Noeuds : PanneDocker(n) \/ RetourDocker(n)
     \/ \E c \in Conteneurs : SuppressionAdmin(c)
  /\ UNCHANGED <<databaseVars, requetes, faucheur>>

Environnement ==
  \/ \E n \in Noeuds : BattementAgent(n) \/ SilenceAgent(n)
  \/ PasserLeTemps
  \/ Exploitation

ProcessusWeb(p) ==
  /\ DebutRequete(p) \/ EtapeWeb(p) \/ ExceptionRequete(p) \/ MortWeb(p)
  /\ UNCHANGED faucheur

Serveur ==
  /\ DemarrerServeur \/ ArretServeur
  /\ UNCHANGED faucheur

ProcessusFaucheur == EtapeFaucheur \/ ExceptionFaucheur \/ CrashFaucheur

Next ==
  \/ \E p \in WebProcs : ProcessusWeb(p)
  \/ Serveur
  \/ ProcessusFaucheur
  \/ Environnement

Spec == Init /\ [][Next]_vars

(***************************************************************************)
(* A request and the Faucheur go on until they are done: every docker call *)
(* and every query ends within its timeout.  The daemons come back, and    *)
(* the clock runs.  Nothing obliges a user to ask, an agent to beat or a   *)
(* fault to happen.                                                        *)
(***************************************************************************)
Equite ==
  /\ \A p \in WebProcs : WF_vars(EtapeWeb(p) /\ UNCHANGED faucheur)
  /\ WF_vars(EtapeFaucheur)
  /\ \A n \in Noeuds : WF_vars(RetourDocker(n) /\ UNCHANGED <<databaseVars, requetes, faucheur>>)
  /\ WF_vars(PasserLeTemps)

FairSpec == Spec /\ Equite

-----------------------------------------------------------------------------
(* Safety                                                                  *)

(* The daemon that hosts the container of a row is the one the docker      *)
(* commands about this row are sent to, whatever moves the row.            *)
ReferenceExacte ==
  \A i \in Ids : instances[i].status # "libre" =>
    /\ conteneurs[instances[i].cid].etat # "jamais"
    /\ conteneurs[instances[i].cid].noeud = Demon(instances[i].worker)

(* The request holds a container that no row mentions yet.                 *)
Tient(p) == Etape(p) \in {"enregistrer", "declarer", "nettoyer"}

(* A container never has two holders among the rows, the requests that     *)
(* have yet to write a row or to clean up, and the recovery about to move  *)
(* a row: no two rentals share a machine, and the clean-up of a rental     *)
(* that failed never destroys the machine of another.                      *)
UnSeulDetenteur ==
  /\ \A i, j \in Ids : instances[i].cid = instances[j].cid =>
                         i = j \/ instances[i].cid = Rien
  /\ \A p, q \in WebProcs : Tient(p) /\ Tient(q) /\ requetes[p].cid = requetes[q].cid =>
                              p = q
  /\ \A i \in Ids, p \in WebProcs : Tient(p) => requetes[p].cid # instances[i].cid
  /\ A("deplacer") =>
       /\ \A i \in Ids : instances[i].cid # faucheur.cid
       /\ \A p \in WebProcs : Tient(p) => requetes[p].cid # faucheur.cid

(* reap_expired: a row marked expired has no machine left, even when the   *)
(* removal and the mark are separated by requests, crashes and recoveries. *)
ExpireeDoncDetruite ==
  \A i \in Ids : instances[i].status = "expired" => ~Present(instances[i].cid)

(* Without recovery, no closed rental leaves a machine behind, whoever     *)
(* closed it: the user, the Faucheur or the reconciliation.                *)
TermineeDoncDetruite ==
  ~AUTO_RECOVERY =>
    \A i \in Ids : instances[i].status \in {"expired", "stopped"} =>
                     ~Present(instances[i].cid)

(* Without recovery, an instance runs as long as its rental is ACTIVE,     *)
(* whoever closes them and in whatever order: prolonger, which tests the   *)
(* one then the other, is refused nothing that runs.  Which of STOPPED and *)
(* EXPIRED a closed rental is may differ from what the instance says.      *)
LocationOuverte ==
  ~AUTO_RECOVERY =>
    \A i \in Ids : instances[i].status # "libre" => (EnCours(i) <=> Prolongeable(i))

(* The quota is tested before the container is created, so that each other *)
(* process may exceed it by one machine, and no more.                      *)
QuotaBorne ==
  ~AUTO_RECOVERY =>
    \A u \in Utilisateurs :
      Cardinality(Actives(u)) <= MAX_INSTANCES_PER_USER + Cardinality(WebProcs) - 1

(* Where every node that hosts machines is in the configuration, the       *)
(* reconciliation only purges containers of no row it had read.            *)
PurgeEpargneLesConnues ==
  (Agents \cup Enregistres \subseteq WORKERS /\ A("purger")) =>
    \A i \in faucheur.liste : instances[i].cid \notin faucheur.orphelins

(* Refinement: without recovery, each row of instances is a Bail.          *)
EtatBail(i) ==
  CASE instances[i].status = "libre" -> "aucun"
    [] instances[i].status = "running" -> "ouvert"
    [] OTHER -> "clos"

MachineBail(i) == instances[i].status # "libre" /\ Present(instances[i].cid)

B == INSTANCE Bail WITH Baux <- Ids,
                        bail <- [i \in Ids |-> EtatBail(i)],
                        machine <- [i \in Ids |-> MachineBail(i)]

RaffineBail == B!BailSpec

(* Refinement, with or without recovery: each row is a BailReprise.        *)
EnReprise(i) ==
  /\ faucheur.etape \in {"replier", "recreer", "deplacer", "renoncer"}
  /\ i \in faucheur.liste

EtatReprise(i) ==
  CASE instances[i].status = "libre" -> "aucun"
    [] instances[i].status = "running" -> "ouvert"
    [] instances[i].status = "expired" -> "expire"
    [] OTHER -> IF EnReprise(i) THEN "suspendu" ELSE "arrete"

R == INSTANCE BailReprise WITH Baux <- Ids,
                               Machines <- Conteneurs,
                               Aucune <- Rien,
                               bail <- [i \in Ids |-> EtatReprise(i)],
                               machine <- [i \in Ids |-> instances[i].cid],
                               vivante <- [i \in Ids |-> MachineBail(i)]

RaffineReprise == R!BailRepriseSpec

(* Why a step may remove the machine of row i: its user asks to stop this  *)
(* very rental, the Faucheur read it as expired, it was not running when   *)
(* the reconciliation read the rows (or a node is not in the               *)
(* configuration), or an administrator does it.                            *)
Motif(i) ==
  \/ \E p \in WebProcs : Etape(p) = "detruire" /\ requetes[p].inst = i
  \/ A("faucher") /\ i \in faucheur.liste
  \/ /\ A("purger")
     /\ Agents \cup Enregistres \subseteq WORKERS => i \notin faucheur.liste
  \/ UNCHANGED <<requetes, faucheur>>

(* No machine of a running row is removed without one of these reasons: no *)
(* clean-up, no stop of another rental and no recovery does it, whatever   *)
(* the interleaving.                                                       *)
DestructionMotivee ==
  [][\A i \in Ids :
       /\ EnCours(i) /\ Present(instances[i].cid)
       /\ conteneurs'[instances[i].cid].etat # "present"
       => Motif(i)]_vars

-----------------------------------------------------------------------------
(* Liveness, under FairSpec.                                               *)

(* An expired rental ends: the Faucheur destroys its machine or its user   *)
(* extends it, in spite of a bounded number of faults.                     *)
EcheanceHonoree ==
  \A i \in Ids : Echue(i) ~> ~Echue(i)

(* A container without a holder: no request and no row will ever name it.  *)
Orphelin(c) ==
  /\ Present(c)
  /\ \A i \in Ids : EnCours(i) => instances[i].cid # c
  /\ \A p \in WebProcs : Tient(p) => requetes[p].cid # c
  /\ ~(A("deplacer") /\ faucheur.cid = c)

(* An orphan on a daemon of the configuration is removed: what a killed    *)
(* request, a timeout, a crash or a recovery leaves behind does not stay.  *)
OrphelinPurge ==
  \A c \in Conteneurs : Orphelin(c) /\ conteneurs[c].noeud \in WORKERS ~> ~Present(c)

(* An instance whose machine is gone does not stay "running".              *)
FantomeArrete ==
  \A i \in Ids :
    EnCours(i) /\ ~Present(instances[i].cid) /\ instances[i].worker \in WORKERS
      ~> ~(EnCours(i) /\ ~Present(instances[i].cid))

(* Every instance of a worker that the watch declares OFFLINE ends up on a *)
(* worker that answers (another one, or the same one whose agent has       *)
(* beaten again), or is stopped; were its new worker to fall silent in     *)
(* turn, it would be moved again.                                          *)
SignalSuivi ==
  \A i \in Ids :
    A("reprendre") /\ EnCours(i) /\ instances[i].worker \in faucheur.noeuds
      ~> ~EnCours(i) \/ EstJoignable(instances[i].worker)
=============================================================================
