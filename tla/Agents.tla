------------------------------- MODULE Agents -------------------------------
(***************************************************************************)
(* The agents of the nodes (worker_agent.py), the two routes of api.py     *)
(* they call, the rows of workers these write (database.py) and the watch  *)
(* of the Faucheur over the rows.  A request that its agent has given up   *)
(* may still be handled, and a transaction reads the row before it writes  *)
(* the columns that it changes and no other: module Database, which takes  *)
(* a heartbeat and a mark as one step each, is coarser.                    *)
(***************************************************************************)
EXTENDS Naturals, FiniteSets

CONSTANTS
  Noeuds,      \* the nodes that run an agent
  Connexions,  \* the HTTP requests in flight at once, taken in order
  Fautes,      \* the kinds of fault a run allows
  MaxPannes    \* bound: how many faults a behaviour may have

ASSUME AgentsAssumption ==
  /\ Noeuds # {}
  /\ Connexions \subseteq Nat
  /\ MaxPannes \in Nat

VARIABLES
  parc,         \* the rows of workers: status, age of last_heartbeat
  docker,       \* the nodes whose Docker daemon answers
  agents,       \* where each agent is in tourner
  http,         \* the requests in flight
  surveillance, \* the rows read by mark_stale_workers_offline
  videe,        \* history: the base has been emptied
  pannes

agentsVars == <<parc, docker, agents, http, surveillance, videe, pannes>>

Statuts == {"inconnu", "AVAILABLE", "OFFLINE"}

LigneWorker == [status : Statuts, frais : BOOLEAN]

Inconnu == [status |-> "inconnu", frais |-> FALSE]

(* "inscrire": the loop that registers; "actif": the loop that beats;      *)
(* "reinscrire": the registration that an unknown node is told to make.    *)
EtapesAgent == {"arret", "inscrire", "actif", "reinscrire"}

Requete ==
  [etat     : {"libre", "recue", "lue"},
   noeud    : Noeuds,
   route    : {"register", "heartbeat"},
   vu       : Statuts,   \* the status that the transaction has read
   attendue : BOOLEAN]   \* the agent still waits for the answer

AgentsTypeOK ==
  /\ parc \in [Noeuds -> LigneWorker]
  /\ docker \in [Noeuds -> BOOLEAN]
  /\ agents \in [Noeuds -> EtapesAgent]
  /\ http \in [Connexions -> Requete]
  /\ surveillance \subseteq Noeuds
  /\ videe \in BOOLEAN
  /\ pannes \in 0..MaxPannes

AucuneRequete ==
  [etat |-> "libre", noeud |-> CHOOSE n \in Noeuds : TRUE, route |-> "register",
   vu |-> "inconnu", attendue |-> FALSE]

AgentsInit ==
  /\ parc = [n \in Noeuds |-> Inconnu]
  /\ docker = [n \in Noeuds |-> TRUE]
  /\ agents = [n \in Noeuds |-> "arret"]
  /\ http = [c \in Connexions |-> AucuneRequete]
  /\ surveillance = {}
  /\ videe = FALSE
  /\ pannes = 0

Connu(n) == parc[n].status # "inconnu"

(* The agent of the node runs and has a daemon to speak for.               *)
Vivant(n) == agents[n] # "arret" /\ docker[n]

Attend(n, c) == http[c].attendue /\ http[c].noeud = n

PanneAgents(f) ==
  /\ f \in Fautes
  /\ pannes < MaxPannes
  /\ pannes' = pannes + 1

-----------------------------------------------------------------------------
(* worker_agent.py                                                         *)

(* Variant: an error is taken for a registration.                          *)
Suite_SansCode(etape, code) ==
  CASE etape = "inscrire" -> "actif"
    [] etape = "actif" /\ code = 404 -> "reinscrire"
    [] etape = "reinscrire" -> "actif"
    [] OTHER -> etape

(* What the agent does of an answer; 0: none, or an error of the network.  *)
Suite(etape, code) ==
  CASE etape = "inscrire" /\ code = 201 -> "actif"
    [] etape = "actif" /\ code = 404 -> "reinscrire"
    [] etape = "reinscrire" -> "actif"
    [] OTHER -> etape

(* systemd starts the agent, at boot or after it has stopped.              *)
DemarrerAgent(n) ==
  /\ agents[n] = "arret"
  /\ agents' = [agents EXCEPT ![n] = "inscrire"]
  /\ UNCHANGED <<parc, docker, http, surveillance, videe, pannes>>

(* A signal, a crash, or the node that goes down.                          *)
ArreterAgent(n) ==
  /\ agents[n] # "arret"
  /\ PanneAgents("arret_agent")
  /\ agents' = [agents EXCEPT ![n] = "arret"]
  /\ http' = [c \in Connexions |->
                IF Attend(n, c) THEN [http[c] EXCEPT !.attendue = FALSE] ELSE http[c]]
  /\ UNCHANGED <<parc, docker, surveillance, videe>>

(* appeler: one request at a time, sent and waited for.                    *)
Appeler(n, route) ==
  /\ \A c \in Connexions : ~Attend(n, c)
  /\ \E c \in Connexions :
       /\ http[c].etat = "libre"
       /\ \A d \in Connexions : d < c => http[d].etat # "libre"
       /\ http' = [http EXCEPT ![c] =
                     [etat |-> "recue", noeud |-> n, route |-> route,
                      vu |-> "inconnu", attendue |-> TRUE]]
  /\ UNCHANGED <<parc, docker, agents, surveillance, videe, pannes>>

(* enregistrer: the controller refuses a node without Docker (400), which  *)
(* tries again, or goes back to its heartbeats.                            *)
Enregistrer(n) ==
  /\ agents[n] \in {"inscrire", "reinscrire"}
  /\ docker[n]
  /\ Appeler(n, "register")

EnregistrerRefuse(n) ==
  /\ agents[n] = "reinscrire"
  /\ ~docker[n]
  /\ \A c \in Connexions : ~Attend(n, c)
  /\ agents' = [agents EXCEPT ![n] = Suite(@, 400)]
  /\ UNCHANGED <<parc, docker, http, surveillance, videe, pannes>>

(* Variant: the heartbeat does not look at Docker.                         *)
Battre_SansDocker(n) ==
  /\ agents[n] = "actif"
  /\ Appeler(n, "heartbeat")

(* battre: nothing is sent while Docker does not answer.                   *)
Battre(n) ==
  /\ agents[n] = "actif"
  /\ docker[n]
  /\ Appeler(n, "heartbeat")

(* The end of request c, and what the agent does of it if it still waits.  *)
Repondre(c, code) ==
  /\ http' = [http EXCEPT ![c] = AucuneRequete]
  /\ agents' = IF http[c].attendue
                 THEN [agents EXCEPT ![http[c].noeud] = Suite(@, code)]
                 ELSE agents

(* TIMEOUT_HTTP passes: the agent gives up, the controller does not know.  *)
Abandonner(c) ==
  /\ http[c].attendue
  /\ PanneAgents("timeout")
  /\ http' = [http EXCEPT ![c].attendue = FALSE]
  /\ agents' = [agents EXCEPT ![http[c].noeud] = Suite(@, 0)]
  /\ UNCHANGED <<parc, docker, surveillance, videe>>

(* The request never gets to the commit: no connection, a process killed.  *)
Perdre(c) ==
  /\ http[c].etat # "libre"
  /\ PanneAgents("perte")
  /\ Repondre(c, 0)
  /\ UNCHANGED <<parc, docker, surveillance, videe>>

-----------------------------------------------------------------------------
(* api.py: enregistrer_worker and battement_de_coeur.                      *)

(* The SELECT of the transaction; a heartbeat of an unknown node is 404.   *)
Lire(c) ==
  /\ http[c].etat = "recue"
  /\ LET n == http[c].noeud
     IN  IF http[c].route = "heartbeat" /\ ~Connu(n)
           THEN Repondre(c, 404)
           ELSE /\ http' = [http EXCEPT ![c].etat = "lue", ![c].vu = parc[n].status]
                /\ UNCHANGED agents
  /\ UNCHANGED <<parc, docker, surveillance, videe, pannes>>

(* Variants: a heartbeat only dates the row; the row is replaced whole by  *)
(* the date.                                                               *)
Dater_SansRetour(n, vu) ==
  parc' = [parc EXCEPT ![n].frais = TRUE]

Dater_Remplace(n, vu) ==
  parc' = [parc EXCEPT ![n] = [frais |-> TRUE]]

(* The UPDATE: the date, and the status when the one that was read differs *)
(* from AVAILABLE.                                                         *)
Dater(n, vu) ==
  parc' = [parc EXCEPT ![n].frais = TRUE,
                       ![n].status = IF vu = "OFFLINE" THEN "AVAILABLE" ELSE @]

(* register_worker: a row for a node that was not there, or its update.    *)
EcrireInscription(c) ==
  /\ http[c].etat = "lue"
  /\ http[c].route = "register"
  /\ LET n == http[c].noeud
         vu == http[c].vu
     IN  \/ /\ vu = "inconnu" /\ ~Connu(n)
            /\ parc' = [parc EXCEPT ![n] = [status |-> "AVAILABLE", frais |-> TRUE]]
            /\ Repondre(c, 201)
         \/ /\ vu # "inconnu" /\ Connu(n)
            /\ Dater(n, vu)
            /\ Repondre(c, 201)
         \/ \* the host name is taken, or the row is gone: an exception, 500
            /\ (vu = "inconnu") = Connu(n)
            /\ Repondre(c, 500)
            /\ UNCHANGED parc
  /\ UNCHANGED <<docker, surveillance, videe, pannes>>

(* worker_heartbeat                                                        *)
EcrireBattement(c) ==
  /\ http[c].etat = "lue"
  /\ http[c].route = "heartbeat"
  /\ LET n == http[c].noeud
     IN  IF Connu(n) THEN Dater(n, http[c].vu) /\ Repondre(c, 200)
                     ELSE Repondre(c, 500) /\ UNCHANGED parc
  /\ UNCHANGED <<docker, surveillance, videe, pannes>>

-----------------------------------------------------------------------------
(* mark_stale_workers_offline                                              *)

Muets == {n \in Noeuds : parc[n].status = "AVAILABLE" /\ ~parc[n].frais}

(* Variant: the query forgets the age of the last heartbeat.               *)
LireMuets_SansDelai ==
  /\ surveillance = {}
  /\ \E n \in Noeuds : parc[n].status = "AVAILABLE"
  /\ surveillance' = {n \in Noeuds : parc[n].status = "AVAILABLE"}
  /\ UNCHANGED <<parc, docker, agents, http, videe, pannes>>

LireMuets ==
  /\ surveillance = {}
  /\ Muets # {}
  /\ surveillance' = Muets
  /\ UNCHANGED <<parc, docker, agents, http, videe, pannes>>

(* The marks are one transaction: a row that is gone cancels all of them.  *)
MarquerHorsLigne ==
  /\ surveillance # {}
  /\ parc' = IF \A n \in surveillance : Connu(n)
               THEN [n \in Noeuds |->
                       IF n \in surveillance THEN [parc[n] EXCEPT !.status = "OFFLINE"]
                                             ELSE parc[n]]
               ELSE parc
  /\ surveillance' = {}
  /\ UNCHANGED <<docker, agents, http, videe, pannes>>

-----------------------------------------------------------------------------
(* The environment.                                                        *)

PanneDocker(n) ==
  /\ docker[n]
  /\ PanneAgents("panne_docker")
  /\ docker' = [docker EXCEPT ![n] = FALSE]
  /\ UNCHANGED <<parc, agents, http, surveillance, videe>>

RetourDocker(n) ==
  /\ ~docker[n]
  /\ docker' = [docker EXCEPT ![n] = TRUE]
  /\ UNCHANGED <<parc, agents, http, surveillance, videe, pannes>>

(* HEARTBEAT_TIMEOUT passes since the last heartbeat of n: what happens to *)
(* a node that does not beat, and a fault for one that does.               *)
VieillirMort(n) ==
  /\ parc[n].frais
  /\ ~Vivant(n)
  /\ parc' = [parc EXCEPT ![n].frais = FALSE]
  /\ UNCHANGED <<docker, agents, http, surveillance, videe, pannes>>

VieillirVivant(n) ==
  /\ parc[n].frais
  /\ Vivant(n)
  /\ PanneAgents("retard")
  /\ parc' = [parc EXCEPT ![n].frais = FALSE]
  /\ UNCHANGED <<docker, agents, http, surveillance, videe>>

(* An operator empties the base (seed.py --reset, or a new file).          *)
ViderBase ==
  /\ PanneAgents("base_videe")
  /\ parc' = [n \in Noeuds |-> Inconnu]
  /\ videe' = TRUE
  /\ UNCHANGED <<docker, agents, http, surveillance>>

-----------------------------------------------------------------------------
Agent(n) == Enregistrer(n) \/ EnregistrerRefuse(n) \/ Battre(n)

Traiter(c) == Lire(c) \/ EcrireInscription(c) \/ EcrireBattement(c)

AgentsNext ==
  \/ \E n \in Noeuds : DemarrerAgent(n) \/ ArreterAgent(n) \/ Agent(n)
  \/ \E c \in Connexions : Abandonner(c) \/ Perdre(c) \/ Traiter(c)
  \/ LireMuets \/ MarquerHorsLigne
  \/ \E n \in Noeuds : \/ PanneDocker(n) \/ RetourDocker(n)
                       \/ VieillirMort(n) \/ VieillirVivant(n)
  \/ ViderBase

AgentsSpec == AgentsInit /\ [][AgentsNext]_agentsVars

(* The agents loop, the requests are handled or lost, the Faucheur watches *)
(* every ten seconds and time passes for the nodes that are silent.  No    *)
(* node is obliged to start, and no daemon to come back.                   *)
AgentsFairSpec ==
  /\ AgentsSpec
  /\ \A n \in Noeuds : WF_agentsVars(Agent(n)) /\ WF_agentsVars(VieillirMort(n))
  /\ \A c \in Connexions : WF_agentsVars(Traiter(c))
  /\ WF_agentsVars(LireMuets) /\ WF_agentsVars(MarquerHorsLigne)

-----------------------------------------------------------------------------
(* Properties                                                              *)

(* worker_agent.tourner leaves the registration loop on a 200 or a 201     *)
(* only: an agent that beats has a row, unless the base was emptied, in    *)
(* spite of answers that are lost and of registrations that race.          *)
InscriptionPrise ==
  ~videe => \A n \in Noeuds : agents[n] = "actif" => Connu(n)

(* The rows as they are once the transaction of the Faucheur, if it has    *)
(* read some, has written its marks.                                       *)
ParcVu ==
  [n \in Noeuds |->
     IF n \in surveillance \/ parc[n].status = "OFFLINE"
       THEN [status |-> "OFFLINE", frais |-> FALSE]
       ELSE parc[n]]

Numeros == CHOOSE r \in [Noeuds -> 1..Cardinality(Noeuds)] :
             \A m, n \in Noeuds : r[m] = r[n] => m = n

(* The register of workers of the platform, with no rental in it.          *)
D == INSTANCE Database WITH parc <- ParcVu,
                            instances <- <<>>, maintenant <- 0,
                            conteneurs <- <<>>, joignable <- docker,
                            WORKERS <- Noeuds, LOCAL_WORKER <- CHOOSE n \in Noeuds : TRUE,
                            Enregistres <- {}, Utilisateurs <- {}, Ids <- {},
                            Conteneurs <- {}, Rien <- 0,
                            Capacite <- [n \in Noeuds |-> 0], Rang <- Numeros,
                            MaxTemps <- 0, MaxFin <- 0

(* Module Database takes a heartbeat and the marks as one step each.  As   *)
(* long as nobody empties the base, the transactions that read and then    *)
(* write amount to those steps, whatever crosses: the marks take place     *)
(* when the rows are read, and a heartbeat that crosses them is lost.      *)
ParcAtomique ==
  /\ D!DatabaseInit
  /\ [][~videe' => \/ \E n \in Noeuds : D!Battre(n) \/ D!Vieillir(n)
                   \/ D!MarkStaleWorkersOffline
                   \/ UNCHANGED ParcVu]_agentsVars

(* A node that stays alive ends up AVAILABLE for good, after any number of *)
(* timeouts, lost requests, OFFLINE marks and emptied bases.               *)
NoeudVivantDisponible ==
  \A n \in Noeuds : <>[]Vivant(n) => <>[](parc[n].status = "AVAILABLE")

(* A node whose agent or whose Docker has died leaves the pool: late       *)
(* requests may bring it back, but not for ever.                           *)
NoeudMortRetire ==
  \A n \in Noeuds :
    ~Vivant(n) /\ parc[n].status = "AVAILABLE" ~> Vivant(n) \/ parc[n].status # "AVAILABLE"
=============================================================================
