------------------------------- MODULE Docker -------------------------------
(***************************************************************************)
(* The Docker daemons of the nodes, seen through the command line that     *)
(* docker_ops.py and faucheur.py drive.  The daemons are external: what is *)
(* modelled is what one `docker` call may do to them and what its caller   *)
(* is told, the two being different things when the call times out.        *)
(***************************************************************************)
EXTENDS Naturals, FiniteSets

CONSTANTS
  Noeuds,       \* the node names the database or the configuration may hold
  WORKERS,      \* the nodes named by INSACLOUD_WORKERS, or {LOCAL_WORKER}
  LOCAL_WORKER, \* the node name "local": the controller's own daemon
  Conteneurs,   \* container identifiers, drawn in increasing order
  Rien,         \* "no value"
  Fautes,       \* the kinds of fault a run allows
  MaxPannes     \* bound: how many faults a behaviour may have

ASSUME NoeudsAssumption ==
  /\ WORKERS \subseteq Noeuds
  /\ WORKERS # {}
  /\ LOCAL_WORKER \in Noeuds

ASSUME ConteneursAssumption == Conteneurs \subseteq Nat

ASSUME RienAssumption == Rien \notin Noeuds \cup Conteneurs

ASSUME MaxPannesAssumption == MaxPannes \in Nat

VARIABLES
  conteneurs,   \* every container: its state, its daemon and its name
  joignable,    \* the daemons that answer
  pannes        \* how many faults have happened so far

dockerVars == <<conteneurs, joignable, pannes>>

(***************************************************************************)
(* A name is identified with the first container created under it, which   *)
(* is what six random hexadecimal digits are there to ensure.              *)
(***************************************************************************)
Conteneur ==
  [etat  : {"jamais", "present", "supprime"},
   noeud : Noeuds \cup {Rien},
   nom   : Conteneurs \cup {Rien}]

JamaisCree == [etat |-> "jamais", noeud |-> Rien, nom |-> Rien]

DockerTypeOK ==
  /\ conteneurs \in [Conteneurs -> Conteneur]
  /\ joignable \in [Noeuds -> BOOLEAN]
  /\ pannes \in 0..MaxPannes

DockerInit ==
  /\ conteneurs = [c \in Conteneurs |-> JamaisCree]
  /\ joignable = [n \in Noeuds |-> TRUE]
  /\ pannes = 0

-----------------------------------------------------------------------------
(* docker_command: a name the configuration does not know runs the command *)
(* on the local daemon.                                                    *)
Demon(n) == IF n \in WORKERS THEN n ELSE LOCAL_WORKER

Present(c) == conteneurs[c].etat = "present"

(* What `docker ps -a` with MACHINE_FILTERS lists on the daemon of a node. *)
PresentsSur(n) == {c \in Conteneurs : Present(c) /\ conteneurs[c].noeud = Demon(n)}

NomPris(nom, n) == \E c \in PresentsSur(n) : conteneurs[c].nom = nom

(* The next identifier a daemon will draw.                                 *)
EstNouveau(c) ==
  /\ conteneurs[c].etat = "jamais"
  /\ \A d \in Conteneurs : d < c => conteneurs[d].etat # "jamais"

(* The environment injects a fault of kind f, within the bound.            *)
Panne(f) ==
  /\ f \in Fautes
  /\ pannes < MaxPannes
  /\ pannes' = pannes + 1

-----------------------------------------------------------------------------
(* `docker run --name nom` on node n.  The daemon creates container c.     *)
Creer(c, n, nom) ==
  /\ EstNouveau(c)
  /\ joignable[Demon(n)]
  /\ ~NomPris(nom, n)
  /\ conteneurs' = [conteneurs EXCEPT ![c] =
                      [etat |-> "present", noeud |-> Demon(n), nom |-> nom]]

(* The caller receives the identifier of the container.                    *)
RunReussi(c, n, nom) ==
  /\ Creer(c, n, nom)
  /\ UNCHANGED <<joignable, pannes>>

(* The caller receives a DockerError, the container exists all the same:   *)
(* the answer came after DOCKER_TIMEOUT, or the start failed after the     *)
(* creation.                                                               *)
RunSansReponse(c, n, nom) ==
  /\ Creer(c, n, nom)
  /\ Panne("run_sans_reponse")
  /\ UNCHANGED joignable

(* The caller receives a DockerError and nothing was created: the daemon   *)
(* does not answer, the name is taken, nothing is left to allocate (the    *)
(* bound on Conteneurs plays the part of the port range), or the command   *)
(* is refused for another reason.                                          *)
RunRefuse(n, nom) ==
  /\ \/ /\ \/ ~joignable[Demon(n)]
           \/ NomPris(nom, n)
           \/ \A c \in Conteneurs : ~EstNouveau(c)
        /\ UNCHANGED pannes
     \/ Panne("run_refuse")
  /\ UNCHANGED <<conteneurs, joignable>>

-----------------------------------------------------------------------------
(* `docker rm -f c` on node n: it only finds c among its own containers.   *)
Supprimer(c, n) ==
  conteneurs' = IF c \in PresentsSur(n)
                  THEN [conteneurs EXCEPT ![c].etat = "supprime"]
                  ELSE conteneurs

(* Success, "No such container" included.                                  *)
RmReussi(c, n) ==
  /\ joignable[Demon(n)]
  /\ Supprimer(c, n)
  /\ UNCHANGED <<joignable, pannes>>

(* The daemon removes the container, the caller hears of a failure.        *)
RmSansReponse(c, n) ==
  /\ joignable[Demon(n)]
  /\ Supprimer(c, n)
  /\ Panne("rm_sans_reponse")
  /\ UNCHANGED joignable

(* The removal fails and the container stays.                              *)
RmRefuse(n) ==
  /\ \/ ~joignable[Demon(n)] /\ UNCHANGED pannes
     \/ Panne("rm_refuse")
  /\ UNCHANGED <<conteneurs, joignable>>

RmEchoue(c, n) == RmSansReponse(c, n) \/ RmRefuse(n)

-----------------------------------------------------------------------------
(* The environment of the daemons.                                         *)

(* A daemon stops answering; its containers keep running.                  *)
PanneDocker(n) ==
  /\ joignable[n]
  /\ Panne("panne_docker")
  /\ joignable' = [joignable EXCEPT ![n] = FALSE]
  /\ UNCHANGED conteneurs

RetourDocker(n) ==
  /\ ~joignable[n]
  /\ joignable' = [joignable EXCEPT ![n] = TRUE]
  /\ UNCHANGED <<conteneurs, pannes>>

(* An administrator removes a machine by hand.                             *)
SuppressionAdmin(c) ==
  /\ Present(c)
  /\ Panne("suppression_admin")
  /\ conteneurs' = [conteneurs EXCEPT ![c].etat = "supprime"]
  /\ UNCHANGED joignable
=============================================================================
