-------------------------------- MODULE Ports ---------------------------------
(***************************************************************************)
(* The host ports of the machines.  _creer_conteneur draws ports that the  *)
(* rows of the node do not use, and, on the controller's own node, that    *)
(* nothing listens on; docker run then takes them or refuses; a unique     *)
(* index on the rows has the last word.  Rentals, recoveries and ends of   *)
(* rentals go on between these three answers.                              *)
(***************************************************************************)
EXTENDS Naturals, FiniteSets

CONSTANTS
  Noeuds,       \* the workers, each with its daemon
  LOCAL_WORKER, \* the node whose ports can be tested
  Procs,        \* the Gunicorn processes
  Faucheur,     \* the process that recovers machines
  PORTS,        \* PORT_MIN..PORT_MAX
  Conteneurs,   \* container identifiers, drawn in increasing order
  Ids,          \* primary keys of instances, drawn in increasing order
  Essais,       \* the attempts of _creer_conteneur
  Rien,         \* no value
  Fautes,       \* the kinds of fault a run allows
  MaxPannes,    \* bound: how many faults a behaviour may have
  MaxReprises   \* bound: how many recoveries it may have

ASSUME PortsAssumption ==
  /\ LOCAL_WORKER \in Noeuds
  /\ Faucheur \notin Procs
  /\ Conteneurs \subseteq Nat
  /\ Ids \subseteq Nat
  /\ Essais \in Nat \ {0}
  /\ Rien \notin Noeuds \cup PORTS \cup Conteneurs \cup Ids
  /\ MaxPannes \in Nat
  /\ MaxReprises \in Nat

VARIABLES
  conteneurs, \* the containers of all daemons
  instances,  \* the rows
  travaux,    \* the rental, end or recovery that each process is at
  pannes,
  reprises    \* how many recoveries have begun

portsVars == <<conteneurs, instances, travaux, pannes, reprises>>

Acteurs == Procs \cup {Faucheur}

(* "cree": docker run has created it and could not start it, its ports     *)
(* being taken: it keeps its name.  A name is identified with the row that *)
(* the machine is made for, six random digits telling names apart.         *)
Conteneur ==
  [etat : {"jamais", "cree", "present", "supprime"},
   noeud : Noeuds \cup {Rien}, nom : Ids \cup {Rien},
   ssh : PORTS \cup {Rien}, term : PORTS \cup {Rien}]

(* "reserve": the row is not written, its name is drawn.                   *)
Instance ==
  [status : {"libre", "reserve", "running", "stopped"},
   cid : Conteneurs \cup {Rien}, worker : Noeuds \cup {Rien},
   ssh : PORTS \cup {Rien}, term : PORTS \cup {Rien}]

Travail ==
  [etape : {"repos", "ssh", "term", "run", "conflit", "ecrire", "defaire", "rm", "clore"},
   id : Ids \cup {Rien}, noeud : Noeuds \cup {Rien}, essai : 0..Essais,
   ssh : PORTS \cup {Rien}, term : PORTS \cup {Rien}, cid : Conteneurs \cup {Rien}]

Jamais == [etat |-> "jamais", noeud |-> Rien, nom |-> Rien, ssh |-> Rien, term |-> Rien]

Libre == [status |-> "libre", cid |-> Rien, worker |-> Rien, ssh |-> Rien, term |-> Rien]

Repos ==
  [etape |-> "repos", id |-> Rien, noeud |-> Rien, essai |-> 0, ssh |-> Rien,
   term |-> Rien, cid |-> Rien]

PortsTypeOK ==
  /\ conteneurs \in [Conteneurs -> Conteneur]
  /\ instances \in [Ids -> Instance]
  /\ travaux \in [Acteurs -> Travail]
  /\ pannes \in 0..MaxPannes
  /\ reprises \in 0..MaxReprises

PortsInit ==
  /\ conteneurs = [c \in Conteneurs |-> Jamais]
  /\ instances = [i \in Ids |-> Libre]
  /\ travaux = [a \in Acteurs |-> Repos]
  /\ pannes = 0
  /\ reprises = 0

-----------------------------------------------------------------------------
EnCours(i) == instances[i].status = "running"

PannePorts(f) ==
  /\ f \in Fautes
  /\ pannes < MaxPannes
  /\ pannes' = pannes + 1

Avancer(a, etape) == travaux' = [travaux EXCEPT ![a].etape = etape]

Finir(a) == travaux' = [travaux EXCEPT ![a] = Repos]

(* port_in_use: a row of the node holds the port, as any of its ports.     *)
PortInUse(port, n) ==
  \E i \in Ids : EnCours(i) /\ instances[i].worker = n
                 /\ port \in {instances[i].ssh, instances[i].term}

(* A container that runs on the node listens on the port.                  *)
Ecoute(port, n) ==
  \E c \in Conteneurs : conteneurs[c].etat = "present" /\ conteneurs[c].noeud = n
                        /\ port \in {conteneurs[c].ssh, conteneurs[c].term}

(* choose_random_port: port_is_free_on_host is asked of the local node.    *)
Tirables(n, exclude) ==
  {port \in PORTS \ exclude :
     ~PortInUse(port, n) /\ (n = LOCAL_WORKER => ~Ecoute(port, n))}

DuNom(i, n) ==
  {c \in Conteneurs : conteneurs[c].etat \in {"cree", "present"}
                      /\ conteneurs[c].noeud = n /\ conteneurs[c].nom = i}

(* docker rm -f of the containers S: one at most.                          *)
Supprimer(S) ==
  conteneurs' = [c \in Conteneurs |->
                   IF c \in S THEN [conteneurs[c] EXCEPT !.etat = "supprime"]
                              ELSE conteneurs[c]]

-----------------------------------------------------------------------------
(* louer and recreer_ailleurs, up to _creer_conteneur.                     *)

(* The choice of a node is Database's: any node here.                      *)
DebutLouer(p, n) ==
  /\ travaux[p].etape = "repos"
  /\ \E i \in Ids :
       /\ instances[i].status = "libre"
       /\ \A j \in Ids : j < i => instances[j].status # "libre"
       /\ instances' = [instances EXCEPT ![i].status = "reserve"]
       /\ travaux' = [travaux EXCEPT ![p] =
                        [Repos EXCEPT !.etape = "ssh", !.id = i, !.noeud = n, !.essai = 1]]
  /\ UNCHANGED <<conteneurs, pannes, reprises>>

(* The worker of a row is silent; the row, its name and another node.      *)
DebutReprise(i, n) ==
  /\ travaux[Faucheur].etape = "repos"
  /\ EnCours(i)
  /\ instances[i].worker # n
  /\ reprises < MaxReprises
  /\ reprises' = reprises + 1
  /\ travaux' = [travaux EXCEPT ![Faucheur] =
                   [Repos EXCEPT !.etape = "ssh", !.id = i, !.noeud = n, !.essai = 1]]
  /\ UNCHANGED <<conteneurs, instances, pannes>>

(* The rental ends with an error; a recovery marks the row stopped.        *)
Echouer(a) ==
  /\ Finir(a)
  /\ instances' = IF a = Faucheur
                    THEN [instances EXCEPT ![travaux[a].id].status = "stopped"]
                    ELSE instances

TirerSsh(a, port) ==
  /\ travaux[a].etape = "ssh"
  /\ port \in Tirables(travaux[a].noeud, {})
  /\ travaux' = [travaux EXCEPT ![a].etape = "term", ![a].ssh = port]
  /\ UNCHANGED <<conteneurs, instances, pannes, reprises>>

(* term_port; gui_port is drawn in the same way.                           *)
TirerTerm(a, port) ==
  /\ travaux[a].etape = "term"
  /\ port \in Tirables(travaux[a].noeud, {travaux[a].ssh})
  /\ travaux' = [travaux EXCEPT ![a].etape = "run", ![a].term = port]
  /\ UNCHANGED <<conteneurs, instances, pannes, reprises>>

(* A hundred draws in vain.                                                *)
AucunPort(a) ==
  /\ \/ travaux[a].etape = "ssh" /\ Tirables(travaux[a].noeud, {}) = {}
     \/ travaux[a].etape = "term" /\ Tirables(travaux[a].noeud, {travaux[a].ssh}) = {}
  /\ Echouer(a)
  /\ UNCHANGED <<conteneurs, pannes, reprises>>

-----------------------------------------------------------------------------
(* docker run.                                                             *)

Conflit(a) == \E port \in {travaux[a].ssh, travaux[a].term} : Ecoute(port, travaux[a].noeud)

Creer(a, c, etat) ==
  LET t == travaux[a]
  IN  /\ t.etape = "run"
      /\ DuNom(t.id, t.noeud) = {}
      /\ conteneurs[c].etat = "jamais"
      /\ \A d \in Conteneurs : d < c => conteneurs[d].etat # "jamais"
      /\ conteneurs' = [conteneurs EXCEPT ![c] =
                          [etat |-> etat, noeud |-> t.noeud, nom |-> t.id,
                           ssh |-> t.ssh, term |-> t.term]]

RunReussi(a, c) ==
  /\ ~Conflit(a)
  /\ Creer(a, c, "present")
  /\ travaux' = [travaux EXCEPT ![a].etape = "ecrire", ![a].cid = c]
  /\ UNCHANGED <<instances, pannes, reprises>>

(* The daemon starts the machine, the caller hears of a failure.           *)
RunSansReponse(a, c) ==
  /\ ~Conflit(a)
  /\ Creer(a, c, "present")
  /\ PannePorts("run_sans_reponse")
  /\ Echouer(a)
  /\ UNCHANGED reprises

(* "port is already allocated", once the container is created.             *)
RunConflit(a, c) ==
  /\ Conflit(a)
  /\ Creer(a, c, "cree")
  /\ Avancer(a, "conflit")
  /\ UNCHANGED <<instances, pannes, reprises>>

(* Another error, the name being taken for one: no other attempt.          *)
RunRefuse(a) ==
  /\ travaux[a].etape = "run"
  /\ \/ /\ \/ DuNom(travaux[a].id, travaux[a].noeud) # {}
           \/ \A c \in Conteneurs : conteneurs[c].etat # "jamais"
        /\ UNCHANGED pannes
     \/ PannePorts("run_refuse")
  /\ Echouer(a)
  /\ UNCHANGED <<conteneurs, reprises>>

(* Variant: one attempt too many.                                          *)
Reessayer_EncoreUn(a) ==
  IF travaux[a].essai > Essais
    THEN Echouer(a)
    ELSE /\ travaux' = [travaux EXCEPT ![a].etape = "ssh", ![a].essai = @ + 1]
         /\ UNCHANGED instances

(* The next attempt, with other ports.                                     *)
Reessayer(a) ==
  IF travaux[a].essai = Essais
    THEN Echouer(a)
    ELSE /\ travaux' = [travaux EXCEPT ![a].etape = "ssh", ![a].essai = @ + 1]
         /\ UNCHANGED instances

(* Variant: the cleaning runs on the default node.                         *)
Nettoyer_NoeudLocal(a) ==
  /\ travaux[a].etape = "conflit"
  /\ Supprimer(DuNom(travaux[a].id, LOCAL_WORKER))
  /\ Reessayer(a)
  /\ UNCHANGED <<pannes, reprises>>

(* _supprimer_sans_bruit, by name, then the next attempt.                  *)
Nettoyer(a) ==
  /\ travaux[a].etape = "conflit"
  /\ \/ Supprimer(DuNom(travaux[a].id, travaux[a].noeud)) /\ UNCHANGED pannes
     \/ PannePorts("rm_refuse") /\ UNCHANGED conteneurs
  /\ Reessayer(a)
  /\ UNCHANGED reprises

-----------------------------------------------------------------------------
(* The row.                                                                *)

(* uq_worker_port_actif, the row i itself aside.                           *)
Unique(i, n, ssh) ==
  \A j \in Ids \ {i} : EnCours(j) /\ instances[j].worker = n => instances[j].ssh # ssh

(* Variant: the recovery leaves the terminal port of the old machine.      *)
Ecrire_SansTerm(a) ==
  LET t == travaux[a]
  IN  /\ t.etape = "ecrire"
      /\ Unique(t.id, t.noeud, t.ssh)
      /\ instances' = [instances EXCEPT ![t.id] =
                         [status |-> "running", cid |-> t.cid, worker |-> t.noeud,
                          ssh |-> t.ssh, term |-> IF a = Faucheur THEN @.term ELSE t.term]]
      /\ Finir(a)
      /\ UNCHANGED <<conteneurs, pannes, reprises>>

(* create_instance, and move_instance: they write the same columns.        *)
Ecrire(a) ==
  LET t == travaux[a]
  IN  /\ t.etape = "ecrire"
      /\ Unique(t.id, t.noeud, t.ssh)
      /\ instances' = [instances EXCEPT ![t.id] =
                         [status |-> "running", cid |-> t.cid, worker |-> t.noeud,
                          ssh |-> t.ssh, term |-> t.term]]
      /\ Finir(a)
      /\ UNCHANGED <<conteneurs, pannes, reprises>>

(* The index refuses the row, or the database fails: louer cleans up, by   *)
(* identifier; recreer_ailleurs lets the exception through.                *)
EcrireEchoue(a) ==
  /\ travaux[a].etape = "ecrire"
  /\ \/ ~Unique(travaux[a].id, travaux[a].noeud, travaux[a].ssh) /\ UNCHANGED pannes
     \/ PannePorts("base")
  /\ IF a = Faucheur THEN Finir(a) ELSE Avancer(a, "defaire")
  /\ UNCHANGED <<conteneurs, instances, reprises>>

(* Variant: the container is left to the reconciliation.                   *)
Defaire_Rien(p) ==
  /\ travaux[p].etape = "defaire"
  /\ Finir(p)
  /\ UNCHANGED <<conteneurs, instances, pannes, reprises>>

Defaire(p) ==
  /\ travaux[p].etape = "defaire"
  /\ \/ Supprimer({travaux[p].cid}) /\ UNCHANGED pannes
     \/ PannePorts("rm_refuse") /\ UNCHANGED conteneurs
  /\ Finir(p)
  /\ UNCHANGED <<instances, reprises>>

-----------------------------------------------------------------------------
(* arreter: the container, then the row.                                   *)
DebutArreter(p, i) ==
  /\ travaux[p].etape = "repos"
  /\ EnCours(i)
  /\ travaux' = [travaux EXCEPT ![p] =
                   [Repos EXCEPT !.etape = "rm", !.id = i, !.cid = instances[i].cid,
                                 !.noeud = instances[i].worker]]
  /\ UNCHANGED <<conteneurs, instances, pannes, reprises>>

Detruire(p) ==
  /\ travaux[p].etape = "rm"
  /\ \/ Supprimer({travaux[p].cid}) /\ Avancer(p, "clore") /\ UNCHANGED pannes
     \/ PannePorts("rm_refuse") /\ Finir(p) /\ UNCHANGED conteneurs
  /\ UNCHANGED <<instances, reprises>>

Clore(p) ==
  /\ travaux[p].etape = "clore"
  /\ instances' = [instances EXCEPT ![travaux[p].id].status = "stopped"]
  /\ Finir(p)
  /\ UNCHANGED <<conteneurs, pannes, reprises>>

(* A process is killed.                                                    *)
Mourir(a) ==
  /\ travaux[a].etape # "repos"
  /\ PannePorts("mort")
  /\ Finir(a)
  /\ UNCHANGED <<conteneurs, instances, reprises>>

-----------------------------------------------------------------------------
CreerConteneur(a) ==
  \/ \E port \in PORTS : TirerSsh(a, port) \/ TirerTerm(a, port)
  \/ \E c \in Conteneurs : RunReussi(a, c) \/ RunSansReponse(a, c) \/ RunConflit(a, c)
  \/ AucunPort(a) \/ RunRefuse(a) \/ Nettoyer(a)

PortsNext ==
  \/ \E p \in Procs, n \in Noeuds : DebutLouer(p, n)
  \/ \E i \in Ids, n \in Noeuds : DebutReprise(i, n)
  \/ \E a \in Acteurs : CreerConteneur(a) \/ Ecrire(a) \/ EcrireEchoue(a) \/ Mourir(a)
  \/ \E p \in Procs : Defaire(p) \/ Detruire(p) \/ Clore(p)
  \/ \E p \in Procs, i \in Ids : DebutArreter(p, i)

PortsSpec == PortsInit /\ [][PortsNext]_portsVars

-----------------------------------------------------------------------------
(* Properties                                                              *)

Tourne(i) == EnCours(i) /\ conteneurs[instances[i].cid].etat = "present"

(* The containers of node n that listen on the port.                       *)
Ecouteurs(port, n) ==
  {c \in Conteneurs : conteneurs[c].etat = "present" /\ conteneurs[c].noeud = n
                      /\ port \in {conteneurs[c].ssh, conteneurs[c].term}}

(* The addresses that the dashboard gives for a running machine lead to    *)
(* this machine and to no other, although ports are tested before they are *)
(* taken, and the index on the rows covers ssh_port only.                  *)
AdresseJuste ==
  \A i \in Ids : Tourne(i) =>
    \A port \in {instances[i].ssh, instances[i].term} :
      Ecouteurs(port, instances[i].worker) = {instances[i].cid}

(* Containers that wait for what comes next of a rental.                   *)
EnChantier(c) ==
  \E a \in Acteurs :
    \/ travaux[a].etape \in {"ecrire", "defaire"} /\ travaux[a].cid = c
    \/ travaux[a].etape = "conflit" /\ c \in DuNom(travaux[a].id, travaux[a].noeud)

(* louer: "to never leave an orphan container".  Two rentals that draw the *)
(* same port, and an end of rental whose row outlives its machine, leave   *)
(* none behind when nothing fails and nothing is recovered.                *)
SansPanneSansOrphelin ==
  pannes = 0 /\ reprises = 0 =>
    \A c \in Conteneurs : conteneurs[c].etat \in {"cree", "present"} =>
      (\E i \in Ids : EnCours(i) /\ instances[i].cid = c) \/ EnChantier(c)

(* _supprimer_sans_bruit removes by name, on the node of the attempt, what *)
(* the attempt has left: the machine of a running row goes with the end of *)
(* its rental only, a machine of the same name being alive elsewhere.      *)
NettoyageCible ==
  [][\A i \in Ids :
       Tourne(i) /\ conteneurs'[instances[i].cid].etat # "present" =>
         \E p \in Procs : travaux[p].etape = "rm" /\ travaux[p].id = i]_portsVars
=============================================================================
