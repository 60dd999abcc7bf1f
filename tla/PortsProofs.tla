---------------------------- MODULE PortsProofs -----------------------------
(***************************************************************************)
(* Proofs about Ports: no two machines of a node share a port, the rows    *)
(* give the ports of their machines, the cleaning of an attempt spares     *)
(* every machine in use, and nothing is left behind while nothing fails.   *)
(***************************************************************************)
EXTENDS Ports, TLAPS

Creation == {"ssh", "term", "run", "conflit", "ecrire", "defaire"}

Connue == {"ecrire", "defaire", "rm", "clore"}

(* What a process at work holds: a row that nobody else makes a machine    *)
(* for, and a container made for this row.                                 *)
EmploiOK(a) ==
  /\ a = Faucheur => travaux[a].etape \notin {"defaire", "rm", "clore"}
  /\ travaux[a].etape # "repos" => travaux[a].id \in Ids /\ travaux[a].noeud \in Noeuds
  /\ travaux[a].etape \in Connue =>
       /\ travaux[a].cid \in Conteneurs
       /\ conteneurs[travaux[a].cid].etat # "jamais"
       /\ conteneurs[travaux[a].cid].nom = travaux[a].id
  /\ travaux[a].etape = "ecrire" =>
       /\ conteneurs[travaux[a].cid].noeud = travaux[a].noeud
       /\ conteneurs[travaux[a].cid].ssh = travaux[a].ssh
       /\ conteneurs[travaux[a].cid].term = travaux[a].term
  /\ a \in Procs /\ travaux[a].etape \in Creation =>
       instances[travaux[a].id].status = "reserve"
  /\ a = Faucheur /\ travaux[a].etape \in Creation =>
       /\ instances[travaux[a].id].status \in {"running", "stopped"}
       /\ instances[travaux[a].id].worker # travaux[a].noeud
  /\ travaux[a].etape \in {"rm", "clore"} =>
       instances[travaux[a].id].status \in {"running", "stopped"}

Emplois == \A a \in Acteurs : EmploiOK(a)

Distincts ==
  \A p, q \in Procs :
    /\ p # q
    /\ travaux[p].etape \in Creation
    /\ travaux[q].etape \in Creation
    => travaux[p].id # travaux[q].id

(* A running row tells the truth about its container.                      *)
LigneOK(i) ==
  /\ instances[i].worker \in Noeuds
  /\ instances[i].cid \in Conteneurs
  /\ conteneurs[instances[i].cid].etat # "jamais"
  /\ conteneurs[instances[i].cid].nom = i
  /\ conteneurs[instances[i].cid].noeud = instances[i].worker
  /\ conteneurs[instances[i].cid].ssh = instances[i].ssh
  /\ conteneurs[instances[i].cid].term = instances[i].term

Lignes == \A i \in Ids : EnCours(i) => LigneOK(i)

(* The daemons give a port once.                                           *)
Partage ==
  \A c, d \in Conteneurs :
    /\ c # d
    /\ conteneurs[c].etat = "present"
    /\ conteneurs[d].etat = "present"
    /\ conteneurs[c].noeud = conteneurs[d].noeud
    => {conteneurs[c].ssh, conteneurs[c].term} \cap {conteneurs[d].ssh, conteneurs[d].term} = {}

IInvPorts == PortsTypeOK /\ Emplois /\ Distincts /\ Lignes /\ Partage

(* While nothing fails and nothing is recovered, an end of rental is about *)
(* the machine of its row, and the Faucheur has no work here.              *)
FinOK(p) ==
  /\ travaux[p].etape \in {"rm", "clore"} /\ EnCours(travaux[p].id) =>
       instances[travaux[p].id].cid = travaux[p].cid
  /\ travaux[p].etape = "clore" => conteneurs[travaux[p].cid].etat = "supprime"

FinsOK ==
  pannes = 0 /\ reprises = 0 =>
    /\ travaux[Faucheur].etape = "repos"
    /\ \A p \in Procs : FinOK(p)

(* What makes process a, or a row, answer for container c.                 *)
Tient(a, c) ==
  \/ travaux[a].etape \in {"ecrire", "defaire"} /\ travaux[a].cid = c
  \/ travaux[a].etape = "conflit" /\ c \in DuNom(travaux[a].id, travaux[a].noeud)

DUneLigne(c) == \E i \in Ids : EnCours(i) /\ instances[i].cid = c

Vit(c) == conteneurs[c].etat \in {"cree", "present"}

IInvOrphelin == FinsOK /\ SansPanneSansOrphelin

USE DEF Acteurs

-----------------------------------------------------------------------------
(* What every step keeps of the containers and the rows.                   *)

(* A container that exists keeps its identity.                             *)
Gardes ==
  \A c \in Conteneurs : conteneurs[c].etat # "jamais" =>
    /\ conteneurs'[c].etat # "jamais"
    /\ conteneurs'[c].noeud = conteneurs[c].noeud
    /\ conteneurs'[c].nom = conteneurs[c].nom
    /\ conteneurs'[c].ssh = conteneurs[c].ssh
    /\ conteneurs'[c].term = conteneurs[c].term

(* A row that process b is at is left alone, or ends.                      *)
RangGarde(b) ==
  travaux[b].etape # "repos" =>
    LET i == travaux[b].id
    IN  \/ instances'[i] = instances[i]
        \/ /\ instances[i].status \in {"running", "stopped"}
           /\ instances'[i].status \in {"running", "stopped"}
           /\ b = Faucheur => instances'[i].worker = instances[i].worker

LEMMA EmploiGarde ==
  ASSUME NEW b \in Acteurs, EmploiOK(b), Gardes, RangGarde(b), travaux'[b] = travaux[b]
  PROVE  EmploiOK(b)'
<1>1. travaux[b].etape \in Connue =>
        /\ conteneurs'[travaux[b].cid].etat # "jamais"
        /\ conteneurs'[travaux[b].cid].nom = travaux[b].id
  BY DEF EmploiOK, Gardes
<1>2. travaux[b].etape = "ecrire" =>
        /\ conteneurs'[travaux[b].cid].noeud = travaux[b].noeud
        /\ conteneurs'[travaux[b].cid].ssh = travaux[b].ssh
        /\ conteneurs'[travaux[b].cid].term = travaux[b].term
  BY DEF EmploiOK, Gardes, Connue
<1>3. b \in Procs /\ travaux[b].etape \in Creation =>
        instances'[travaux[b].id].status = "reserve"
  BY DEF EmploiOK, RangGarde, Creation
<1>4. b = Faucheur /\ travaux[b].etape \in Creation =>
        /\ instances'[travaux[b].id].status \in {"running", "stopped"}
        /\ instances'[travaux[b].id].worker # travaux[b].noeud
  BY DEF EmploiOK, RangGarde, Creation
<1>5. travaux[b].etape \in {"rm", "clore"} =>
        instances'[travaux[b].id].status \in {"running", "stopped"}
  BY DEF EmploiOK, RangGarde
<1> QED
  BY <1>1, <1>2, <1>3, <1>4, <1>5 DEF EmploiOK

(* A row that is left alone, or stops running, still tells the truth.      *)
LEMMA LignesGardees ==
  ASSUME Lignes, Gardes,
         \A i \in Ids : instances'[i].status = "running" => instances'[i] = instances[i]
  PROVE  Lignes'
BY DEF Lignes, LigneOK, Gardes, EnCours

(* A step that starts no container leaves the ports as they are.           *)
LEMMA PartageGarde ==
  ASSUME Partage, Gardes,
         \A c \in Conteneurs : conteneurs'[c].etat = "present" => conteneurs[c].etat = "present"
  PROVE  Partage'
<1> SUFFICES ASSUME NEW c \in Conteneurs, NEW d \in Conteneurs, c # d,
                    conteneurs'[c].etat = "present", conteneurs'[d].etat = "present",
                    conteneurs'[c].noeud = conteneurs'[d].noeud
             PROVE  {conteneurs'[c].ssh, conteneurs'[c].term}
                      \cap {conteneurs'[d].ssh, conteneurs'[d].term} = {}
  BY DEF Partage
<1>1. conteneurs[c].etat = "present" /\ conteneurs[d].etat = "present"
  OBVIOUS
<1>2. /\ conteneurs'[c].noeud = conteneurs[c].noeud
      /\ conteneurs'[c].ssh = conteneurs[c].ssh
      /\ conteneurs'[c].term = conteneurs[c].term
      /\ conteneurs'[d].noeud = conteneurs[d].noeud
      /\ conteneurs'[d].ssh = conteneurs[d].ssh
      /\ conteneurs'[d].term = conteneurs[d].term
  BY <1>1 DEF Gardes
<1>3. {conteneurs[c].ssh, conteneurs[c].term} \cap {conteneurs[d].ssh, conteneurs[d].term} = {}
  BY <1>1, <1>2 DEF Partage
<1> QED
  BY <1>2, <1>3

(* docker rm.                                                              *)
LEMMA SupprimerGarde ==
  ASSUME PortsTypeOK, NEW S, Supprimer(S)
  PROVE  /\ conteneurs' \in [Conteneurs -> Conteneur]
         /\ Gardes
         /\ \A c \in Conteneurs : conteneurs'[c].etat = "present" => conteneurs[c].etat = "present"
         /\ \A c \in Conteneurs \ S : conteneurs'[c] = conteneurs[c]
         /\ \A c \in Conteneurs : c \in S => conteneurs'[c].etat = "supprime"
BY DEF PortsTypeOK, Conteneur, Supprimer, Gardes

LEMMA PannePortsType ==
  ASSUME PortsTypeOK, NEW k, PannePorts(k)
  PROVE  pannes' \in 0..MaxPannes /\ pannes' # 0
BY PortsAssumption DEF PortsTypeOK, PannePorts

(* The steps that give no row a new machine: what remains is what the      *)
(* process itself holds afterwards, and the ports of a new container.      *)
LEMMA PasOrdinaire ==
  ASSUME IInvPorts, NEW a \in Acteurs, PortsTypeOK', Gardes,
         \A b \in Acteurs \ {a} : travaux'[b] = travaux[b] /\ RangGarde(b),
         EmploiOK(a)',
         \A i \in Ids : instances'[i].status = "running" => instances'[i] = instances[i],
         Partage',
         travaux'[a].etape \in Creation =>
           travaux[a].etape \in Creation /\ travaux'[a].id = travaux[a].id
  PROVE  IInvPorts'
<1>1. Emplois'
  BY EmploiGarde DEF IInvPorts, Emplois
<1>2. Distincts'
  BY DEF IInvPorts, Distincts
<1>3. Lignes'
  BY LignesGardees DEF IInvPorts
<1> QED
  BY <1>1, <1>2, <1>3 DEF IInvPorts

(* The same, when neither the containers nor the rows change.              *)
LEMMA PasSeul ==
  ASSUME IInvPorts, NEW a \in Acteurs, NEW u \in Travail,
         travaux' = [travaux EXCEPT ![a] = u],
         UNCHANGED <<conteneurs, instances>>,
         pannes' \in 0..MaxPannes, reprises' \in 0..MaxReprises,
         EmploiOK(a)',
         u.etape \in Creation => travaux[a].etape \in Creation /\ u.id = travaux[a].id
  PROVE  IInvPorts'
<1>1. PortsTypeOK'
  BY DEF IInvPorts, PortsTypeOK
<1>2. Gardes /\ \A b \in Acteurs \ {a} : travaux'[b] = travaux[b] /\ RangGarde(b)
  BY DEF Gardes, RangGarde, IInvPorts, PortsTypeOK
<1>3. travaux'[a] = u
  BY DEF IInvPorts, PortsTypeOK
<1>4. Partage'
  BY <1>2, PartageGarde DEF IInvPorts
<1> QED
  BY <1>1, <1>2, <1>3, <1>4, PasOrdinaire

LEMMA InitIInvPorts == PortsInit => IInvPorts
<1> SUFFICES ASSUME PortsInit
             PROVE  IInvPorts
  OBVIOUS
<1>1. PortsTypeOK
  BY PortsAssumption DEF PortsInit, PortsTypeOK, Conteneur, Instance, Travail, Jamais, Libre, Repos
<1>2. Emplois
  BY DEF PortsInit, Emplois, EmploiOK, Repos, Creation, Connue
<1>3. Distincts
  BY DEF PortsInit, Distincts, Repos, Creation
<1>4. Lignes
  BY DEF PortsInit, Lignes, EnCours, Libre
<1>5. Partage
  BY DEF PortsInit, Partage, Jamais
<1> QED
  BY <1>1, <1>2, <1>3, <1>4, <1>5 DEF IInvPorts

(* Rien is a legal value of every field of Repos.                          *)
LEMMA ReposType == Repos \in Travail
BY PortsAssumption DEF Repos, Travail

(* A process that comes to rest holds nothing.                             *)
LEMMA ReposOK ==
  ASSUME NEW a \in Acteurs, travaux'[a] = Repos
  PROVE  EmploiOK(a)'
BY DEF EmploiOK, Repos, Creation, Connue

LEMMA FinirGarde ==
  ASSUME IInvPorts, NEW a \in Acteurs, Finir(a), UNCHANGED <<conteneurs, instances, reprises>>,
         pannes' \in 0..MaxPannes
  PROVE  IInvPorts'
<1>1. travaux'[a] = Repos /\ Repos.etape = "repos"
  BY DEF Finir, IInvPorts, PortsTypeOK, Repos
<1>2. EmploiOK(a)' /\ Repos.etape \notin Creation
  BY <1>1, ReposOK DEF Creation
<1>3. reprises' \in 0..MaxReprises
  BY DEF IInvPorts, PortsTypeOK
<1> QED
  BY <1>2, <1>3, ReposType, PasSeul DEF Finir

(* Echouer: a recovery that fails marks its row stopped.                   *)
LEMMA EchouerGarde ==
  ASSUME IInvPorts, NEW a \in Acteurs, travaux[a].etape \in Creation, Echouer(a),
         pannes' \in 0..MaxPannes, UNCHANGED reprises,
         Gardes, conteneurs' \in [Conteneurs -> Conteneur], Partage'
  PROVE  IInvPorts'
<1>0. travaux[a].id \in Ids
  BY DEF IInvPorts, Emplois, EmploiOK, Creation
<1>1. travaux'[a] = Repos /\ \A b \in Acteurs \ {a} : travaux'[b] = travaux[b]
  BY DEF Echouer, Finir, IInvPorts, PortsTypeOK
<1>2. travaux' \in [Acteurs -> Travail]
  BY ReposType DEF Echouer, Finir, IInvPorts, PortsTypeOK
<1>3. instances' \in [Ids -> Instance]
  BY <1>0 DEF Echouer, IInvPorts, PortsTypeOK, Instance
<1>4. PortsTypeOK'
  BY <1>2, <1>3 DEF IInvPorts, PortsTypeOK
<1>5. \A i \in Ids : instances'[i].status = "running" => instances'[i] = instances[i]
  BY <1>0 DEF Echouer, IInvPorts, PortsTypeOK
<1>6. ASSUME NEW b \in Acteurs \ {a}
      PROVE  RangGarde(b)
  <2>1. CASE a # Faucheur
    BY <2>1 DEF Echouer, RangGarde
  <2>2. CASE a = Faucheur
    <3>1. instances[travaux[a].id].status \in {"running", "stopped"} /\ b # Faucheur
      BY <2>2 DEF IInvPorts, Emplois, EmploiOK
    <3>2. instances'[travaux[a].id].status = "stopped"
      BY <1>0, <2>2 DEF Echouer, IInvPorts, PortsTypeOK
    <3>3. \A i \in Ids \ {travaux[a].id} : instances'[i] = instances[i]
      BY <2>2 DEF Echouer, IInvPorts, PortsTypeOK
    <3>4. travaux[b].etape # "repos" => travaux[b].id \in Ids
      BY DEF IInvPorts, Emplois, EmploiOK
    <3> QED
      BY <3>1, <3>2, <3>3, <3>4 DEF RangGarde
  <2> QED
    BY <2>1, <2>2
<1>7. travaux'[a].etape \notin Creation
  BY <1>1 DEF Repos, Creation
<1>8. EmploiOK(a)'
  BY <1>1, ReposOK
<1> QED
  BY <1>1, <1>4, <1>5, <1>6, <1>7, <1>8, PasOrdinaire
-----------------------------------------------------------------------------
(* The invariant, action by action.                                        *)

LEMMA DebutType ==
  ASSUME NEW i \in Ids, NEW n \in Noeuds
  PROVE  [Repos EXCEPT !.etape = "ssh", !.id = i, !.noeud = n, !.essai = 1] \in Travail
<1> DEFINE u == [Repos EXCEPT !.etape = "ssh", !.id = i]
           v == [u EXCEPT !.noeud = n]
<1>1. u \in Travail
  BY ReposType DEF Travail
<1>2. v \in Travail
  BY <1>1 DEF Travail
<1>3. [v EXCEPT !.essai = 1] \in Travail
  <2>1. 1 \in 0..Essais
    BY PortsAssumption
  <2> HIDE DEF v
  <2> QED
    BY <1>2, <2>1 DEF Travail
<1>4. [Repos EXCEPT !.etape = "ssh", !.id = i, !.noeud = n, !.essai = 1] = [v EXCEPT !.essai = 1]
  OBVIOUS
<1> QED
  BY <1>3, <1>4

LEMMA DebutLouerGarde ==
  ASSUME IInvPorts, NEW p \in Procs, NEW n \in Noeuds, DebutLouer(p, n)
  PROVE  IInvPorts'
<1>1. PICK i \in Ids :
        /\ instances[i].status = "libre"
        /\ instances' = [instances EXCEPT ![i].status = "reserve"]
        /\ travaux' = [travaux EXCEPT ![p] =
                         [Repos EXCEPT !.etape = "ssh", !.id = i, !.noeud = n, !.essai = 1]]
  BY DEF DebutLouer
<1>2. UNCHANGED <<conteneurs, pannes, reprises>>
  BY DEF DebutLouer
<1>3. [Repos EXCEPT !.etape = "ssh", !.id = i, !.noeud = n, !.essai = 1] \in Travail
  BY DebutType
<1>4. PortsTypeOK'
  <2>1. travaux' \in [Acteurs -> Travail]
    BY <1>1, <1>3 DEF IInvPorts, PortsTypeOK
  <2>2. instances' \in [Ids -> Instance]
    BY <1>1 DEF IInvPorts, PortsTypeOK, Instance
  <2> QED
    BY <1>2, <2>1, <2>2 DEF IInvPorts, PortsTypeOK
<1>5. Gardes
  BY <1>2 DEF Gardes
<1>6. /\ travaux'[p].etape = "ssh" /\ travaux'[p].id = i /\ travaux'[p].noeud = n
      /\ instances'[i].status = "reserve"
      /\ p # Faucheur
  BY <1>1, PortsAssumption DEF Repos, IInvPorts, PortsTypeOK
<1>7. ASSUME NEW b \in Acteurs \ {p}
      PROVE  /\ travaux'[b] = travaux[b]
             /\ RangGarde(b)
             /\ travaux[b].etape \in Creation => travaux[b].id # i
  <2>1. travaux'[b] = travaux[b]
    BY <1>1 DEF IInvPorts, PortsTypeOK
  <2>2. travaux[b].etape # "repos" => travaux[b].id # i
    BY <1>1 DEF IInvPorts, Emplois, EmploiOK, Creation, PortsTypeOK, Travail
  <2>3. \A j \in Ids \ {i} : instances'[j] = instances[j]
    BY <1>1 DEF IInvPorts, PortsTypeOK
  <2>4. travaux[b].etape # "repos" => travaux[b].id \in Ids
    BY DEF IInvPorts, Emplois, EmploiOK
  <2>5. RangGarde(b)
    BY <2>2, <2>3, <2>4 DEF RangGarde
  <2> QED
    BY <2>1, <2>2, <2>5 DEF Creation
<1>8. EmploiOK(p)'
  BY <1>6 DEF EmploiOK, Creation, Connue
<1>9. Emplois'
  BY <1>5, <1>7, <1>8, EmploiGarde DEF IInvPorts, Emplois
<1>10. Distincts'
  BY <1>6, <1>7 DEF IInvPorts, Distincts
<1>11. Lignes'
  <2>1. \A j \in Ids : instances'[j].status = "running" => instances'[j] = instances[j]
    BY <1>1, <1>6 DEF IInvPorts, PortsTypeOK
  <2> QED
    BY <1>5, <2>1, LignesGardees DEF IInvPorts
<1>12. Partage'
  BY <1>2, <1>5, PartageGarde DEF IInvPorts
<1> QED
  BY <1>4, <1>9, <1>10, <1>11, <1>12 DEF IInvPorts

LEMMA DebutRepriseGarde ==
  ASSUME IInvPorts, NEW i \in Ids, NEW n \in Noeuds, DebutReprise(i, n)
  PROVE  IInvPorts'
<1> DEFINE u == [Repos EXCEPT !.etape = "ssh", !.id = i, !.noeud = n, !.essai = 1]
<1>1. u \in Travail
  BY DebutType
<1>2. u.etape = "ssh" /\ u.id = i /\ u.noeud = n
  BY DEF Repos
<1>3. travaux'[Faucheur] = u /\ Faucheur \notin Procs
  BY PortsAssumption DEF DebutReprise, IInvPorts, PortsTypeOK
<1>4. PortsTypeOK'
  <2>1. travaux' \in [Acteurs -> Travail]
    BY <1>1 DEF DebutReprise, IInvPorts, PortsTypeOK
  <2>2. reprises' \in 0..MaxReprises
    BY PortsAssumption DEF DebutReprise, IInvPorts, PortsTypeOK
  <2> QED
    BY <2>1, <2>2 DEF DebutReprise, IInvPorts, PortsTypeOK
<1>5. EmploiOK(Faucheur)'
  BY <1>2, <1>3 DEF EmploiOK, DebutReprise, EnCours, Creation, Connue
<1>6. \A b \in Acteurs \ {Faucheur} : travaux'[b] = travaux[b]
  BY DEF DebutReprise, IInvPorts, PortsTypeOK
<1>7. Emplois'
  <2>1. Gardes /\ \A b \in Acteurs : RangGarde(b)
    BY DEF Gardes, RangGarde, DebutReprise
  <2> QED
    BY <1>5, <1>6, <2>1, EmploiGarde DEF IInvPorts, Emplois
<1>8. Distincts'
  BY <1>3, <1>6 DEF IInvPorts, Distincts
<1>9. Lignes' /\ Partage'
  BY DEF DebutReprise, IInvPorts, Lignes, LigneOK, EnCours, Partage
<1> QED
  BY <1>4, <1>7, <1>8, <1>9 DEF IInvPorts

LEMMA TirerGarde ==
  ASSUME IInvPorts, NEW a \in Acteurs, NEW port \in PORTS,
         TirerSsh(a, port) \/ TirerTerm(a, port)
  PROVE  IInvPorts'
<1>1. UNCHANGED <<conteneurs, instances, pannes, reprises>>
  BY DEF TirerSsh, TirerTerm
<1>2. PICK u \in Travail :
        /\ travaux' = [travaux EXCEPT ![a] = u]
        /\ u.id = travaux[a].id
        /\ u.noeud = travaux[a].noeud
        /\ u.etape \in {"term", "run"}
  <2>0. travaux[a] \in Travail
    BY DEF IInvPorts, PortsTypeOK
  <2>1. CASE TirerSsh(a, port)
    <3> DEFINE u == [travaux[a] EXCEPT !.etape = "term", !.ssh = port]
    <3>1. u \in Travail
      BY <2>0 DEF Travail
    <3>2. u.id = travaux[a].id /\ u.noeud = travaux[a].noeud /\ u.etape = "term"
      BY <2>0 DEF Travail
    <3>3. travaux' = [travaux EXCEPT ![a] = u]
      BY <2>1 DEF TirerSsh
    <3> QED
      BY <3>1, <3>2, <3>3
  <2>2. CASE TirerTerm(a, port)
    <3> DEFINE u == [travaux[a] EXCEPT !.etape = "run", !.term = port]
    <3>1. u \in Travail
      BY <2>0 DEF Travail
    <3>2. u.id = travaux[a].id /\ u.noeud = travaux[a].noeud /\ u.etape = "run"
      BY <2>0 DEF Travail
    <3>3. travaux' = [travaux EXCEPT ![a] = u]
      BY <2>2 DEF TirerTerm
    <3> QED
      BY <3>1, <3>2, <3>3
  <2> QED
    BY <2>1, <2>2
<1>3. travaux[a].etape \in {"ssh", "term"}
  BY DEF TirerSsh, TirerTerm
<1>4. travaux'[a] = u
  BY <1>2 DEF IInvPorts, PortsTypeOK
<1>5. EmploiOK(a)'
  BY <1>1, <1>2, <1>3, <1>4 DEF IInvPorts, Emplois, EmploiOK, Creation, Connue
<1>6. travaux[a].etape \in Creation
  BY <1>3 DEF Creation
<1>7. pannes' \in 0..MaxPannes /\ reprises' \in 0..MaxReprises
  BY <1>1 DEF IInvPorts, PortsTypeOK
<1> QED
  BY <1>1, <1>2, <1>5, <1>6, <1>7, PasSeul

LEMMA AucunPortGarde ==
  ASSUME IInvPorts, NEW a \in Acteurs, AucunPort(a)
  PROVE  IInvPorts'
<1>1. travaux[a].etape \in Creation
  BY DEF AucunPort, Creation
<1>2. Gardes /\ conteneurs' = conteneurs
  BY DEF AucunPort, Gardes
<1>3. /\ pannes' \in 0..MaxPannes
      /\ conteneurs' \in [Conteneurs -> Conteneur]
      /\ UNCHANGED reprises
  BY DEF AucunPort, IInvPorts, PortsTypeOK
<1>4. Echouer(a)
  BY DEF AucunPort
<1>5. Partage'
  BY <1>2, PartageGarde DEF IInvPorts
<1> QED
  BY <1>1, <1>2, <1>3, <1>4, <1>5, EchouerGarde

(* docker run.                                                             *)
LEMMA CreerGarde ==
  ASSUME IInvPorts, NEW a \in Acteurs, NEW c \in Conteneurs,
         NEW etat \in {"cree", "present"}, Creer(a, c, etat),
         etat = "present" => ~Conflit(a)
  PROVE  /\ conteneurs' \in [Conteneurs -> Conteneur]
         /\ conteneurs[c].etat = "jamais"
         /\ \A d \in Conteneurs \ {c} : conteneurs'[d] = conteneurs[d]
         /\ conteneurs'[c].etat = etat
         /\ conteneurs'[c].noeud = travaux[a].noeud
         /\ conteneurs'[c].nom = travaux[a].id
         /\ conteneurs'[c].ssh = travaux[a].ssh
         /\ conteneurs'[c].term = travaux[a].term
         /\ Gardes
         /\ Partage'
<1>1. /\ conteneurs[c].etat = "jamais"
      /\ conteneurs' = [conteneurs EXCEPT ![c] =
                          [etat |-> etat, noeud |-> travaux[a].noeud, nom |-> travaux[a].id,
                           ssh |-> travaux[a].ssh, term |-> travaux[a].term]]
  BY DEF Creer
<1>2. /\ conteneurs' \in [Conteneurs -> Conteneur]
      /\ \A d \in Conteneurs \ {c} : conteneurs'[d] = conteneurs[d]
      /\ conteneurs'[c] = [etat |-> etat, noeud |-> travaux[a].noeud, nom |-> travaux[a].id,
                           ssh |-> travaux[a].ssh, term |-> travaux[a].term]
  BY <1>1 DEF IInvPorts, PortsTypeOK, Travail, Conteneur
<1>3. Gardes
  BY <1>1, <1>2 DEF Gardes
<1>4. \A d \in Conteneurs :
        etat = "present" /\ conteneurs[d].etat = "present" /\ conteneurs[d].noeud = travaux[a].noeud
        => {conteneurs[d].ssh, conteneurs[d].term} \cap {travaux[a].ssh, travaux[a].term} = {}
  BY DEF Conflit, Ecoute
<1>5. Partage'
  <2> SUFFICES ASSUME NEW d \in Conteneurs, NEW e \in Conteneurs, d # e,
                      conteneurs'[d].etat = "present", conteneurs'[e].etat = "present",
                      conteneurs'[d].noeud = conteneurs'[e].noeud
               PROVE  {conteneurs'[d].ssh, conteneurs'[d].term}
                        \cap {conteneurs'[e].ssh, conteneurs'[e].term} = {}
    BY DEF Partage
  <2>1. CASE d # c /\ e # c
    BY <1>2, <2>1 DEF IInvPorts, Partage
  <2>2. CASE d = c
    BY <1>2, <1>4, <2>2
  <2>3. CASE e = c
    BY <1>2, <1>4, <2>3
  <2> QED
    BY <2>1, <2>2, <2>3
<1> QED
  BY <1>1, <1>2, <1>3, <1>5
LEMMA EtapeType ==
  ASSUME NEW t \in Travail, NEW c \in Conteneurs,
         NEW e \in {"ssh", "conflit", "ecrire", "defaire", "clore"}
  PROVE  /\ [t EXCEPT !.etape = e] \in Travail
         /\ [t EXCEPT !.etape = e, !.cid = c] \in Travail
BY DEF Travail

LEMMA RunReussiGarde ==
  ASSUME IInvPorts, NEW a \in Acteurs, NEW c \in Conteneurs, RunReussi(a, c)
  PROVE  IInvPorts'
<1> DEFINE u == [travaux[a] EXCEPT !.etape = "ecrire", !.cid = c]
<1>1. Creer(a, c, "present") /\ ~Conflit(a) /\ travaux[a].etape = "run"
  BY DEF RunReussi, Creer
<1>2. travaux[a] \in Travail
  BY DEF IInvPorts, PortsTypeOK
<1>3. /\ u \in Travail
      /\ u.etape = "ecrire" /\ u.cid = c /\ u.id = travaux[a].id /\ u.noeud = travaux[a].noeud
      /\ u.ssh = travaux[a].ssh /\ u.term = travaux[a].term
  <2>1. u \in Travail
    BY <1>2, EtapeType
  <2> QED
    BY <1>2, <2>1 DEF Travail
<1>4. travaux' = [travaux EXCEPT ![a] = u]
  BY DEF RunReussi
<1> HIDE DEF u
<1>5. travaux'[a] = u /\ \A b \in Acteurs \ {a} : travaux'[b] = travaux[b]
  BY <1>4 DEF IInvPorts, PortsTypeOK
<1>6. Gardes /\ Partage' /\ conteneurs' \in [Conteneurs -> Conteneur]
  BY <1>1, CreerGarde
<1>7. /\ conteneurs'[c].etat = "present"
      /\ conteneurs'[c].nom = travaux[a].id /\ conteneurs'[c].noeud = travaux[a].noeud
      /\ conteneurs'[c].ssh = travaux[a].ssh /\ conteneurs'[c].term = travaux[a].term
  BY <1>1, CreerGarde
<1>8. UNCHANGED <<instances, pannes, reprises>>
  BY DEF RunReussi
<1>9. PortsTypeOK'
  BY <1>3, <1>4, <1>6, <1>8 DEF IInvPorts, PortsTypeOK
<1>10. EmploiOK(a)'
  <2>1. EmploiOK(a)
    BY DEF IInvPorts, Emplois
  <2> QED
    BY <1>1, <1>3, <1>5, <1>7, <1>8, <2>1 DEF EmploiOK, Creation, Connue
<1>11. \A b \in Acteurs : RangGarde(b)
  BY <1>8 DEF RangGarde
<1>12. travaux[a].etape \in Creation
  BY <1>1 DEF Creation
<1> QED
  BY <1>3, <1>5, <1>6, <1>8, <1>9, <1>10, <1>11, <1>12, PasOrdinaire

LEMMA RunSansReponseGarde ==
  ASSUME IInvPorts, NEW a \in Acteurs, NEW c \in Conteneurs, RunSansReponse(a, c)
  PROVE  IInvPorts'
<1>1. Creer(a, c, "present") /\ ~Conflit(a) /\ travaux[a].etape \in Creation
  BY DEF RunSansReponse, Creer, Creation
<1>2. Gardes /\ Partage' /\ conteneurs' \in [Conteneurs -> Conteneur]
  BY <1>1, CreerGarde
<1>3. pannes' \in 0..MaxPannes
  BY PannePortsType DEF RunSansReponse, IInvPorts
<1> QED
  BY <1>1, <1>2, <1>3, EchouerGarde DEF RunSansReponse

LEMMA RunConflitGarde ==
  ASSUME IInvPorts, NEW a \in Acteurs, NEW c \in Conteneurs, RunConflit(a, c)
  PROVE  IInvPorts'
<1> DEFINE u == [travaux[a] EXCEPT !.etape = "conflit"]
<1>1. Creer(a, c, "cree") /\ travaux[a].etape = "run"
  BY DEF RunConflit, Creer
<1>2. travaux[a] \in Travail
  BY DEF IInvPorts, PortsTypeOK
<1>3. u \in Travail /\ u.etape = "conflit" /\ u.id = travaux[a].id /\ u.noeud = travaux[a].noeud
  <2>1. u \in Travail
    BY <1>2 DEF Travail
  <2> QED
    BY <1>2, <2>1 DEF Travail
<1>4. travaux' = [travaux EXCEPT ![a] = u]
  BY DEF RunConflit, Avancer
<1> HIDE DEF u
<1>5. travaux'[a] = u /\ \A b \in Acteurs \ {a} : travaux'[b] = travaux[b]
  BY <1>4 DEF IInvPorts, PortsTypeOK
<1>6. Gardes /\ Partage' /\ conteneurs' \in [Conteneurs -> Conteneur]
  BY <1>1, CreerGarde
<1>7. UNCHANGED <<instances, pannes, reprises>>
  BY DEF RunConflit
<1>8. PortsTypeOK'
  BY <1>3, <1>4, <1>6, <1>7 DEF IInvPorts, PortsTypeOK
<1>9. EmploiOK(a)'
  <2>1. EmploiOK(a)
    BY DEF IInvPorts, Emplois
  <2> QED
    BY <1>1, <1>3, <1>5, <1>7, <2>1 DEF EmploiOK, Creation, Connue
<1>10. \A b \in Acteurs : RangGarde(b)
  BY <1>7 DEF RangGarde
<1>11. travaux[a].etape \in Creation
  BY <1>1 DEF Creation
<1> QED
  BY <1>3, <1>5, <1>6, <1>7, <1>8, <1>9, <1>10, <1>11, PasOrdinaire

LEMMA RunRefuseGarde ==
  ASSUME IInvPorts, NEW a \in Acteurs, RunRefuse(a)
  PROVE  IInvPorts'
<1>1. travaux[a].etape \in Creation /\ Gardes /\ conteneurs' = conteneurs
  BY DEF RunRefuse, Creation, Gardes
<1>2. pannes' \in 0..MaxPannes
  BY PannePortsType DEF RunRefuse, IInvPorts, PortsTypeOK
<1>3. conteneurs' \in [Conteneurs -> Conteneur]
  BY <1>1 DEF IInvPorts, PortsTypeOK
<1>4. Partage'
  BY <1>1, PartageGarde DEF IInvPorts
<1> QED
  BY <1>1, <1>2, <1>3, <1>4, EchouerGarde DEF RunRefuse

(* Reessayer, whatever the cleaning has removed.                           *)
LEMMA ReessayerGarde ==
  ASSUME IInvPorts, NEW a \in Acteurs, travaux[a].etape = "conflit", Reessayer(a),
         Gardes, Partage', conteneurs' \in [Conteneurs -> Conteneur],
         pannes' \in 0..MaxPannes, UNCHANGED reprises
  PROVE  IInvPorts'
<1>1. CASE travaux[a].essai = Essais
  <2>1. Echouer(a) /\ travaux[a].etape \in Creation
    BY <1>1 DEF Reessayer, Creation
  <2> QED
    BY <2>1, EchouerGarde
<1>2. CASE travaux[a].essai # Essais
  <2> DEFINE u == [travaux[a] EXCEPT !.etape = "ssh", !.essai = @ + 1]
  <2>1. travaux[a] \in Travail
    BY DEF IInvPorts, PortsTypeOK
  <2>2. travaux[a].essai + 1 \in 0..Essais
    BY <1>2, <2>1, PortsAssumption DEF Travail
  <2>3. u \in Travail
    BY <2>1, <2>2 DEF Travail
  <2>4. u.etape = "ssh" /\ u.id = travaux[a].id /\ u.noeud = travaux[a].noeud
    BY <2>1, <2>3 DEF Travail
  <2>5. travaux' = [travaux EXCEPT ![a] = u] /\ UNCHANGED instances
    BY <1>2 DEF Reessayer
  <2> HIDE DEF u
  <2>6. travaux'[a] = u /\ \A b \in Acteurs \ {a} : travaux'[b] = travaux[b]
    BY <2>5 DEF IInvPorts, PortsTypeOK
  <2>7. PortsTypeOK'
    BY <2>3, <2>5 DEF IInvPorts, PortsTypeOK
  <2>8. EmploiOK(a)'
    <3>1. EmploiOK(a)
      BY DEF IInvPorts, Emplois
    <3> QED
      BY <2>4, <2>5, <2>6, <3>1 DEF EmploiOK, Creation, Connue
  <2>9. \A b \in Acteurs : RangGarde(b)
    BY <2>5 DEF RangGarde
  <2>10. travaux[a].etape \in Creation
    BY DEF Creation
  <2> QED
    BY <2>4, <2>5, <2>6, <2>7, <2>8, <2>9, <2>10, PasOrdinaire
<1> QED
  BY <1>1, <1>2

LEMMA NettoyerGarde ==
  ASSUME IInvPorts, NEW a \in Acteurs, Nettoyer(a)
  PROVE  IInvPorts'
<1>1. travaux[a].etape = "conflit" /\ Reessayer(a) /\ UNCHANGED reprises
  BY DEF Nettoyer
<1>2. CASE Supprimer(DuNom(travaux[a].id, travaux[a].noeud)) /\ UNCHANGED pannes
  <2>1. /\ Gardes
        /\ conteneurs' \in [Conteneurs -> Conteneur]
        /\ \A c \in Conteneurs : conteneurs'[c].etat = "present" => conteneurs[c].etat = "present"
    BY <1>2, SupprimerGarde DEF IInvPorts
  <2>2. Partage'
    BY <2>1, PartageGarde DEF IInvPorts
  <2>3. pannes' \in 0..MaxPannes
    BY <1>2 DEF IInvPorts, PortsTypeOK
  <2> QED
    BY <1>1, <2>1, <2>2, <2>3, ReessayerGarde
<1>3. CASE PannePorts("rm_refuse") /\ UNCHANGED conteneurs
  <2>1. Gardes /\ conteneurs' \in [Conteneurs -> Conteneur]
    BY <1>3 DEF Gardes, IInvPorts, PortsTypeOK
  <2>2. Partage'
    BY <1>3, <2>1, PartageGarde DEF IInvPorts
  <2>3. pannes' \in 0..MaxPannes
    BY <1>3, PannePortsType DEF IInvPorts
  <2> QED
    BY <1>1, <2>1, <2>2, <2>3, ReessayerGarde
<1> QED
  BY <1>2, <1>3 DEF Nettoyer
LEMMA EcrireGarde ==
  ASSUME IInvPorts, NEW a \in Acteurs, Ecrire(a)
  PROVE  IInvPorts'
<1> DEFINE t == travaux[a]
           ligne == [status |-> "running", cid |-> t.cid, worker |-> t.noeud,
                     ssh |-> t.ssh, term |-> t.term]
<1>1. /\ t \in Travail /\ t.etape = "ecrire"
      /\ instances' = [instances EXCEPT ![t.id] = ligne]
      /\ UNCHANGED <<conteneurs, pannes, reprises>>
      /\ Finir(a)
  BY DEF Ecrire, IInvPorts, PortsTypeOK
<1>2. EmploiOK(a)
  BY DEF IInvPorts, Emplois
<1>3. /\ t.id \in Ids /\ t.cid \in Conteneurs /\ t.noeud \in Noeuds
      /\ conteneurs[t.cid].etat # "jamais" /\ conteneurs[t.cid].nom = t.id
      /\ conteneurs[t.cid].noeud = t.noeud
      /\ conteneurs[t.cid].ssh = t.ssh /\ conteneurs[t.cid].term = t.term
  BY <1>1, <1>2 DEF EmploiOK, Connue
<1>4. ligne \in Instance
  BY <1>1, <1>3 DEF Travail, Instance
<1>5. /\ travaux'[a] = Repos
      /\ \A b \in Acteurs \ {a} : travaux'[b] = travaux[b]
      /\ instances'[t.id] = ligne
      /\ \A i \in Ids \ {t.id} : instances'[i] = instances[i]
  BY <1>1, <1>3 DEF Finir, IInvPorts, PortsTypeOK
<1>6. PortsTypeOK'
  <2>1. travaux' \in [Acteurs -> Travail]
    BY <1>1, ReposType DEF Finir, IInvPorts, PortsTypeOK
  <2>2. instances' \in [Ids -> Instance]
    BY <1>1, <1>4 DEF IInvPorts, PortsTypeOK
  <2> QED
    BY <1>1, <2>1, <2>2 DEF IInvPorts, PortsTypeOK
<1>7. Gardes
  BY <1>1 DEF Gardes
<1>8. ASSUME NEW b \in Acteurs \ {a}
      PROVE  RangGarde(b)
  <2>1. EmploiOK(b) /\ Faucheur \notin Procs
    BY PortsAssumption DEF IInvPorts, Emplois
  <2>2. CASE travaux[b].id # t.id
    BY <1>5, <2>1, <2>2 DEF RangGarde, EmploiOK
  <2>3. CASE travaux[b].id = t.id /\ a \in Procs
    <3>1. instances[t.id].status = "reserve"
      BY <1>1, <1>2, <2>3 DEF EmploiOK, Creation
    <3>2. travaux[b].etape \notin {"rm", "clore"}
      BY <2>1, <2>3, <3>1 DEF EmploiOK
    <3>3. b = Faucheur => travaux[b].etape \notin Creation
      BY <2>1, <2>3, <3>1 DEF EmploiOK
    <3>4. b \in Procs => travaux[b].etape \notin Creation
      BY <1>1, <2>3 DEF IInvPorts, Distincts, Creation
    <3>5. travaux[b].etape = "repos"
      BY <3>2, <3>3, <3>4 DEF IInvPorts, PortsTypeOK, Travail, Creation
    <3> QED
      BY <3>5 DEF RangGarde
  <2>4. CASE travaux[b].id = t.id /\ a = Faucheur
    <3>1. instances[t.id].status \in {"running", "stopped"}
      BY <1>1, <1>2, <2>4 DEF EmploiOK, Creation
    <3>2. instances'[t.id].status = "running"
      BY <1>5
    <3> QED
      BY <2>4, <3>1, <3>2 DEF RangGarde
  <2> QED
    BY <2>2, <2>3, <2>4
<1>9. Emplois'
  BY <1>5, <1>7, <1>8, ReposOK, EmploiGarde DEF IInvPorts, Emplois
<1>10. Distincts'
  BY <1>5 DEF IInvPorts, Distincts, Repos, Creation
<1>11. Lignes'
  <2> SUFFICES ASSUME NEW i \in Ids, EnCours(i)'
               PROVE  LigneOK(i)'
    BY DEF Lignes
  <2>1. CASE i = t.id
    BY <1>1, <1>3, <1>5, <2>1 DEF LigneOK
  <2>2. CASE i # t.id
    <3>1. instances'[i] = instances[i]
      BY <1>5, <2>2
    <3>2. LigneOK(i)
      BY <3>1 DEF IInvPorts, Lignes, EnCours
    <3> QED
      BY <1>1, <3>1, <3>2 DEF LigneOK
  <2> QED
    BY <2>1, <2>2
<1>12. Partage'
  BY <1>1, <1>7, PartageGarde DEF IInvPorts
<1> QED
  BY <1>6, <1>9, <1>10, <1>11, <1>12 DEF IInvPorts

LEMMA EcrireEchoueGarde ==
  ASSUME IInvPorts, NEW a \in Acteurs, EcrireEchoue(a)
  PROVE  IInvPorts'
<1>1. /\ travaux[a].etape = "ecrire"
      /\ UNCHANGED <<conteneurs, instances, reprises>>
  BY DEF EcrireEchoue
<1>2. pannes' \in 0..MaxPannes
  BY PannePortsType DEF EcrireEchoue, IInvPorts, PortsTypeOK
<1>3. CASE a = Faucheur
  BY <1>1, <1>2, <1>3, FinirGarde DEF EcrireEchoue
<1>4. CASE a # Faucheur
  <2> DEFINE u == [travaux[a] EXCEPT !.etape = "defaire"]
  <2>1. travaux[a] \in Travail
    BY DEF IInvPorts, PortsTypeOK
  <2>2. u \in Travail
    BY <2>1 DEF Travail
  <2>3. /\ u.etape = "defaire" /\ u.id = travaux[a].id /\ u.noeud = travaux[a].noeud
        /\ u.cid = travaux[a].cid
    BY <2>1, <2>2 DEF Travail
  <2>4. travaux' = [travaux EXCEPT ![a] = u]
    BY <1>4 DEF EcrireEchoue, Avancer
  <2> HIDE DEF u
  <2>5. travaux'[a] = u /\ travaux[a].etape \in Creation
    BY <1>1, <2>4 DEF IInvPorts, PortsTypeOK, Creation
  <2>6. EmploiOK(a)'
    <3>1. EmploiOK(a)
      BY DEF IInvPorts, Emplois
    <3> QED
      BY <1>1, <1>4, <2>3, <2>5, <3>1 DEF EmploiOK, Creation, Connue
  <2>7. reprises' \in 0..MaxReprises
    BY <1>1 DEF IInvPorts, PortsTypeOK
  <2> QED
    BY <1>1, <1>2, <2>2, <2>3, <2>4, <2>5, <2>6, <2>7, PasSeul
<1> QED
  BY <1>3, <1>4

(* A process removes its container, and does what follows.                 *)
LEMMA SupprimerPuis ==
  ASSUME IInvPorts, NEW a \in Acteurs, NEW S, NEW u \in Travail, Supprimer(S),
         travaux' = [travaux EXCEPT ![a] = u], UNCHANGED <<instances, pannes, reprises>>,
         EmploiOK(a)', u.etape \notin Creation
  PROVE  IInvPorts'
<1>1. /\ Gardes
      /\ conteneurs' \in [Conteneurs -> Conteneur]
      /\ \A c \in Conteneurs : conteneurs'[c].etat = "present" => conteneurs[c].etat = "present"
  BY SupprimerGarde DEF IInvPorts
<1>2. Partage'
  BY <1>1, PartageGarde DEF IInvPorts
<1>3. travaux'[a] = u /\ \A b \in Acteurs \ {a} : travaux'[b] = travaux[b] /\ RangGarde(b)
  BY DEF RangGarde, IInvPorts, PortsTypeOK
<1>4. PortsTypeOK'
  BY <1>1 DEF IInvPorts, PortsTypeOK
<1> QED
  BY <1>1, <1>2, <1>3, <1>4, PasOrdinaire

LEMMA DefaireGarde ==
  ASSUME IInvPorts, NEW p \in Procs, Defaire(p)
  PROVE  IInvPorts'
<1>1. CASE Supprimer({travaux[p].cid}) /\ UNCHANGED pannes
  <2>1. travaux' = [travaux EXCEPT ![p] = Repos] /\ UNCHANGED <<instances, reprises>>
    BY DEF Defaire, Finir
  <2>2. travaux'[p] = Repos
    BY <2>1 DEF IInvPorts, PortsTypeOK
  <2>3. EmploiOK(p)' /\ Repos.etape \notin Creation
    BY <2>2, ReposOK DEF Repos, Creation
  <2> QED
    BY <1>1, <2>1, <2>3, ReposType, SupprimerPuis
<1>2. CASE PannePorts("rm_refuse") /\ UNCHANGED conteneurs
  BY <1>2, PannePortsType, FinirGarde DEF Defaire, IInvPorts
<1> QED
  BY <1>1, <1>2 DEF Defaire

LEMMA DebutArreterType ==
  ASSUME NEW i \in Ids, instances[i].cid \in Conteneurs, instances[i].worker \in Noeuds,
         NEW u,
         u = [Repos EXCEPT !.etape = "rm", !.id = i, !.cid = instances[i].cid,
                           !.noeud = instances[i].worker]
  PROVE  /\ u \in Travail
         /\ u.etape = "rm" /\ u.id = i /\ u.cid = instances[i].cid
         /\ u.noeud = instances[i].worker
<1> DEFINE v == [Repos EXCEPT !.etape = "rm", !.id = i]
<1>1. v \in Travail
  BY ReposType DEF Travail
<1>2. u = [v EXCEPT !.cid = instances[i].cid, !.noeud = instances[i].worker]
  OBVIOUS
<1>3. u \in Travail
  <2> HIDE DEF v
  <2> QED
    BY <1>1, <1>2 DEF Travail
<1>4. u.etape = "rm" /\ u.id = i /\ u.cid = instances[i].cid /\ u.noeud = instances[i].worker
  BY <1>2 DEF Repos
<1> QED
  BY <1>3, <1>4

LEMMA DebutArreterGarde ==
  ASSUME IInvPorts, NEW p \in Procs, NEW i \in Ids, DebutArreter(p, i)
  PROVE  IInvPorts'
<1>1. LigneOK(i)
  BY DEF DebutArreter, IInvPorts, Lignes
<1> DEFINE u == [Repos EXCEPT !.etape = "rm", !.id = i, !.cid = instances[i].cid,
                            !.noeud = instances[i].worker]
<1>2. /\ u \in Travail
      /\ travaux' = [travaux EXCEPT ![p] = u]
      /\ u.etape = "rm" /\ u.id = i /\ u.cid = instances[i].cid
      /\ u.noeud = instances[i].worker
  <2>1. instances[i].cid \in Conteneurs /\ instances[i].worker \in Noeuds
    BY <1>1 DEF LigneOK
  <2>2. travaux' = [travaux EXCEPT ![p] = u]
    BY DEF DebutArreter
  <2>3. /\ u \in Travail
        /\ u.etape = "rm" /\ u.id = i /\ u.cid = instances[i].cid
        /\ u.noeud = instances[i].worker
    <3> HIDE DEF u
    <3> QED
      BY <2>1, DebutArreterType DEF u
  <2> QED
    BY <2>2, <2>3
<1> HIDE DEF u
<1>3. UNCHANGED <<conteneurs, instances, pannes, reprises>> /\ p # Faucheur
  BY PortsAssumption DEF DebutArreter
<1>4. travaux'[p] = u
  BY <1>2 DEF IInvPorts, PortsTypeOK
<1>5. EmploiOK(p)'
  BY <1>1, <1>2, <1>3, <1>4 DEF EmploiOK, Creation, Connue, LigneOK, DebutArreter, EnCours
<1>6. u.etape \notin Creation
  BY <1>2 DEF Creation
<1>7. pannes' \in 0..MaxPannes /\ reprises' \in 0..MaxReprises
  BY <1>3 DEF IInvPorts, PortsTypeOK
<1> QED
  BY <1>2, <1>3, <1>5, <1>6, <1>7, PasSeul

LEMMA DetruireGarde ==
  ASSUME IInvPorts, NEW p \in Procs, Detruire(p)
  PROVE  IInvPorts'
<1>1. CASE Supprimer({travaux[p].cid}) /\ Avancer(p, "clore") /\ UNCHANGED pannes
  <2> DEFINE u == [travaux[p] EXCEPT !.etape = "clore"]
  <2>1. travaux[p] \in Travail /\ travaux[p].etape = "rm"
    BY DEF Detruire, IInvPorts, PortsTypeOK
  <2>2. u \in Travail
    BY <2>1 DEF Travail
  <2>3. /\ u.etape = "clore" /\ u.id = travaux[p].id /\ u.noeud = travaux[p].noeud
        /\ u.cid = travaux[p].cid
    BY <2>1, <2>2 DEF Travail
  <2>4. travaux' = [travaux EXCEPT ![p] = u] /\ UNCHANGED <<instances, reprises>>
    BY <1>1 DEF Detruire, Avancer
  <2> HIDE DEF u
  <2>5. travaux'[p] = u
    BY <2>4 DEF IInvPorts, PortsTypeOK
  <2>6. EmploiOK(p)'
    <3>1. EmploiOK(p) /\ p # Faucheur
      BY PortsAssumption DEF IInvPorts, Emplois
    <3>2. Gardes
      BY <1>1, SupprimerGarde DEF IInvPorts
    <3>3. /\ travaux[p].cid \in Conteneurs
          /\ conteneurs'[travaux[p].cid].etat # "jamais"
          /\ conteneurs'[travaux[p].cid].nom = travaux[p].id
      BY <2>1, <3>1, <3>2 DEF EmploiOK, Connue, Gardes
    <3> QED
      BY <2>1, <2>3, <2>4, <2>5, <3>1, <3>3 DEF EmploiOK, Creation, Connue
  <2>7. u.etape \notin Creation
    BY <2>3 DEF Creation
  <2> QED
    BY <1>1, <2>2, <2>4, <2>6, <2>7, SupprimerPuis
<1>2. CASE PannePorts("rm_refuse") /\ Finir(p) /\ UNCHANGED conteneurs
  BY <1>2, PannePortsType, FinirGarde DEF Detruire, IInvPorts
<1> QED
  BY <1>1, <1>2 DEF Detruire

LEMMA CloreGarde ==
  ASSUME IInvPorts, NEW p \in Procs, Clore(p)
  PROVE  IInvPorts'
<1>1. /\ instances' = [instances EXCEPT ![travaux[p].id].status = "stopped"]
      /\ travaux[p].etape = "clore" /\ Finir(p) /\ UNCHANGED <<conteneurs, pannes, reprises>>
  BY DEF Clore
<1>2. travaux[p].id \in Ids /\ instances[travaux[p].id].status \in {"running", "stopped"}
  BY <1>1 DEF IInvPorts, Emplois, EmploiOK
<1>3. /\ travaux'[p] = Repos
      /\ \A b \in Acteurs \ {p} : travaux'[b] = travaux[b]
      /\ instances'[travaux[p].id].status = "stopped"
      /\ instances'[travaux[p].id].worker = instances[travaux[p].id].worker
      /\ \A i \in Ids \ {travaux[p].id} : instances'[i] = instances[i]
  BY <1>1, <1>2 DEF Finir, IInvPorts, PortsTypeOK, Instance
<1>4. PortsTypeOK'
  <2>1. travaux' \in [Acteurs -> Travail]
    BY <1>1, ReposType DEF Finir, IInvPorts, PortsTypeOK
  <2>2. instances' \in [Ids -> Instance]
    BY <1>1, <1>2 DEF IInvPorts, PortsTypeOK, Instance
  <2> QED
    BY <1>1, <2>1, <2>2 DEF IInvPorts, PortsTypeOK
<1>5. Gardes
  BY <1>1 DEF Gardes
<1>6. ASSUME NEW b \in Acteurs \ {p}
      PROVE  RangGarde(b)
  <2>1. travaux[b].etape # "repos" => travaux[b].id \in Ids
    BY DEF IInvPorts, Emplois, EmploiOK
  <2> QED
    BY <1>2, <1>3, <2>1 DEF RangGarde
<1>7. \A i \in Ids : instances'[i].status = "running" => instances'[i] = instances[i]
  BY <1>3
<1>8. EmploiOK(p)' /\ travaux'[p].etape \notin Creation
  BY <1>3, ReposOK DEF Repos, Creation
<1>9. Partage'
  BY <1>1, <1>5, PartageGarde DEF IInvPorts
<1> QED
  BY <1>3, <1>4, <1>5, <1>6, <1>7, <1>8, <1>9, PasOrdinaire

LEMMA MourirGarde ==
  ASSUME IInvPorts, NEW a \in Acteurs, Mourir(a)
  PROVE  IInvPorts'
BY PannePortsType, FinirGarde DEF Mourir, IInvPorts
-----------------------------------------------------------------------------
LEMMA PasIInvPorts == IInvPorts /\ [PortsNext]_portsVars => IInvPorts'
<1> SUFFICES ASSUME IInvPorts, [PortsNext]_portsVars
             PROVE  IInvPorts'
  OBVIOUS
<1>1. CASE UNCHANGED portsVars
  BY <1>1 DEF portsVars, IInvPorts, PortsTypeOK, Emplois, EmploiOK, Distincts, Lignes, LigneOK,
              EnCours, Partage
<1>2. ASSUME NEW p \in Procs, NEW n \in Noeuds, DebutLouer(p, n)
      PROVE  IInvPorts'
  BY <1>2, DebutLouerGarde
<1>3. ASSUME NEW i \in Ids, NEW n \in Noeuds, DebutReprise(i, n)
      PROVE  IInvPorts'
  BY <1>3, DebutRepriseGarde
<1>4. ASSUME NEW a \in Acteurs, CreerConteneur(a)
      PROVE  IInvPorts'
  <2>1. ASSUME NEW port \in PORTS, TirerSsh(a, port) \/ TirerTerm(a, port)
        PROVE  IInvPorts'
    BY <2>1, TirerGarde
  <2>2. ASSUME NEW c \in Conteneurs, RunReussi(a, c) \/ RunSansReponse(a, c) \/ RunConflit(a, c)
        PROVE  IInvPorts'
    BY <2>2, RunReussiGarde, RunSansReponseGarde, RunConflitGarde
  <2>3. CASE AucunPort(a) \/ RunRefuse(a) \/ Nettoyer(a)
    BY <2>3, AucunPortGarde, RunRefuseGarde, NettoyerGarde
  <2> QED
    BY <1>4, <2>1, <2>2, <2>3 DEF CreerConteneur
<1>5. ASSUME NEW a \in Acteurs, Ecrire(a) \/ EcrireEchoue(a) \/ Mourir(a)
      PROVE  IInvPorts'
  BY <1>5, EcrireGarde, EcrireEchoueGarde, MourirGarde
<1>6. ASSUME NEW p \in Procs, Defaire(p) \/ Detruire(p) \/ Clore(p)
      PROVE  IInvPorts'
  BY <1>6, DefaireGarde, DetruireGarde, CloreGarde
<1>7. ASSUME NEW p \in Procs, NEW i \in Ids, DebutArreter(p, i)
      PROVE  IInvPorts'
  BY <1>7, DebutArreterGarde
<1> QED
  BY <1>1, <1>2, <1>3, <1>4, <1>5, <1>6, <1>7 DEF PortsNext

(* Whatever the conflicts of ports, the failures, the deaths and the       *)
(* recoveries: a rental at work has a row of its own, a running row        *)
(* describes its container, and no two live containers share a port.       *)
THEOREM InvariancePorts == PortsSpec => []IInvPorts
<1>1. PortsInit => IInvPorts
  BY InitIInvPorts
<1>2. IInvPorts /\ [PortsNext]_portsVars => IInvPorts'
  BY PasIInvPorts
<1>3. QED BY <1>1, <1>2, PTL DEF PortsSpec

(* The containers, the rows and what the processes hold keep their types:  *)
(* _creer_conteneur tries Essais times at most.                            *)
THEOREM PortsTypeCorrect == PortsSpec => []PortsTypeOK
<1>1. IInvPorts => PortsTypeOK
  BY DEF IInvPorts
<1>2. QED BY <1>1, InvariancePorts, PTL

(* The address of a running machine leads to it and to no other, for any   *)
(* number of processes, nodes, ports, conflicts and recoveries.            *)
THEOREM AdresseJusteCorrecte == PortsSpec => []AdresseJuste
<1>1. ASSUME IInvPorts
      PROVE  AdresseJuste
  <2> SUFFICES ASSUME NEW i \in Ids, Tourne(i),
                      NEW port \in {instances[i].ssh, instances[i].term}
               PROVE  Ecouteurs(port, instances[i].worker) = {instances[i].cid}
    BY DEF AdresseJuste
  <2>1. LigneOK(i) /\ conteneurs[instances[i].cid].etat = "present"
    BY <1>1 DEF IInvPorts, Lignes, Tourne
  <2>2. instances[i].cid \in Ecouteurs(port, instances[i].worker)
    BY <2>1 DEF LigneOK, Ecouteurs
  <2>3. ASSUME NEW d \in Ecouteurs(port, instances[i].worker), d # instances[i].cid
        PROVE  FALSE
    <3>1. /\ d \in Conteneurs /\ conteneurs[d].etat = "present"
          /\ conteneurs[d].noeud = conteneurs[instances[i].cid].noeud
          /\ port \in {conteneurs[d].ssh, conteneurs[d].term}
      BY <2>1, <2>3 DEF Ecouteurs, LigneOK
    <3>2. port \in {conteneurs[instances[i].cid].ssh, conteneurs[instances[i].cid].term}
      BY <2>1 DEF LigneOK
    <3> QED
      BY <1>1, <2>1, <2>3, <3>1, <3>2 DEF IInvPorts, Partage, LigneOK
  <2> QED
    BY <2>2, <2>3
<1>2. IInvPorts => AdresseJuste
  BY <1>1
<1>3. QED BY <1>2, InvariancePorts, PTL

-----------------------------------------------------------------------------
(* The cleaning of a failed attempt.                                       *)

(* The names an attempt cleans are not those of a machine in use.          *)
LEMMA NomDeTentative ==
  ASSUME IInvPorts, NEW a \in Acteurs, travaux[a].etape \in Creation, NEW i \in Ids, EnCours(i)
  PROVE  /\ instances[i].cid \notin DuNom(travaux[a].id, travaux[a].noeud)
         /\ a \in Procs /\ travaux[a].etape = "defaire" => instances[i].cid # travaux[a].cid
<1>1. LigneOK(i) /\ EmploiOK(a)
  BY DEF IInvPorts, Lignes, Emplois
<1>2. a \in Procs => travaux[a].id # i
  BY <1>1 DEF EmploiOK, EnCours
<1>3. a = Faucheur /\ travaux[a].id = i => instances[i].worker # travaux[a].noeud
  BY <1>1 DEF EmploiOK
<1> QED
  BY <1>1, <1>2, <1>3 DEF LigneOK, EmploiOK, DuNom, Connue

(* A running machine ends when its own rental does, never because an       *)
(* attempt, for another machine or for its replacement, cleans up.         *)
THEOREM NettoyageCibleCorrect == PortsSpec => NettoyageCible
<1> DEFINE Cible == \A i \in Ids :
             Tourne(i) /\ conteneurs'[instances[i].cid].etat # "present" =>
               \E p \in Procs : travaux[p].etape = "rm" /\ travaux[p].id = i
<1>1. ASSUME IInvPorts, [PortsNext]_portsVars
      PROVE  [Cible]_portsVars
  <2> SUFFICES ASSUME PortsNext, NEW i \in Ids, Tourne(i),
                      conteneurs'[instances[i].cid].etat # "present"
               PROVE  \E p \in Procs : travaux[p].etape = "rm" /\ travaux[p].id = i
    BY <1>1
  <2> DEFINE c == instances[i].cid
  <2>0. c \in Conteneurs /\ conteneurs[c].etat = "present" /\ conteneurs[c].nom = i /\ EnCours(i)
    BY <1>1 DEF IInvPorts, Lignes, LigneOK, Tourne
  <2>1. conteneurs' # conteneurs
    BY <2>0
  <2>2. ASSUME NEW a \in Acteurs, NEW d \in Conteneurs,
               RunReussi(a, d) \/ RunSansReponse(a, d) \/ RunConflit(a, d)
        PROVE  FALSE
    <3>1. PICK e : Creer(a, d, e)
      BY <2>2 DEF RunReussi, RunSansReponse, RunConflit
    <3>2. d # c
      BY <2>0, <3>1 DEF Creer
    <3>3. conteneurs'[c] = conteneurs[c]
      BY <1>1, <2>0, <3>1, <3>2 DEF Creer, IInvPorts, PortsTypeOK
    <3> QED
      BY <2>0, <3>3
  <2>3. ASSUME NEW a \in Acteurs, Nettoyer(a)
        PROVE  FALSE
    <3>1. travaux[a].etape \in Creation /\ Supprimer(DuNom(travaux[a].id, travaux[a].noeud))
      BY <2>1, <2>3 DEF Nettoyer, Creation
    <3>2. c \notin DuNom(travaux[a].id, travaux[a].noeud)
      BY <1>1, <2>0, <3>1, NomDeTentative
    <3> QED
      BY <2>0, <3>1, <3>2 DEF Supprimer
  <2>4. ASSUME NEW p \in Procs, Defaire(p)
        PROVE  FALSE
    <3>1. travaux[p].etape = "defaire" /\ Supprimer({travaux[p].cid})
      BY <2>1, <2>4 DEF Defaire
    <3>2. c # travaux[p].cid
      BY <1>1, <2>0, <3>1, NomDeTentative DEF Creation
    <3> QED
      BY <2>0, <3>1, <3>2 DEF Supprimer
  <2>5. ASSUME NEW p \in Procs, Detruire(p)
        PROVE  travaux[p].etape = "rm" /\ travaux[p].id = i
    <3>1. travaux[p].etape = "rm" /\ Supprimer({travaux[p].cid})
      BY <2>1, <2>5 DEF Detruire
    <3>2. c = travaux[p].cid
      BY <2>0, <3>1 DEF Supprimer
    <3>3. conteneurs[travaux[p].cid].nom = travaux[p].id
      BY <1>1, <3>1 DEF IInvPorts, Emplois, EmploiOK, Connue
    <3> QED
      BY <2>0, <3>1, <3>2, <3>3
  <2>6. ASSUME NEW a \in Acteurs,
               \/ \E port \in PORTS : TirerSsh(a, port) \/ TirerTerm(a, port)
               \/ AucunPort(a) \/ RunRefuse(a) \/ Ecrire(a) \/ EcrireEchoue(a) \/ Mourir(a)
        PROVE  FALSE
    BY <2>1, <2>6 DEF TirerSsh, TirerTerm, AucunPort, RunRefuse, Ecrire, EcrireEchoue, Mourir
  <2>7. ASSUME \/ \E p \in Procs, n \in Noeuds : DebutLouer(p, n)
               \/ \E j \in Ids, n \in Noeuds : DebutReprise(j, n)
               \/ \E p \in Procs, j \in Ids : DebutArreter(p, j)
               \/ \E p \in Procs : Clore(p)
        PROVE  FALSE
    BY <2>1, <2>7 DEF DebutLouer, DebutReprise, DebutArreter, Clore
  <2> QED
    BY <2>2, <2>3, <2>4, <2>5, <2>6, <2>7 DEF PortsNext, CreerConteneur
<1>2. QED BY <1>1, InvariancePorts, PTL DEF PortsSpec, NettoyageCible
-----------------------------------------------------------------------------
(* Nothing is left behind while nothing fails.                             *)

(* A step of process p, the others' machines and rows aside.               *)
LEMMA PasCalme ==
  ASSUME IInvPorts, IInvOrphelin, pannes = 0, reprises = 0, NEW p \in Procs,
         \A b \in Acteurs \ {p} : travaux'[b] = travaux[b],
         \A c \in Conteneurs : conteneurs[c].etat = "supprime" => conteneurs'[c].etat = "supprime",
         \A i \in Ids : instances[i].status \in {"running", "stopped"} =>
           instances'[i] = instances[i] \/ instances'[i].status # "running",
         FinOK(p)',
         \A c \in Conteneurs : Vit(c)' =>
           \/ Tient(p, c)'
           \/ DUneLigne(c)'
           \/ /\ conteneurs'[c] = conteneurs[c]
              /\ ~Tient(p, c)
              /\ \A i \in Ids : EnCours(i) /\ instances[i].cid = c => instances'[i] = instances[i]
  PROVE  IInvOrphelin'
<1>1. travaux[Faucheur].etape = "repos" /\ \A b \in Procs : FinOK(b)
  BY DEF IInvOrphelin, FinsOK
<1>2. travaux'[Faucheur].etape = "repos"
  BY <1>1, PortsAssumption
<1>3. ASSUME NEW b \in Procs \ {p}
      PROVE  FinOK(b)'
  <2>1. EmploiOK(b) /\ FinOK(b) /\ travaux'[b] = travaux[b]
    BY <1>1 DEF IInvPorts, Emplois
  <2>2. travaux[b].etape \in {"rm", "clore"} =>
          /\ travaux[b].id \in Ids /\ travaux[b].cid \in Conteneurs
          /\ instances[travaux[b].id].status \in {"running", "stopped"}
    BY <2>1 DEF EmploiOK, Connue
  <2> QED
    BY <2>1, <2>2 DEF FinOK, EnCours
<1>4. ASSUME NEW c \in Conteneurs, Vit(c)'
      PROVE  DUneLigne(c)' \/ \E a \in Acteurs : Tient(a, c)'
  <2>1. CASE Tient(p, c)' \/ DUneLigne(c)'
    BY <2>1
  <2>2. CASE /\ conteneurs'[c] = conteneurs[c]
             /\ ~Tient(p, c)
             /\ \A i \in Ids : EnCours(i) /\ instances[i].cid = c => instances'[i] = instances[i]
    <3>1. DUneLigne(c) \/ \E a \in Acteurs : Tient(a, c)
      BY <1>4, <2>2 DEF IInvOrphelin, SansPanneSansOrphelin, EnChantier, Tient, DUneLigne, Vit
    <3>2. CASE DUneLigne(c)
      BY <2>2, <3>2 DEF DUneLigne, EnCours
    <3>3. ASSUME NEW a \in Acteurs, Tient(a, c)
          PROVE  Tient(a, c)'
      BY <2>2, <3>3 DEF Tient, DuNom
    <3> QED
      BY <3>1, <3>2, <3>3
  <2> QED
    BY <1>4, <2>1, <2>2
<1>5. FinsOK'
  BY <1>2, <1>3 DEF FinsOK
<1>6. SansPanneSansOrphelin'
  BY <1>4 DEF SansPanneSansOrphelin, EnChantier, Tient, DUneLigne, Vit
<1> QED
  BY <1>5, <1>6 DEF IInvOrphelin

LEMMA Calme ==
  ASSUME IInvPorts, PortsNext, pannes' = 0, reprises' = 0
  PROVE  /\ pannes = 0 /\ reprises = 0
         /\ ~\E k \in Fautes : PannePorts(k)
         /\ ~\E i \in Ids, n \in Noeuds : DebutReprise(i, n)
<1>1. pannes \in Nat /\ reprises \in Nat
  BY PortsAssumption DEF IInvPorts, PortsTypeOK
<1>2. pannes' = pannes \/ pannes' = pannes + 1
  BY DEF PortsNext, CreerConteneur, DebutLouer, DebutReprise, TirerSsh, TirerTerm, AucunPort,
         RunReussi, RunSansReponse, RunConflit, RunRefuse, Nettoyer, Ecrire, EcrireEchoue,
         Defaire, DebutArreter, Detruire, Clore, Mourir, PannePorts
<1>3. reprises' = reprises \/ reprises' = reprises + 1
  BY DEF PortsNext, CreerConteneur, DebutLouer, DebutReprise, TirerSsh, TirerTerm, AucunPort,
         RunReussi, RunSansReponse, RunConflit, RunRefuse, Nettoyer, Ecrire, EcrireEchoue,
         Defaire, DebutArreter, Detruire, Clore, Mourir
<1>4. pannes = 0 /\ reprises = 0
  BY <1>1, <1>2, <1>3
<1>5. ASSUME NEW k, PannePorts(k)
      PROVE  FALSE
  BY <1>4, <1>5 DEF PannePorts
<1>6. ASSUME NEW i \in Ids, NEW n \in Noeuds, DebutReprise(i, n)
      PROVE  FALSE
  BY <1>4, <1>6 DEF DebutReprise
<1> QED
  BY <1>4, <1>5, <1>6

LEMMA PasOrphelin == IInvPorts /\ IInvOrphelin /\ [PortsNext]_portsVars => IInvOrphelin'
<1> SUFFICES ASSUME IInvPorts, IInvOrphelin, [PortsNext]_portsVars
             PROVE  IInvOrphelin'
  OBVIOUS
<1>1. CASE UNCHANGED portsVars
  BY <1>1 DEF portsVars, IInvOrphelin, FinsOK, FinOK, SansPanneSansOrphelin, EnChantier, EnCours,
              DuNom
<1>2. CASE PortsNext /\ ~(pannes' = 0 /\ reprises' = 0)
  BY <1>2 DEF IInvOrphelin, FinsOK, SansPanneSansOrphelin
<1>3. CASE PortsNext /\ pannes' = 0 /\ reprises' = 0
  <2>0. /\ pannes = 0 /\ reprises = 0
        /\ \A k : ~PannePorts(k)
        /\ ~\E i \in Ids, n \in Noeuds : DebutReprise(i, n)
    BY <1>3, Calme DEF PannePorts
  <2>1. /\ travaux[Faucheur].etape = "repos" /\ \A b \in Procs : FinOK(b)
        /\ Faucheur \notin Procs
    BY <2>0, PortsAssumption DEF IInvOrphelin, FinsOK
  <2>2. ASSUME NEW p \in Procs, NEW n \in Noeuds, DebutLouer(p, n)
        PROVE  IInvOrphelin'
    <3>1. PICK i \in Ids :
            /\ instances[i].status = "libre"
            /\ instances' = [instances EXCEPT ![i].status = "reserve"]
            /\ travaux' = [travaux EXCEPT ![p] =
                             [Repos EXCEPT !.etape = "ssh", !.id = i, !.noeud = n, !.essai = 1]]
            /\ travaux[p].etape = "repos"
            /\ conteneurs' = conteneurs
      BY <2>2 DEF DebutLouer
    <3>2. travaux'[p].etape = "ssh" /\ \A b \in Acteurs \ {p} : travaux'[b] = travaux[b]
      BY <3>1 DEF Repos, IInvPorts, PortsTypeOK
    <3>3. \A j \in Ids : instances[j].status \in {"running", "stopped"} =>
                           instances'[j] = instances[j]
      BY <3>1 DEF IInvPorts, PortsTypeOK
    <3>4. FinOK(p)' /\ \A c \in Conteneurs : ~Tient(p, c)
      BY <3>1, <3>2 DEF FinOK, Tient
    <3> QED
      BY <2>0, <3>1, <3>2, <3>3, <3>4, PasCalme DEF EnCours
  <2>3. ASSUME NEW p \in Procs, NEW i \in Ids, DebutArreter(p, i)
        PROVE  IInvOrphelin'
    <3>1. /\ travaux[p].etape = "repos"
          /\ travaux'[p].etape = "rm" /\ travaux'[p].id = i
          /\ travaux'[p].cid = instances[i].cid
          /\ \A b \in Acteurs \ {p} : travaux'[b] = travaux[b]
          /\ UNCHANGED <<conteneurs, instances>>
      BY <2>3 DEF DebutArreter, Repos, IInvPorts, PortsTypeOK
    <3>2. FinOK(p)' /\ \A c \in Conteneurs : ~Tient(p, c)
      BY <3>1 DEF FinOK, Tient
    <3> QED
      BY <2>0, <3>1, <3>2, PasCalme
  <2>4. ASSUME NEW a \in Acteurs, CreerConteneur(a)
        PROVE  IInvOrphelin'
    <3>0. a \in Procs
      BY <2>1, <2>4 DEF CreerConteneur, TirerSsh, TirerTerm, RunReussi, RunSansReponse, RunConflit,
            Creer, AucunPort, RunRefuse, Nettoyer
    <3>1. ASSUME NEW port \in PORTS, TirerSsh(a, port) \/ TirerTerm(a, port)
          PROVE  IInvOrphelin'
      <4>1. /\ travaux[a].etape \in {"ssh", "term"} /\ travaux'[a].etape \in {"term", "run"}
            /\ \A b \in Acteurs \ {a} : travaux'[b] = travaux[b]
            /\ UNCHANGED <<conteneurs, instances>>
        BY <3>1 DEF TirerSsh, TirerTerm, IInvPorts, PortsTypeOK, Travail
      <4>2. FinOK(a)' /\ \A c \in Conteneurs : ~Tient(a, c)
        BY <4>1 DEF FinOK, Tient
      <4> QED
        BY <2>0, <3>0, <4>1, <4>2, PasCalme
    <3>2. ASSUME NEW c \in Conteneurs, RunReussi(a, c) \/ RunConflit(a, c)
          PROVE  IInvOrphelin'
      <4>1. PICK e \in {"cree", "present"} :
              /\ Creer(a, c, e) /\ (e = "present" => ~Conflit(a))
              /\ e = "present" => /\ travaux' = [travaux EXCEPT ![a].etape = "ecrire", ![a].cid = c]
                                  /\ RunReussi(a, c)
              /\ e = "cree" => travaux' = [travaux EXCEPT ![a].etape = "conflit"]
              /\ UNCHANGED instances
        BY <3>2 DEF RunReussi, RunConflit, Avancer
      <4>2. /\ conteneurs[c].etat = "jamais"
            /\ \A d \in Conteneurs \ {c} : conteneurs'[d] = conteneurs[d]
            /\ conteneurs'[c].etat = e
            /\ conteneurs'[c].noeud = travaux[a].noeud
            /\ conteneurs'[c].nom = travaux[a].id
        BY <4>1, CreerGarde
      <4>3. /\ travaux[a].etape = "run"
            /\ \A b \in Acteurs \ {a} : travaux'[b] = travaux[b]
            /\ travaux'[a].etape = IF e = "present" THEN "ecrire" ELSE "conflit"
            /\ travaux'[a].id = travaux[a].id /\ travaux'[a].noeud = travaux[a].noeud
            /\ e = "present" => travaux'[a].cid = c
        BY <4>1 DEF Creer, IInvPorts, PortsTypeOK, Travail
      <4>4. Tient(a, c)'
        BY <4>2, <4>3 DEF Tient, DuNom
      <4>5. FinOK(a)' /\ \A d \in Conteneurs : ~Tient(a, d)
        BY <4>3 DEF FinOK, Tient
      <4> QED
        BY <2>0, <3>0, <4>1, <4>2, <4>3, <4>4, <4>5, PasCalme
    <3>3. CASE AucunPort(a) \/ RunRefuse(a)
      <4>1. /\ travaux[a].etape \in {"ssh", "term", "run"} /\ Finir(a)
            /\ UNCHANGED <<conteneurs, instances>>
        BY <2>1, <3>0, <3>3 DEF AucunPort, RunRefuse, Echouer
      <4>2. travaux'[a].etape = "repos" /\ \A b \in Acteurs \ {a} : travaux'[b] = travaux[b]
        BY <4>1 DEF Finir, Repos, IInvPorts, PortsTypeOK
      <4>3. FinOK(a)' /\ \A c \in Conteneurs : ~Tient(a, c)
        BY <4>1, <4>2 DEF FinOK, Tient
      <4> QED
        BY <2>0, <3>0, <4>1, <4>2, <4>3, PasCalme
    <3>4. CASE Nettoyer(a)
      <4> DEFINE S == DuNom(travaux[a].id, travaux[a].noeud)
      <4>1. travaux[a].etape = "conflit" /\ Supprimer(S) /\ Reessayer(a)
        BY <2>0, <3>4 DEF Nettoyer
      <4>2. /\ UNCHANGED instances
            /\ travaux'[a].etape \in {"repos", "ssh"}
            /\ \A b \in Acteurs \ {a} : travaux'[b] = travaux[b]
        BY <2>1, <3>0, <4>1 DEF Reessayer, Echouer, Finir, Repos, IInvPorts, PortsTypeOK, Travail
      <4>3. \A c \in Conteneurs : Tient(a, c) <=> c \in S
        BY <4>1 DEF Tient
      <4>4. /\ \A c \in Conteneurs \ S : conteneurs'[c] = conteneurs[c]
            /\ \A c \in Conteneurs : c \in S => conteneurs'[c].etat = "supprime"
        BY <4>1, SupprimerGarde DEF IInvPorts
      <4>5. FinOK(a)'
        BY <4>2 DEF FinOK
      <4> QED
        BY <2>0, <3>0, <4>2, <4>3, <4>4, <4>5, PasCalme DEF Vit
    <3> QED
      BY <2>0, <2>4, <3>1, <3>2, <3>3, <3>4 DEF CreerConteneur, RunSansReponse
  <2>5. ASSUME NEW a \in Acteurs, Ecrire(a)
        PROVE  IInvOrphelin'
    <3> DEFINE i == travaux[a].id
               d == travaux[a].cid
    <3>1. travaux[a].etape = "ecrire" /\ a \in Procs /\ conteneurs' = conteneurs
      BY <2>1, <2>5 DEF Ecrire
    <3>2. i \in Ids /\ instances[i].status = "reserve"
      BY <3>1 DEF IInvPorts, Emplois, EmploiOK, Creation
    <3>3. /\ travaux'[a].etape = "repos" /\ \A b \in Acteurs \ {a} : travaux'[b] = travaux[b]
          /\ instances'[i].status = "running" /\ instances'[i].cid = d
          /\ \A j \in Ids \ {i} : instances'[j] = instances[j]
      BY <2>5, <3>2 DEF Ecrire, Finir, Repos, IInvPorts, PortsTypeOK
    <3>4. \A c \in Conteneurs : c = d => DUneLigne(c)'
      BY <3>2, <3>3 DEF DUneLigne, EnCours
    <3>5. FinOK(a)' /\ \A c \in Conteneurs : Tient(a, c) <=> c = d
      BY <3>1, <3>3 DEF FinOK, Tient
    <3> QED
      BY <2>0, <3>1, <3>2, <3>3, <3>4, <3>5, PasCalme DEF EnCours
  <2>6. ASSUME NEW a \in Acteurs, EcrireEchoue(a)
        PROVE  IInvOrphelin'
    <3>1. /\ travaux[a].etape = "ecrire" /\ a \in Procs /\ Avancer(a, "defaire")
          /\ UNCHANGED <<conteneurs, instances>>
      BY <2>1, <2>6 DEF EcrireEchoue
    <3>2. /\ travaux'[a].etape = "defaire" /\ travaux'[a].cid = travaux[a].cid
          /\ \A b \in Acteurs \ {a} : travaux'[b] = travaux[b]
      BY <3>1 DEF Avancer, IInvPorts, PortsTypeOK, Travail
    <3>3. FinOK(a)' /\ \A c \in Conteneurs : Tient(a, c) <=> Tient(a, c)'
      BY <3>1, <3>2 DEF FinOK, Tient
    <3> QED
      BY <2>0, <3>1, <3>2, <3>3, PasCalme
  <2>7. ASSUME NEW p \in Procs, Defaire(p)
        PROVE  IInvOrphelin'
    <3>1. travaux[p].etape = "defaire" /\ Supprimer({travaux[p].cid}) /\ Finir(p) /\ UNCHANGED instances
      BY <2>0, <2>7 DEF Defaire
    <3>2. travaux'[p].etape = "repos" /\ \A b \in Acteurs \ {p} : travaux'[b] = travaux[b]
      BY <3>1 DEF Finir, Repos, IInvPorts, PortsTypeOK
    <3>3. /\ \A c \in Conteneurs \ {travaux[p].cid} : conteneurs'[c] = conteneurs[c]
          /\ \A c \in Conteneurs : c = travaux[p].cid => conteneurs'[c].etat = "supprime"
      BY <3>1, SupprimerGarde DEF IInvPorts
    <3>4. FinOK(p)' /\ \A c \in Conteneurs : Tient(p, c) <=> c = travaux[p].cid
      BY <3>1, <3>2 DEF FinOK, Tient
    <3> QED
      BY <2>0, <3>1, <3>2, <3>3, <3>4, PasCalme DEF Vit
  <2>8. ASSUME NEW p \in Procs, Detruire(p)
        PROVE  IInvOrphelin'
    <3>1. /\ travaux[p].etape = "rm" /\ Supprimer({travaux[p].cid}) /\ Avancer(p, "clore")
          /\ UNCHANGED instances
      BY <2>0, <2>8 DEF Detruire
    <3>2. /\ travaux'[p].etape = "clore" /\ travaux'[p].id = travaux[p].id
          /\ travaux'[p].cid = travaux[p].cid
          /\ \A b \in Acteurs \ {p} : travaux'[b] = travaux[b]
      BY <3>1 DEF Avancer, IInvPorts, PortsTypeOK, Travail
    <3>3. /\ \A c \in Conteneurs \ {travaux[p].cid} : conteneurs'[c] = conteneurs[c]
          /\ \A c \in Conteneurs : c = travaux[p].cid => conteneurs'[c].etat = "supprime"
      BY <3>1, SupprimerGarde DEF IInvPorts
    <3>4. travaux[p].cid \in Conteneurs
      BY <3>1 DEF IInvPorts, Emplois, EmploiOK, Connue
    <3>5. FinOK(p)'
      BY <2>1, <3>1, <3>2, <3>3, <3>4 DEF FinOK, EnCours
    <3>6. \A c \in Conteneurs : ~Tient(p, c)
      BY <3>1 DEF Tient
    <3> QED
      BY <2>0, <3>1, <3>2, <3>3, <3>5, <3>6, PasCalme DEF Vit
  <2>9. ASSUME NEW p \in Procs, Clore(p)
        PROVE  IInvOrphelin'
    <3> DEFINE i == travaux[p].id
    <3>1. /\ travaux[p].etape = "clore" /\ Finir(p) /\ conteneurs' = conteneurs
          /\ instances' = [instances EXCEPT ![i].status = "stopped"]
      BY <2>9 DEF Clore
    <3>2. i \in Ids
      BY <3>1 DEF IInvPorts, Emplois, EmploiOK
    <3>3. /\ travaux'[p].etape = "repos" /\ \A b \in Acteurs \ {p} : travaux'[b] = travaux[b]
          /\ instances'[i].status = "stopped"
          /\ \A j \in Ids \ {i} : instances'[j] = instances[j]
      BY <3>1, <3>2 DEF Finir, Repos, IInvPorts, PortsTypeOK, Instance
    <3>4. EnCours(i) => conteneurs[instances[i].cid].etat = "supprime"
      BY <2>1, <3>1 DEF FinOK
    <3>5. FinOK(p)' /\ \A c \in Conteneurs : ~Tient(p, c)
      BY <3>1, <3>3 DEF FinOK, Tient
    <3>6. ASSUME NEW c \in Conteneurs, Vit(c)'
          PROVE  \A j \in Ids : EnCours(j) /\ instances[j].cid = c => instances'[j] = instances[j]
      BY <3>1, <3>3, <3>4, <3>6 DEF Vit
    <3> QED
      BY <2>0, <3>1, <3>2, <3>3, <3>5, <3>6, PasCalme
  <2>10. \A a \in Acteurs : ~Mourir(a)
    BY <2>0 DEF Mourir
  <2> QED
    BY <1>3, <2>0, <2>2, <2>3, <2>4, <2>5, <2>6, <2>7, <2>8, <2>9, <2>10 DEF PortsNext
<1> QED
  BY <1>1, <1>2, <1>3

(* While nothing fails and nothing is recovered, every live container      *)
(* belongs to a running row or to a rental at work: neither the conflicts  *)
(* of ports nor the index that refuses a row leave an orphan.              *)
THEOREM SansPanneSansOrphelinCorrect == PortsSpec => []SansPanneSansOrphelin
<1>1. PortsInit => IInvOrphelin
  BY DEF PortsInit, IInvOrphelin, FinsOK, FinOK, SansPanneSansOrphelin, Repos, Jamais
<1>2. IInvPorts /\ IInvOrphelin /\ [PortsNext]_portsVars => IInvOrphelin'
  BY PasOrphelin
<1>3. IInvOrphelin => SansPanneSansOrphelin
  BY DEF IInvOrphelin
<1>4. QED BY <1>1, <1>2, <1>3, InvariancePorts, PTL DEF PortsSpec
=============================================================================
