----------------------------- MODULE AgentsProofs -----------------------------
(***************************************************************************)
(* Proofs about Agents: the state keeps its type, and an agent that beats  *)
(* has a row, for any number of nodes, of requests in flight and of        *)
(* faults.                                                                 *)
(***************************************************************************)
EXTENDS Agents, TLAPS

(* An agent that has left the registration loop once has a row.            *)
Inscrits ==
  ~videe => \A n \in Noeuds : agents[n] \in {"actif", "reinscrire"} => Connu(n)

AgentsIInv == AgentsTypeOK /\ Inscrits

(* What an answer does to an agent: it leaves the registration loop on a   *)
(* 201 only.                                                               *)
LEMMA SuiteSort ==
  ASSUME NEW etape \in EtapesAgent, NEW code \in Nat
  PROVE  /\ Suite(etape, code) \in EtapesAgent
         /\ Suite(etape, code) \in {"actif", "reinscrire"}
              => code = 201 \/ etape \in {"actif", "reinscrire"}
BY DEF Suite, EtapesAgent

LEMMA AucuneRequeteType == AucuneRequete \in Requete
<1>1. PICK m : m \in Noeuds
  BY AgentsAssumption
<1>2. (CHOOSE n \in Noeuds : TRUE) \in Noeuds
  BY <1>1
<1> QED
  BY <1>2 DEF AucuneRequete, Requete, Statuts

(* The end of a request keeps the invariant, when the row of its node is   *)
(* written or was there.                                                   *)
LEMMA RepondreGarde ==
  ASSUME AgentsTypeOK, NEW c \in Connexions, NEW code \in Nat, Repondre(c, code)
  PROVE  /\ http' \in [Connexions -> Requete]
         /\ agents' \in [Noeuds -> EtapesAgent]
         /\ \A n \in Noeuds :
              agents'[n] \in {"actif", "reinscrire"} =>
                \/ code = 201 /\ n = http[c].noeud
                \/ agents[n] \in {"actif", "reinscrire"}
<1>1. http' \in [Connexions -> Requete]
  BY AucuneRequeteType DEF AgentsTypeOK, Repondre
<1>2. http[c].noeud \in Noeuds
  BY DEF AgentsTypeOK, Requete
<1>3. agents[http[c].noeud] \in EtapesAgent
  BY <1>2 DEF AgentsTypeOK
<1>4. agents' = agents \/ agents' = [agents EXCEPT ![http[c].noeud] = Suite(@, code)]
  BY DEF Repondre
<1> QED
  BY <1>1, <1>2, <1>3, <1>4, SuiteSort DEF AgentsTypeOK

-----------------------------------------------------------------------------
LEMMA AgentsInitIInv == AgentsInit => AgentsIInv
<1> SUFFICES ASSUME AgentsInit
             PROVE  AgentsIInv
  OBVIOUS
<1>1. /\ parc \in [Noeuds -> LigneWorker]
      /\ docker \in [Noeuds -> BOOLEAN]
      /\ agents \in [Noeuds -> EtapesAgent]
  BY DEF AgentsInit, Inconnu, LigneWorker, Statuts, EtapesAgent
<1>2. http \in [Connexions -> Requete]
  BY AucuneRequeteType DEF AgentsInit
<1>3. surveillance \subseteq Noeuds /\ videe \in BOOLEAN
  BY DEF AgentsInit
<1>4. pannes \in 0..MaxPannes
  BY AgentsAssumption DEF AgentsInit
<1>5. Inscrits
  BY DEF AgentsInit, Inscrits
<1> QED
  BY <1>1, <1>2, <1>3, <1>4, <1>5 DEF AgentsIInv, AgentsTypeOK

(* A request is sent.                                                      *)
LEMMA AppelerGarde ==
  ASSUME AgentsIInv, NEW n \in Noeuds, NEW route \in {"register", "heartbeat"},
         Appeler(n, route)
  PROVE  AgentsIInv'
<1>1. PICK c \in Connexions :
        http' = [http EXCEPT ![c] = [etat |-> "recue", noeud |-> n, route |-> route,
                                     vu |-> "inconnu", attendue |-> TRUE]]
  BY DEF Appeler
<1>2. http' \in [Connexions -> Requete]
  BY <1>1 DEF AgentsIInv, AgentsTypeOK, Requete, Statuts
<1> QED
  BY <1>2 DEF AgentsIInv, AgentsTypeOK, Inscrits, Connu, Appeler

LEMMA AgentGarde ==
  ASSUME AgentsIInv, NEW n \in Noeuds,
         DemarrerAgent(n) \/ ArreterAgent(n) \/ Agent(n)
  PROVE  AgentsIInv'
<1>1. CASE DemarrerAgent(n)
  BY <1>1 DEF AgentsIInv, AgentsTypeOK, Inscrits, Connu, EtapesAgent, DemarrerAgent
<1>2. CASE ArreterAgent(n)
  <2>1. http' \in [Connexions -> Requete]
    BY <1>2 DEF AgentsIInv, AgentsTypeOK, ArreterAgent, Requete
  <2>2. pannes' \in 0..MaxPannes
    BY <1>2, AgentsAssumption DEF AgentsIInv, AgentsTypeOK, ArreterAgent, PanneAgents
  <2> QED
    BY <1>2, <2>1, <2>2 DEF AgentsIInv, AgentsTypeOK, Inscrits, Connu, EtapesAgent, ArreterAgent
<1>3. CASE Enregistrer(n)
  BY <1>3, AppelerGarde DEF Enregistrer
<1>4. CASE EnregistrerRefuse(n)
  BY <1>4, SuiteSort
     DEF AgentsIInv, AgentsTypeOK, Inscrits, Connu, EtapesAgent, EnregistrerRefuse
<1>5. CASE Battre(n)
  BY <1>5, AppelerGarde DEF Battre
<1> QED
  BY <1>1, <1>2, <1>3, <1>4, <1>5 DEF Agent

LEMMA AbandonnerGarde ==
  ASSUME AgentsIInv, NEW c \in Connexions, Abandonner(c)
  PROVE  AgentsIInv'
<1>1. http' \in [Connexions -> Requete]
  BY DEF AgentsIInv, AgentsTypeOK, Abandonner, Requete
<1>2. pannes' \in 0..MaxPannes
  BY AgentsAssumption DEF AgentsIInv, AgentsTypeOK, Abandonner, PanneAgents
<1>3. http[c].noeud \in Noeuds
  BY DEF AgentsIInv, AgentsTypeOK, Requete
<1>4. /\ agents' \in [Noeuds -> EtapesAgent]
      /\ \A n \in Noeuds : agents'[n] \in {"actif", "reinscrire"}
                             => agents[n] \in {"actif", "reinscrire"}
  BY <1>3, SuiteSort DEF AgentsIInv, AgentsTypeOK, Abandonner
<1> QED
  BY <1>1, <1>2, <1>4 DEF AgentsIInv, AgentsTypeOK, Inscrits, Connu, Abandonner

LEMMA PerdreGarde ==
  ASSUME AgentsIInv, NEW c \in Connexions, Perdre(c)
  PROVE  AgentsIInv'
<1>1. pannes' \in 0..MaxPannes
  BY AgentsAssumption DEF AgentsIInv, AgentsTypeOK, Perdre, PanneAgents
<1>2. /\ http' \in [Connexions -> Requete]
      /\ agents' \in [Noeuds -> EtapesAgent]
      /\ \A n \in Noeuds : agents'[n] \in {"actif", "reinscrire"}
                             => agents[n] \in {"actif", "reinscrire"}
  BY RepondreGarde DEF AgentsIInv, Perdre
<1> QED
  BY <1>1, <1>2 DEF AgentsIInv, AgentsTypeOK, Inscrits, Connu, Perdre

-----------------------------------------------------------------------------
(* The SELECT of a transaction.                                            *)
LEMMA LireGarde ==
  ASSUME AgentsIInv, NEW c \in Connexions, Lire(c)
  PROVE  AgentsIInv'
<1>1. CASE Repondre(c, 404)
  <2>1. /\ http' \in [Connexions -> Requete]
        /\ agents' \in [Noeuds -> EtapesAgent]
        /\ \A n \in Noeuds : agents'[n] \in {"actif", "reinscrire"}
                               => agents[n] \in {"actif", "reinscrire"}
    BY <1>1, RepondreGarde DEF AgentsIInv
  <2> QED
    BY <2>1 DEF AgentsIInv, AgentsTypeOK, Inscrits, Connu, Lire
<1>2. CASE /\ http' = [http EXCEPT ![c].etat = "lue", ![c].vu = parc[http[c].noeud].status]
           /\ UNCHANGED agents
  <2>1. parc[http[c].noeud].status \in Statuts
    BY DEF AgentsIInv, AgentsTypeOK, Requete, LigneWorker
  <2>2. http' \in [Connexions -> Requete]
    BY <1>2, <2>1 DEF AgentsIInv, AgentsTypeOK, Requete
  <2> QED
    BY <1>2, <2>2 DEF AgentsIInv, AgentsTypeOK, Inscrits, Connu, Lire
<1> QED
  BY <1>1, <1>2 DEF Lire

(* The UPDATE of a row that is there leaves it there.                      *)
LEMMA DaterGarde ==
  ASSUME AgentsTypeOK, NEW n \in Noeuds, NEW vu \in Statuts, Connu(n), Dater(n, vu)
  PROVE  /\ parc' \in [Noeuds -> LigneWorker]
         /\ \A m \in Noeuds : Connu(m) => Connu(m)'
         /\ Connu(n)'
BY DEF AgentsTypeOK, LigneWorker, Statuts, Connu, Dater

LEMMA EcrireGarde ==
  ASSUME AgentsIInv, NEW c \in Connexions, EcrireInscription(c) \/ EcrireBattement(c)
  PROVE  AgentsIInv'
<1>1. PICK n \in Noeuds, vu \in Statuts : n = http[c].noeud /\ vu = http[c].vu
  BY DEF AgentsIInv, AgentsTypeOK, Requete
<1>2. /\ UNCHANGED <<docker, surveillance, videe, pannes>>
      /\ \/ /\ Repondre(c, 201)
            /\ parc' = [parc EXCEPT ![n] = [status |-> "AVAILABLE", frais |-> TRUE]]
         \/ Connu(n) /\ Dater(n, vu) /\ (Repondre(c, 201) \/ Repondre(c, 200))
         \/ Repondre(c, 500) /\ UNCHANGED parc
  BY <1>1 DEF EcrireInscription, EcrireBattement
<1>3. PICK code \in {200, 201, 500} :
        /\ Repondre(c, code)
        /\ code = 201 => Connu(n)'
        /\ parc' \in [Noeuds -> LigneWorker]
        /\ \A m \in Noeuds : Connu(m) => Connu(m)'
  <2>1. CASE /\ Repondre(c, 201)
             /\ parc' = [parc EXCEPT ![n] = [status |-> "AVAILABLE", frais |-> TRUE]]
    BY <2>1, <1>1 DEF AgentsIInv, AgentsTypeOK, LigneWorker, Statuts, Connu
  <2>2. CASE Connu(n) /\ Dater(n, vu) /\ (Repondre(c, 201) \/ Repondre(c, 200))
    BY <2>2, <1>1, DaterGarde DEF AgentsIInv
  <2>3. CASE Repondre(c, 500) /\ UNCHANGED parc
    BY <2>3 DEF AgentsIInv, AgentsTypeOK, Connu
  <2> QED
    BY <1>2, <2>1, <2>2, <2>3
<1>4. /\ http' \in [Connexions -> Requete]
      /\ agents' \in [Noeuds -> EtapesAgent]
      /\ \A m \in Noeuds :
           agents'[m] \in {"actif", "reinscrire"} =>
             \/ code = 201 /\ m = n
             \/ agents[m] \in {"actif", "reinscrire"}
  <2>1. code \in Nat
    OBVIOUS
  <2> QED
    BY <1>1, <1>3, <2>1, RepondreGarde DEF AgentsIInv
<1>5. Inscrits'
  BY <1>1, <1>2, <1>3, <1>4 DEF AgentsIInv, Inscrits, Connu
<1> QED
  BY <1>2, <1>3, <1>4, <1>5 DEF AgentsIInv, AgentsTypeOK

-----------------------------------------------------------------------------
(* The watch of the Faucheur.                                              *)
LEMMA SurveillanceGarde ==
  ASSUME AgentsIInv, LireMuets \/ MarquerHorsLigne
  PROVE  AgentsIInv'
<1>1. CASE LireMuets
  BY <1>1 DEF AgentsIInv, AgentsTypeOK, Inscrits, Connu, LireMuets, Muets
<1>2. CASE MarquerHorsLigne
  <2>1. parc' \in [Noeuds -> LigneWorker]
    BY <1>2 DEF AgentsIInv, AgentsTypeOK, LigneWorker, Statuts, MarquerHorsLigne
  <2>2. \A m \in Noeuds : Connu(m) => Connu(m)'
    BY <1>2 DEF AgentsIInv, AgentsTypeOK, LigneWorker, Connu, MarquerHorsLigne
  <2> QED
    BY <1>2, <2>1, <2>2 DEF AgentsIInv, AgentsTypeOK, Inscrits, MarquerHorsLigne
<1> QED
  BY <1>1, <1>2

LEMMA EnvironnementGarde ==
  ASSUME AgentsIInv,
         \/ \E n \in Noeuds : \/ PanneDocker(n) \/ RetourDocker(n)
                              \/ VieillirMort(n) \/ VieillirVivant(n)
         \/ ViderBase
  PROVE  AgentsIInv'
<1>1. ASSUME NEW n \in Noeuds, PanneDocker(n)
      PROVE  AgentsIInv'
  BY <1>1, AgentsAssumption
     DEF AgentsIInv, AgentsTypeOK, Inscrits, Connu, PanneDocker, PanneAgents
<1>2. ASSUME NEW n \in Noeuds, RetourDocker(n)
      PROVE  AgentsIInv'
  BY <1>2 DEF AgentsIInv, AgentsTypeOK, Inscrits, Connu, RetourDocker
<1>3. ASSUME NEW n \in Noeuds, VieillirMort(n)
      PROVE  AgentsIInv'
  BY <1>3 DEF AgentsIInv, AgentsTypeOK, LigneWorker, Inscrits, Connu, VieillirMort
<1>4. ASSUME NEW n \in Noeuds, VieillirVivant(n)
      PROVE  AgentsIInv'
  <2>1. pannes' \in 0..MaxPannes
    BY <1>4, AgentsAssumption DEF AgentsIInv, AgentsTypeOK, VieillirVivant, PanneAgents
  <2> QED
    BY <1>4, <2>1 DEF AgentsIInv, AgentsTypeOK, LigneWorker, Inscrits, Connu, VieillirVivant
<1>5. CASE ViderBase
  BY <1>5, AgentsAssumption
     DEF AgentsIInv, AgentsTypeOK, LigneWorker, Statuts, Inconnu, Inscrits, ViderBase, PanneAgents
<1> QED
  BY <1>1, <1>2, <1>3, <1>4, <1>5

LEMMA AgentsNextIInv == AgentsIInv /\ [AgentsNext]_agentsVars => AgentsIInv'
<1> SUFFICES ASSUME AgentsIInv, [AgentsNext]_agentsVars
             PROVE  AgentsIInv'
  OBVIOUS
<1>1. CASE \E n \in Noeuds : DemarrerAgent(n) \/ ArreterAgent(n) \/ Agent(n)
  BY <1>1, AgentGarde
<1>2. CASE \E c \in Connexions : Abandonner(c) \/ Perdre(c) \/ Traiter(c)
  BY <1>2, AbandonnerGarde, PerdreGarde, LireGarde, EcrireGarde DEF Traiter
<1>3. CASE LireMuets \/ MarquerHorsLigne
  BY <1>3, SurveillanceGarde
<1>4. CASE \/ \E n \in Noeuds : \/ PanneDocker(n) \/ RetourDocker(n)
                                \/ VieillirMort(n) \/ VieillirVivant(n)
           \/ ViderBase
  BY <1>4, EnvironnementGarde
<1>5. CASE UNCHANGED agentsVars
  BY <1>5 DEF AgentsIInv, AgentsTypeOK, Inscrits, Connu, agentsVars
<1> QED
  BY <1>1, <1>2, <1>3, <1>4, <1>5 DEF AgentsNext

LEMMA AgentsInvariant == AgentsSpec => []AgentsIInv
<1> QED
  BY AgentsInitIInv, AgentsNextIInv, PTL DEF AgentsSpec

-----------------------------------------------------------------------------
(* The rows, the agents and the requests keep their types.                 *)
THEOREM AgentsTypeCorrect == AgentsSpec => []AgentsTypeOK
<1>1. AgentsIInv => AgentsTypeOK
  BY DEF AgentsIInv
<1> QED
  BY <1>1, AgentsInvariant, PTL

(* worker_agent.tourner: an agent that beats has a row, whatever is lost,  *)
(* late or refused, as long as nobody empties the base.                    *)
THEOREM InscriptionPriseCorrect == AgentsSpec => []InscriptionPrise
<1>1. AgentsIInv => InscriptionPrise
  BY DEF AgentsIInv, Inscrits, InscriptionPrise
<1> QED
  BY <1>1, AgentsInvariant, PTL

-----------------------------------------------------------------------------
(***************************************************************************)
(* The atomicity of the register.  A row that the Faucheur has read is     *)
(* still AVAILABLE when it marks it: heartbeats write nothing else, and    *)
(* only an emptied base would take it away.                                *)
(***************************************************************************)
Surveilles == ~videe => \A n \in surveillance : parc[n].status = "AVAILABLE"

AtomiciteIInv == AgentsIInv /\ Surveilles

(* What a step does to the rows that ParcVu shows.                         *)
PasDuParc ==
  \/ \E n \in Noeuds : D!Battre(n) \/ D!Vieillir(n)
  \/ D!MarkStaleWorkersOffline
  \/ UNCHANGED ParcVu

LEMMA MemesLignes ==
  ASSUME UNCHANGED <<parc, surveillance>>
  PROVE  UNCHANGED ParcVu
BY DEF ParcVu

(* A row is written AVAILABLE and fresh: a heartbeat, unless it is about   *)
(* to be marked.                                                           *)
LEMMA LigneFraiche ==
  ASSUME AgentsTypeOK, NEW n \in Noeuds, UNCHANGED surveillance,
         parc' = [parc EXCEPT ![n] = [status |-> "AVAILABLE", frais |-> TRUE]]
  PROVE  PasDuParc
<1>1. CASE n \in surveillance
  <2>1. UNCHANGED ParcVu
    BY <1>1 DEF ParcVu, AgentsTypeOK
  <2> QED
    BY <2>1 DEF PasDuParc
<1>2. CASE n \notin surveillance
  <2>1. D!Battre(n)
    BY <1>2 DEF D!Battre, ParcVu, AgentsTypeOK
  <2> QED
    BY <2>1 DEF PasDuParc
<1> QED
  BY <1>1, <1>2

(* The UPDATE of a heartbeat: it restores the row, or it crossed a mark    *)
(* and only dates a row that stays OFFLINE.                                *)
LEMMA DaterAtomique ==
  ASSUME AgentsTypeOK, NEW n \in Noeuds, NEW vu \in Statuts, Connu(n), Dater(n, vu),
         UNCHANGED surveillance
  PROVE  /\ PasDuParc
         /\ \A m \in Noeuds : parc[m].status = "AVAILABLE" => parc'[m].status = "AVAILABLE"
<1>1. parc[n] \in LigneWorker /\ parc[n].status \in {"AVAILABLE", "OFFLINE"}
  BY DEF AgentsTypeOK, LigneWorker, Statuts, Connu
<1>2. CASE parc[n].status = "AVAILABLE" \/ vu = "OFFLINE"
  <2>1. parc' = [parc EXCEPT ![n] = [status |-> "AVAILABLE", frais |-> TRUE]]
    <3> DEFINE statut == IF vu = "OFFLINE" THEN "AVAILABLE" ELSE parc[n].status
    <3>1. parc' = [parc EXCEPT ![n].frais = TRUE, ![n].status = statut]
      BY DEF Dater, AgentsTypeOK
    <3>2. statut = "AVAILABLE" /\ statut \in Statuts
      BY <1>2 DEF Statuts
    <3> HIDE DEF statut
    <3>3. parc \in [Noeuds -> LigneWorker] /\ parc' \in [Noeuds -> LigneWorker]
      BY <3>1, <3>2 DEF AgentsTypeOK, LigneWorker
    <3>4. parc'[n] = [status |-> "AVAILABLE", frais |-> TRUE]
      BY <3>1, <3>2, <3>3 DEF LigneWorker
    <3> QED
      BY <3>1, <3>3, <3>4
  <2> QED
    BY <2>1, LigneFraiche DEF AgentsTypeOK
<1>3. CASE parc[n].status = "OFFLINE" /\ vu # "OFFLINE"
  <2>1. parc' = [parc EXCEPT ![n].frais = TRUE]
    BY <1>1, <1>3 DEF Dater, AgentsTypeOK, LigneWorker
  <2>2. UNCHANGED ParcVu
    BY <1>1, <1>3, <2>1 DEF ParcVu, AgentsTypeOK, LigneWorker
  <2> QED
    BY <1>3, <2>1, <2>2 DEF PasDuParc, AgentsTypeOK, LigneWorker
<1> QED
  BY <1>1, <1>2, <1>3

LEMMA EcrireAtomique ==
  ASSUME AtomiciteIInv, NEW c \in Connexions, EcrireInscription(c) \/ EcrireBattement(c)
  PROVE  PasDuParc /\ Surveilles'
<1>1. PICK n \in Noeuds, vu \in Statuts : n = http[c].noeud /\ vu = http[c].vu
  BY DEF AtomiciteIInv, AgentsIInv, AgentsTypeOK, Requete
<1>2. /\ UNCHANGED <<surveillance, videe>>
      /\ \/ /\ ~Connu(n)
            /\ parc' = [parc EXCEPT ![n] = [status |-> "AVAILABLE", frais |-> TRUE]]
         \/ Connu(n) /\ Dater(n, vu)
         \/ UNCHANGED parc
  BY <1>1 DEF EcrireInscription, EcrireBattement
<1>3. AgentsTypeOK /\ Surveilles
  BY DEF AtomiciteIInv, AgentsIInv
<1>4. /\ PasDuParc
      /\ \A m \in Noeuds : parc[m].status = "AVAILABLE" => parc'[m].status = "AVAILABLE"
  <2>1. CASE parc' = [parc EXCEPT ![n] = [status |-> "AVAILABLE", frais |-> TRUE]]
    BY <1>2, <1>3, <2>1, LigneFraiche DEF AgentsTypeOK
  <2>2. CASE Connu(n) /\ Dater(n, vu)
    BY <1>2, <1>3, <2>2, DaterAtomique
  <2>3. CASE UNCHANGED parc
    BY <1>2, <2>3, MemesLignes DEF PasDuParc
  <2> QED
    BY <1>2, <2>1, <2>2, <2>3
<1> QED
  BY <1>2, <1>3, <1>4 DEF Surveilles, AgentsTypeOK

(* The marks: they are in ParcVu from the moment the rows are read.        *)
LEMMA SurveillanceAtomique ==
  ASSUME AtomiciteIInv, LireMuets \/ MarquerHorsLigne
  PROVE  Surveilles' /\ (~videe' => PasDuParc)
<1>1. AgentsTypeOK /\ Surveilles
  BY DEF AtomiciteIInv, AgentsIInv
<1>2. CASE LireMuets
  <2>1. ParcVu' = [n \in Noeuds |-> IF D!EstMuet(n) THEN [ParcVu[n] EXCEPT !.status = "OFFLINE"]
                                                    ELSE ParcVu[n]]
    <3> SUFFICES ASSUME NEW n \in Noeuds
                 PROVE  ParcVu'[n] = IF D!EstMuet(n) THEN [ParcVu[n] EXCEPT !.status = "OFFLINE"]
                                                     ELSE ParcVu[n]
      BY DEF ParcVu
    <3>1. parc[n] \in LigneWorker /\ surveillance = {} /\ parc' = parc
      BY <1>1, <1>2 DEF AgentsTypeOK, LireMuets
    <3>2. n \in surveillance' <=> parc[n].status = "AVAILABLE" /\ ~parc[n].frais
      BY <1>2 DEF LireMuets, Muets
    <3> QED
      BY <3>1, <3>2 DEF ParcVu, D!EstMuet, LigneWorker
  <2>2. D!MarkStaleWorkersOffline
    BY <2>1 DEF D!MarkStaleWorkersOffline
  <2>3. Surveilles'
    BY <1>2 DEF LireMuets, Muets, Surveilles
  <2> QED
    BY <2>2, <2>3 DEF PasDuParc
<1>3. CASE MarquerHorsLigne
  <2>1. Surveilles'
    BY <1>3 DEF MarquerHorsLigne, Surveilles
  <2>2. ASSUME ~videe' PROVE UNCHANGED ParcVu
    <3>1. \A n \in surveillance : n \in Noeuds /\ Connu(n)
      BY <1>1, <1>3, <2>2 DEF MarquerHorsLigne, Surveilles, AgentsTypeOK, Connu
    <3>2. /\ surveillance' = {}
          /\ parc' = [n \in Noeuds |->
                        IF n \in surveillance THEN [parc[n] EXCEPT !.status = "OFFLINE"]
                                              ELSE parc[n]]
      BY <1>3, <3>1 DEF MarquerHorsLigne
    <3> QED
      BY <1>1, <3>2 DEF ParcVu, AgentsTypeOK, LigneWorker
  <2> QED
    BY <2>1, <2>2 DEF PasDuParc
<1> QED
  BY <1>2, <1>3

(* The date of a row only shows while the row is AVAILABLE.                *)
LEMMA VieillirAtomique ==
  ASSUME AtomiciteIInv, NEW n \in Noeuds, VieillirMort(n) \/ VieillirVivant(n)
  PROVE  PasDuParc /\ Surveilles'
<1>1. AgentsTypeOK /\ Surveilles
  BY DEF AtomiciteIInv, AgentsIInv
<1>2. /\ parc' = [parc EXCEPT ![n].frais = FALSE] /\ UNCHANGED <<surveillance, videe>>
      /\ parc[n].frais
  BY DEF VieillirMort, VieillirVivant
<1>3. Surveilles'
  BY <1>1, <1>2 DEF Surveilles, AgentsTypeOK, LigneWorker
<1>4. CASE n \in surveillance \/ parc[n].status = "OFFLINE"
  <2>1. UNCHANGED ParcVu
    BY <1>1, <1>2, <1>4 DEF ParcVu, AgentsTypeOK, LigneWorker
  <2> QED
    BY <1>3, <2>1 DEF PasDuParc
<1>5. CASE ~(n \in surveillance \/ parc[n].status = "OFFLINE")
  <2>1. ParcVu[n] = parc[n]
    BY <1>5 DEF ParcVu
  <2>2. D!Vieillir(n)
    BY <1>1, <1>2, <1>5, <2>1 DEF D!Vieillir, ParcVu, AgentsTypeOK, LigneWorker
  <2> QED
    BY <1>3, <2>2 DEF PasDuParc
<1> QED
  BY <1>4, <1>5

LEMMA AtomiciteNext ==
  ASSUME AtomiciteIInv, [AgentsNext]_agentsVars
  PROVE  AtomiciteIInv' /\ (~videe' => PasDuParc)
<1>1. AgentsIInv'
  BY AgentsNextIInv DEF AtomiciteIInv
<1>2. CASE UNCHANGED <<parc, surveillance, videe>>
  <2>1. PasDuParc
    BY <1>2, MemesLignes DEF PasDuParc
  <2> QED
    BY <1>1, <1>2, <2>1 DEF AtomiciteIInv, Surveilles
<1>3. ASSUME NEW c \in Connexions, Traiter(c) PROVE PasDuParc /\ Surveilles'
  <2>1. CASE Lire(c)
    <3>1. UNCHANGED <<parc, surveillance, videe>>
      BY <2>1 DEF Lire
    <3> QED
      BY <3>1, MemesLignes DEF PasDuParc, AtomiciteIInv, Surveilles
  <2> QED
    BY <1>3, <2>1, EcrireAtomique DEF Traiter
<1>4. ASSUME NEW n \in Noeuds, VieillirMort(n) \/ VieillirVivant(n)
      PROVE  PasDuParc /\ Surveilles'
  BY <1>4, VieillirAtomique
<1>5. CASE ViderBase
  BY <1>1, <1>5 DEF ViderBase, AtomiciteIInv, Surveilles
<1>6. CASE LireMuets \/ MarquerHorsLigne
  BY <1>1, <1>6, SurveillanceAtomique DEF AtomiciteIInv
<1> QED
  BY <1>1, <1>2, <1>3, <1>4, <1>5, <1>6
  DEF AgentsNext, AtomiciteIInv, DemarrerAgent, ArreterAgent, Agent, Enregistrer, Appeler,
      EnregistrerRefuse, Battre, Abandonner, Perdre, PanneDocker, RetourDocker, agentsVars

(***************************************************************************)
(* Whatever heartbeats, registrations, marks, timeouts and losses cross,   *)
(* the rows of workers evolve by the atomic steps that the platform takes  *)
(* (Database), for any number of nodes and of requests in flight.          *)
(***************************************************************************)
THEOREM RegistreAtomique == AgentsSpec => ParcAtomique
<1>1. AgentsInit => AtomiciteIInv /\ D!DatabaseInit
  <2> SUFFICES ASSUME AgentsInit
               PROVE  AtomiciteIInv /\ D!DatabaseInit
    OBVIOUS
  <2>1. D!DatabaseInit
    BY DEF AgentsInit, ParcVu, Inconnu, D!DatabaseInit
  <2> QED
    BY <2>1, AgentsInitIInv DEF AgentsInit, AtomiciteIInv, Surveilles
<1>2. AtomiciteIInv /\ [AgentsNext]_agentsVars => AtomiciteIInv'
  BY AtomiciteNext
<1>3. AtomiciteIInv /\ [AgentsNext]_agentsVars =>
        [~videe' => \/ \E n \in Noeuds : D!Battre(n) \/ D!Vieillir(n)
                    \/ D!MarkStaleWorkersOffline
                    \/ UNCHANGED ParcVu]_agentsVars
  BY AtomiciteNext DEF PasDuParc
<1> QED
  BY <1>1, <1>2, <1>3, PTL DEF AgentsSpec, ParcAtomique
=============================================================================
