-------------------------- MODULE InsaCloudProofs ---------------------------
(***************************************************************************)
(* Theorems about InsaCloud for every value of its constants.              *)
(***************************************************************************)
EXTENDS Invariant, TLAPS

(***************************************************************************)
(* What any docker call does to the containers that already existed: they  *)
(* stay on their daemon and never come back once removed.                  *)
(***************************************************************************)
Usure ==
  \A c \in Conteneurs : conteneurs[c].etat # "jamais" =>
    /\ conteneurs'[c].etat # "jamais"
    /\ conteneurs'[c].noeud = conteneurs[c].noeud
    /\ conteneurs'[c].etat = "present" => conteneurs[c].etat = "present"

-----------------------------------------------------------------------------
(* The daemons.                                                            *)

LEMMA DemonNoeud == ASSUME NEW n PROVE Demon(n) \in Noeuds
  BY NoeudsAssumption DEF Demon

LEMMA PanneType ==
  ASSUME DockerTypeOK, NEW f, Panne(f)
  PROVE  pannes' \in 0..MaxPannes
  BY MaxPannesAssumption DEF DockerTypeOK, Panne

LEMMA CreerEffet ==
  ASSUME DockerTypeOK, NEW c \in Conteneurs, NEW n, NEW nom \in Conteneurs,
         Creer(c, n, nom)
  PROVE  /\ conteneurs' \in [Conteneurs -> Conteneur]
         /\ conteneurs[c].etat = "jamais"
         /\ conteneurs'[c].etat # "jamais"
         /\ conteneurs'[c].noeud = Demon(n)
         /\ Usure
  BY DemonNoeud DEF DockerTypeOK, Creer, EstNouveau, Conteneur, Usure

LEMMA SupprimerEffet ==
  ASSUME DockerTypeOK, NEW c \in Conteneurs, NEW n, Supprimer(c, n)
  PROVE  /\ conteneurs' \in [Conteneurs -> Conteneur]
         /\ Usure
         /\ Hebergee(c, n) => ~Present(c)'
  <1>1. CASE c \in PresentsSur(n)
    BY <1>1 DEF DockerTypeOK, Supprimer, PresentsSur, Present, Conteneur, Usure
  <1>2. CASE c \notin PresentsSur(n)
    BY <1>2 DEF DockerTypeOK, Supprimer, PresentsSur, Present, Usure, Hebergee
  <1>3. QED BY <1>1, <1>2

LEMMA RunEffet ==
  ASSUME DockerTypeOK, NEW c \in Conteneurs, NEW n, NEW nom \in Conteneurs,
         RunReussi(c, n, nom) \/ RunSansReponse(c, n, nom)
  PROVE  /\ DockerTypeOK'
         /\ Usure
         /\ conteneurs[c].etat = "jamais"
         /\ conteneurs'[c].etat # "jamais"
         /\ conteneurs'[c].noeud = Demon(n)
  BY CreerEffet, PanneType
  DEF RunReussi, RunSansReponse, DockerTypeOK

LEMMA RmEffet ==
  ASSUME DockerTypeOK, NEW c \in Conteneurs, NEW n,
         RmReussi(c, n) \/ RmEchoue(c, n)
  PROVE  /\ DockerTypeOK'
         /\ Usure
         /\ RmReussi(c, n) /\ Hebergee(c, n) => ~Present(c)'
  <1>1. CASE RmReussi(c, n)
    BY <1>1, SupprimerEffet DEF RmReussi, DockerTypeOK
  <1>2. CASE RmSansReponse(c, n) 
    <2>1. Supprimer(c, n) /\ Panne("rm_sans_reponse") /\ joignable' = joignable
      BY <1>2 DEF RmSansReponse
    <2>2. DockerTypeOK' /\ Usure
      BY <2>1, SupprimerEffet, PanneType DEF DockerTypeOK
    <2>3. ~Present(c)' \/ ~Hebergee(c, n)
      BY <2>1, SupprimerEffet
    <2>4. QED BY <2>2, <2>3
  <1>3. CASE RmRefuse(n) /\ ~RmReussi(c, n)
    BY <1>3, PanneType DEF RmRefuse, DockerTypeOK, Usure
  <1>4. QED BY <1>1, <1>2, <1>3 DEF RmEchoue

-----------------------------------------------------------------------------
(* The initial state.                                                      *)

LEMMA InitIInv == Init => IInvSansReprise
<1> SUFFICES ASSUME Init PROVE IInvSansReprise OBVIOUS
<1> USE DEF Init, DockerInit, DatabaseInit, ServicesInit, FaucheurInit
<1>1. DockerTypeOK
  BY MaxPannesAssumption DEF DockerTypeOK, Conteneur, JamaisCree
<1>2. DatabaseTypeOK
  BY DatabaseAssumption DEF DatabaseTypeOK, Instance, LigneLibre, Worker
<1>3. ServicesTypeOK
  BY DEF ServicesTypeOK, Requete, Eteint, Repos, Etapes
<1>4. FaucheurTypeOK
  BY FaucheurAssumption DEF FaucheurTypeOK, EtatFaucheur, EtapesFaucheur, EnAttente
<1>5. Forme
  BY DEF Forme, FormeLignes, FormeRequetes, FormeFaucheur, LigneLibre, Eteint, Repos,
         EnAttente, Etape, A
<1>6. Reference
  BY DEF Reference, ReferenceExacte, LigneLibre, Eteint, Repos, EnAttente, Etape, Tient, A
<1>7. UnSeulDetenteur
  BY DEF UnSeulDetenteur, LigneLibre, Eteint, Repos, EnAttente, Etape, Tient, A
<1>8. Expiration
  BY DEF Expiration, ExpireeDoncDetruite, LigneLibre, EnAttente, A
<1>9. SansReprise
  BY DEF SansReprise, LecturesSuivies, LigneLibre, Eteint, Repos, EnAttente, Etape, A
<1>10. QED
  BY <1>1, <1>2, <1>3, <1>4, <1>5, <1>6, <1>7, <1>8, <1>9
  DEF IInvSansReprise, IInv, TypeOK

-----------------------------------------------------------------------------
(***************************************************************************)
(* Most steps give no container to a new holder: they leave the container  *)
(* and the node of every row, they may end a request or carry it on, and   *)
(* they mark as expired only what is already destroyed.                    *)
(***************************************************************************)
LignesStables ==
  \A i \in Ids :
    /\ instances'[i].cid = instances[i].cid
    /\ instances'[i].nom = instances[i].nom
    /\ instances'[i].worker = instances[i].worker
    /\ instances'[i].status = "libre" <=> instances[i].status = "libre"
    /\ instances'[i].status = "expired" =>
         instances[i].status = "expired" \/ ~Present(instances[i].cid)'

RequetesStables ==
  \A p \in WebProcs : Tient(p)' =>
    /\ Tient(p)
    /\ requetes'[p].cid = requetes[p].cid
    /\ requetes'[p].noeud = requetes[p].noeud

FaucheurStable ==
  /\ A("deplacer")' => /\ A("deplacer")
                       /\ faucheur'.cid = faucheur.cid /\ faucheur'.repli = faucheur.repli
  /\ A("marquer")' => \/ A("marquer") /\ faucheur'.inst = faucheur.inst
                      \/ ~Present(instances[faucheur.inst].cid)'

LEMMA SansNouveauDetenteur ==
  ASSUME IInv, TypeOK', Forme', Usure,
         LignesStables, RequetesStables, FaucheurStable
  PROVE  IInv'
<1>1. \A i \in Ids : instances[i].status # "libre" =>
        /\ instances[i].cid \in Conteneurs
        /\ Hebergee(instances[i].cid, instances[i].worker)
  BY DEF IInv, Forme, FormeLignes, Reference, ReferenceExacte, Hebergee
<1>2. \A p \in WebProcs : Tient(p) =>
        /\ requetes[p].cid \in Conteneurs
        /\ Hebergee(requetes[p].cid, requetes[p].noeud)
  BY DEF IInv, Forme, FormeRequetes, Reference, Tient
<1>3. A("deplacer") =>
        /\ faucheur.cid \in Conteneurs
        /\ Hebergee(faucheur.cid, faucheur.repli)
  BY DEF IInv, Forme, FormeFaucheur, Reference
<1>4. Reference'
  BY <1>1, <1>2, <1>3
  DEF Reference, ReferenceExacte, Hebergee, Usure, Demon,
      LignesStables, RequetesStables, FaucheurStable
<1>5. UnSeulDetenteur'
  BY DEF IInv, UnSeulDetenteur, LignesStables, RequetesStables, FaucheurStable
<1>6. Expiration'
  <2>1. ExpireeDoncDetruite'
    BY <1>1 DEF IInv, Expiration, ExpireeDoncDetruite, LignesStables, Usure,
                Present, Hebergee
  <2>2. ASSUME A("marquer")' PROVE ~Present(instances[faucheur.inst].cid)'
    <3>1. Ouverte(faucheur.inst)'
      BY <2>2 DEF Forme, FormeFaucheur, A
    <3>2. CASE A("marquer") /\ faucheur'.inst = faucheur.inst
      BY <1>1, <2>2, <3>1, <3>2
      DEF IInv, Expiration, LignesStables, Usure, Present, Hebergee, Ouverte
    <3>3. CASE ~Present(instances[faucheur.inst].cid)'
      BY <3>1, <3>3 DEF LignesStables, Ouverte, Present
    <3>4. QED BY <2>2, <3>2, <3>3 DEF FaucheurStable
  <2>3. QED BY <2>1, <2>2 DEF Expiration, Present, A
<1>7. QED BY <1>4, <1>5, <1>6 DEF IInv

LEMMA StableForme ==
  ASSUME FormeLignes, LignesStables
  PROVE  FormeLignes' /\ \A i : Ouverte(i) => Ouverte(i)'
  BY DEF FormeLignes, LignesStables, Ouverte

(* Nothing of what a step leaves unchanged can be a new holder.            *)
LEMMA StableUsure == ASSUME UNCHANGED conteneurs PROVE Usure
  BY DEF Usure

LEMMA StableLignes == ASSUME UNCHANGED instances PROVE LignesStables
  BY DEF LignesStables

LEMMA StableRequetes == ASSUME UNCHANGED requetes PROVE RequetesStables
  BY DEF RequetesStables, Tient, Etape

LEMMA StableFaucheur == ASSUME UNCHANGED faucheur PROVE FaucheurStable
  BY DEF FaucheurStable, A

-----------------------------------------------------------------------------
(* The steps of a request.                                                 *)

(* What the new record of a request must satisfy for FormeRequetes.        *)
BienForme(req) ==
  /\ req.etape \in {"lancer", "enregistrer", "declarer", "nettoyer", "detruire"} =>
       req.noeud \in Noeuds
  /\ req.etape \in {"enregistrer", "declarer", "nettoyer", "detruire"} =>
       req.cid \in Conteneurs
  /\ req.etape \in {"detruire", "clore", "prolonger", "ecrire"} =>
       Ouverte(req.inst)

LEMMA PasserType ==
  ASSUME ServicesTypeOK, NEW p \in WebProcs, NEW req \in Requete, Passer(p, req)
  PROVE  /\ ServicesTypeOK'
         /\ requetes'[p] = req
         /\ \A q \in WebProcs \ {p} : requetes'[q] = requetes[q]
  BY DEF ServicesTypeOK, Passer

LEMMA ReposType == Repos \in Requete /\ BienForme(Repos)
  BY DEF Repos, Requete, Etapes, BienForme

LEMMA EteintType == Eteint \in Requete /\ BienForme(Eteint)
  BY DEF Eteint, Repos, Requete, Etapes, BienForme

(* A step of a request that creates no holder keeps the invariant.         *)
LEMMA RequeteSansDetenteur ==
  ASSUME IInv, NEW p \in WebProcs, NEW req \in Requete, Passer(p, req),
         BienForme(req),
         req.etape \in {"enregistrer", "declarer", "nettoyer"} =>
           Tient(p) /\ req.cid = requetes[p].cid /\ req.noeud = requetes[p].noeud,
         DockerTypeOK', Usure, DatabaseTypeOK', LignesStables,
         UNCHANGED faucheur
  PROVE  IInv'
<1>1. ServicesTypeOK' /\ requetes'[p] = req
      /\ \A q \in WebProcs \ {p} : requetes'[q] = requetes[q]
  BY PasserType DEF IInv, TypeOK
<1>2. FaucheurTypeOK'
  BY DEF IInv, TypeOK, FaucheurTypeOK
<1>3. FormeLignes' /\ \A i : Ouverte(i) => Ouverte(i)'
  BY StableForme DEF IInv, Forme
<1>4. FormeRequetes'
  BY <1>1, <1>3 DEF IInv, Forme, FormeRequetes, BienForme, Etape
<1>5. FormeFaucheur'
  BY <1>3 DEF IInv, Forme, FormeFaucheur, A
<1>6. RequetesStables
  BY <1>1 DEF RequetesStables, Tient, Etape
<1>7. QED
  BY <1>1, <1>2, <1>3, <1>4, <1>5, <1>6, StableFaucheur, SansNouveauDetenteur
  DEF TypeOK, Forme

(* ... in particular one that ends it and touches neither docker nor rows. *)
LEMMA DebutRequeteInv ==
  ASSUME IInv, NEW p \in WebProcs, DebutRequete(p), UNCHANGED faucheur
  PROVE  IInv'
<1>1. Usure /\ LignesStables /\ DockerTypeOK' /\ DatabaseTypeOK'
  BY StableUsure, StableLignes
  DEF IInv, TypeOK, DockerTypeOK, DatabaseTypeOK, DebutRequete, DebutLouer,
      DebutArreter, DebutProlonger, dockerVars, databaseVars
<1>2. ASSUME NEW u \in Utilisateurs, NEW d \in Durees, DebutLouer(p, u, d)
      PROVE  IInv'
  <2> DEFINE req == [Repos EXCEPT !.etape = "choisir", !.user = u, !.duree = d]
  <2>1. req \in Requete /\ BienForme(req) /\ req.etape = "choisir"
    BY ServicesAssumption DEF Repos, Requete, Etapes, BienForme
  <2>2. Passer(p, req)
    BY <1>2 DEF DebutLouer
  <2> HIDE DEF req
  <2>3. QED BY <1>1, <2>1, <2>2, RequeteSansDetenteur
<1>3. ASSUME NEW i \in Ids, DebutArreter(p, i) PROVE IInv'
  <2> DEFINE req == [Repos EXCEPT !.etape = "detruire", !.inst = i,
                                  !.cid = instances[i].cid,
                                  !.noeud = instances[i].worker]
  <2>1. Ouverte(i) /\ instances[i].cid \in Conteneurs /\ instances[i].worker \in Noeuds
    BY <1>3 DEF DebutArreter, EnCours, Ouverte, IInv, Forme, FormeLignes
  <2>2. req \in Requete /\ BienForme(req) /\ req.etape = "detruire"
    BY <2>1 DEF Repos, Requete, Etapes, BienForme
  <2>3. Passer(p, req)
    BY <1>3 DEF DebutArreter
  <2> HIDE DEF req
  <2>4. QED BY <1>1, <2>2, <2>3, RequeteSansDetenteur
<1>4. ASSUME NEW i \in Ids, NEW d \in Durees, DebutProlonger(p, i, d) PROVE IInv'
  <2> DEFINE req == [Repos EXCEPT !.etape = "prolonger", !.inst = i, !.duree = d]
  <2>1. Ouverte(i)
    BY <1>4 DEF DebutProlonger, EnCours, Ouverte
  <2>2. req \in Requete /\ BienForme(req) /\ req.etape = "prolonger"
    BY <2>1, ServicesAssumption DEF Repos, Requete, Etapes, BienForme
  <2>3. Passer(p, req)
    BY <1>4 DEF DebutProlonger
  <2> HIDE DEF req
  <2>4. QED BY <1>1, <2>2, <2>3, RequeteSansDetenteur
<1>5. QED BY <1>2, <1>3, <1>4 DEF DebutRequete

LEMMA SetInstanceStatusEffet ==
  ASSUME DatabaseTypeOK, NEW i, Ouverte(i), NEW vu, NEW s \in Statuts,
         SetInstanceStatus(i, vu, s),
         s = "expired" => ~Present(instances[i].cid)'
  PROVE  DatabaseTypeOK' /\ LignesStables
<1>1. i \in Ids /\ instances[i].status # "libre"
  BY DEF Ouverte
<1>2. Correspondance(s) \in {"ACTIVE", "EXPIRED", "STOPPED"}
  BY DEF Correspondance
<1> DEFINE statut == Modifie(i, vu, s)
           ligne == [instances[i] EXCEPT !.status = statut, !.location = Correspondance(s)]
<1>2a. statut \in {s, instances[i].status} /\ instances[i].status \in Statuts
  BY <1>1 DEF Modifie, DatabaseTypeOK, Instance
<1> HIDE DEF statut
<1>3. DatabaseTypeOK'
  <2>1. ligne \in Instance
    BY <1>1, <1>2, <1>2a DEF DatabaseTypeOK, Instance
  <2>2. instances' = [instances EXCEPT ![i] = ligne] /\ UNCHANGED <<parc, maintenant>>
    BY DEF SetInstanceStatus, statut
  <2> HIDE DEF ligne
  <2>3. QED BY <1>1, <2>1, <2>2 DEF DatabaseTypeOK
<1>4. LignesStables
  <2>1. instances' = [instances EXCEPT ![i].status = statut,
                                       ![i].location = Correspondance(s)]
    BY DEF SetInstanceStatus, statut
  <2>2. QED
    BY <1>1, <1>2a, <2>1 DEF DatabaseTypeOK, LignesStables, Present, Instance, Statuts
<1>5. QED BY <1>3, <1>4

LEMMA MoinsChargesNoeuds ==
  ASSUME NEW S \in SUBSET Noeuds
  PROVE  MoinsCharges(S) \subseteq Noeuds
  BY DEF MoinsCharges

LEMMA SelectAvailableWorkerNoeuds ==
  ASSUME NEW prefer
  PROVE  SelectAvailableWorker(prefer) \subseteq Noeuds
  BY DEF SelectAvailableWorker, MoinsCharges, Disponibles

LEMMA ChoixWorkerNoeuds == ChoixWorker \subseteq Noeuds
  BY SelectAvailableWorkerNoeuds, MoinsChargesNoeuds, NoeudsAssumption DEF ChoixWorker

LEMMA ChoisirWorkerInv ==
  ASSUME IInv, NEW p \in WebProcs, ChoisirWorker(p), UNCHANGED faucheur
  PROVE  IInv'
<1>1. PICK n \in ChoixWorker :
        Passer(p, [requetes[p] EXCEPT !.etape = "lancer", !.noeud = n])
  BY DEF ChoisirWorker
<1> DEFINE req == [requetes[p] EXCEPT !.etape = "lancer", !.noeud = n]
<1>2. n \in Noeuds
  BY <1>1, ChoixWorkerNoeuds
<1>3. req \in Requete /\ BienForme(req) /\ req.etape = "lancer"
  BY <1>2 DEF IInv, TypeOK, ServicesTypeOK, Requete, Etapes, BienForme
<1>4. Usure /\ LignesStables /\ DockerTypeOK' /\ DatabaseTypeOK'
  BY StableUsure, StableLignes
  DEF IInv, TypeOK, DockerTypeOK, DatabaseTypeOK, ChoisirWorker, dockerVars, databaseVars
<1> HIDE DEF req
<1>5. QED BY <1>1, <1>3, <1>4, RequeteSansDetenteur DEF req

(* The container that docker has just created has no other holder.         *)
LEMMA LancerReussiInv ==
  ASSUME IInv, NEW p \in WebProcs, LancerReussi(p), UNCHANGED faucheur
  PROVE  IInv'
<1>1. PICK c \in Conteneurs :
        /\ RunReussi(c, requetes[p].noeud, c)
        /\ Passer(p, [requetes[p] EXCEPT !.etape = "enregistrer", !.cid = c])
  BY DEF LancerReussi
<1> DEFINE req == [requetes[p] EXCEPT !.etape = "enregistrer", !.cid = c]
<1>2. /\ DockerTypeOK' /\ Usure
      /\ conteneurs[c].etat = "jamais"
      /\ conteneurs'[c].etat # "jamais" /\ conteneurs'[c].noeud = Demon(requetes[p].noeud)
  BY <1>1, RunEffet DEF IInv, TypeOK
<1>3. /\ req \in Requete /\ req.etape = "enregistrer" /\ req.cid = c
      /\ req.noeud = requetes[p].noeud /\ req.noeud \in Noeuds
  BY DEF IInv, TypeOK, ServicesTypeOK, Requete, Etapes, Forme, FormeRequetes, LancerReussi
<1>4. /\ ServicesTypeOK' /\ requetes'[p] = req
      /\ \A q \in WebProcs \ {p} : requetes'[q] = requetes[q]
  BY <1>1, <1>3, PasserType DEF IInv, TypeOK
<1> HIDE DEF req
<1>5. UNCHANGED <<instances, parc, maintenant>>
  BY DEF LancerReussi, databaseVars
<1>6. TypeOK'
  BY <1>2, <1>4, <1>5 DEF IInv, TypeOK, DatabaseTypeOK, FaucheurTypeOK
<1>7. Forme'
  BY <1>3, <1>4, <1>5
  DEF IInv, Forme, FormeLignes, FormeRequetes, FormeFaucheur, Ouverte, Etape, A
<1>8. Reference'
  BY <1>2, <1>3, <1>4, <1>5
  DEF IInv, Reference, ReferenceExacte, Forme, FormeLignes, FormeRequetes, FormeFaucheur,
      Hebergee, Usure, Demon, Tient, Etape, A
<1>9. UnSeulDetenteur'
  BY <1>2, <1>3, <1>4, <1>5, RienAssumption
  DEF IInv, UnSeulDetenteur, Reference, ReferenceExacte, Forme, FormeLignes, FormeRequetes,
      FormeFaucheur, Hebergee, Tient, Etape, A
<1>10. Expiration'
  BY <1>2, <1>5
  DEF IInv, Expiration, ExpireeDoncDetruite, Reference, ReferenceExacte, Usure, Present, A,
      Forme, FormeLignes, FormeFaucheur, Ouverte
<1>11. QED BY <1>6, <1>7, <1>8, <1>9, <1>10 DEF IInv

LEMMA RefusEffet ==
  ASSUME DockerTypeOK, NEW n, NEW nom, RunRefuse(n, nom)
  PROVE  DockerTypeOK' /\ Usure
  BY PanneType, StableUsure DEF RunRefuse, DockerTypeOK

LEMMA LancerEchoueInv ==
  ASSUME IInv, NEW p \in WebProcs, LancerEchoue(p), UNCHANGED faucheur
  PROVE  IInv'
<1>1. DockerTypeOK' /\ Usure
  BY RefusEffet, RunEffet DEF LancerEchoue, IInv, TypeOK
<1>2. LignesStables /\ DatabaseTypeOK'
  BY StableLignes DEF LancerEchoue, databaseVars, IInv, TypeOK, DatabaseTypeOK
<1>3. Passer(p, Repos) /\ Repos.etape = "repos"
  BY DEF LancerEchoue, Finir, Repos
<1>4. QED BY <1>1, <1>2, <1>3, ReposType, RequeteSansDetenteur

(* The row takes over from the request that holds the container.           *)
LEMMA EnregistrerInv ==
  ASSUME IInv, NEW p \in WebProcs, Enregistrer(p), UNCHANGED faucheur
  PROVE  IInv'
<1> DEFINE c == requetes[p].cid
           n == requetes[p].noeud
<1>1. PICK i \in Ids : CreateInstance(i, requetes[p].user, c, n, requetes[p].duree)
  BY DEF Enregistrer
<1> DEFINE ligne == [status |-> "running", user |-> requetes[p].user, cid |-> c,
                     nom |-> c, worker |-> n, fin |-> maintenant + requetes[p].duree,
                     location |-> "ACTIVE"]
<1>2. /\ instances' = [instances EXCEPT ![i] = ligne]
      /\ instances[i].status = "libre"
      /\ instances[i].cid = Rien
  BY <1>1 DEF CreateInstance, EstNouvelId, IInv, Forme, FormeLignes
<1>3. Tient(p) /\ c \in Conteneurs /\ n \in Noeuds /\ Hebergee(c, n)
  BY DEF Enregistrer, Tient, IInv, Forme, FormeRequetes, Reference
<1>4. /\ ligne \in Instance
      /\ ligne.status = "running" /\ ligne.cid = c /\ ligne.nom = c /\ ligne.worker = n
  <2>1. requetes[p].user \in Utilisateurs \cup {Rien} /\ requetes[p].duree \in Nat
    BY DEF IInv, TypeOK, ServicesTypeOK, Requete
  <2>2. maintenant + requetes[p].duree \in Nat
    BY <2>1, DatabaseAssumption DEF IInv, TypeOK, DatabaseTypeOK
  <2>3. QED BY <1>3, <2>1, <2>2 DEF Instance, Statuts
<1>5. DatabaseTypeOK'
  BY <1>1, <1>2, <1>3, <1>4
  DEF CreateInstance, IInv, TypeOK, DatabaseTypeOK, Worker
<1>6. /\ \A j \in Ids \ {i} : instances'[j] = instances[j]
      /\ instances'[i].status = "running" /\ instances'[i].cid = c
      /\ instances'[i].nom = c /\ instances'[i].worker = n
  BY <1>2, <1>4 DEF IInv, TypeOK, DatabaseTypeOK
<1>7. /\ ServicesTypeOK' /\ requetes'[p] = Repos
      /\ \A q \in WebProcs \ {p} : requetes'[q] = requetes[q]
  BY ReposType, PasserType DEF Enregistrer, Finir, IInv, TypeOK
<1>8. ~Tient(p)'
  BY <1>7 DEF Tient, Etape, Repos
<1>9. UNCHANGED <<conteneurs, joignable, pannes>>
  BY DEF Enregistrer, dockerVars
<1> HIDE DEF ligne, c, n
<1>10. TypeOK'
  BY <1>5, <1>7, <1>9 DEF IInv, TypeOK, DockerTypeOK, FaucheurTypeOK
<1>11. Forme'
  BY <1>3, <1>6, <1>7
  DEF IInv, Forme, FormeLignes, FormeRequetes, FormeFaucheur, Ouverte, Etape, A, Repos
<1>12. Reference'
  BY <1>3, <1>6, <1>7, <1>8, <1>9
  DEF IInv, Reference, ReferenceExacte, Hebergee, Tient, Etape, A
<1>13. UnSeulDetenteur'
  BY <1>3, <1>6, <1>7, <1>8, RienAssumption DEF IInv, UnSeulDetenteur, Tient, Etape, A, c
<1>14. Expiration'
  BY <1>2, <1>6, <1>9
  DEF IInv, Expiration, ExpireeDoncDetruite, Present, A, Forme, FormeFaucheur, Ouverte
<1>15. QED BY <1>10, <1>11, <1>12, <1>13, <1>14 DEF IInv

(* A request that holds a container goes on holding it.                    *)
LEMMA GarderInv ==
  ASSUME IInv, NEW p \in WebProcs, Tient(p), NEW etape \in {"enregistrer", "declarer", "nettoyer"},
         Passer(p, [requetes[p] EXCEPT !.etape = etape]),
         DockerTypeOK', Usure, DatabaseTypeOK', LignesStables, UNCHANGED faucheur
  PROVE  IInv'
<1> DEFINE req == [requetes[p] EXCEPT !.etape = etape]
<1>1. /\ req \in Requete /\ BienForme(req)
      /\ req.cid = requetes[p].cid /\ req.noeud = requetes[p].noeud
  BY DEF Tient, IInv, TypeOK, ServicesTypeOK, Requete, Etapes, BienForme, Forme, FormeRequetes
<1> HIDE DEF req
<1>2. QED BY <1>1, RequeteSansDetenteur DEF req

LEMMA ChercherWorkerInv ==
  ASSUME IInv, NEW p \in WebProcs, ChercherWorker(p), UNCHANGED faucheur
  PROVE  IInv'
<1>1. DockerTypeOK' /\ Usure /\ LignesStables /\ DatabaseTypeOK'
  BY StableUsure, StableLignes
  DEF ChercherWorker, dockerVars, databaseVars, IInv, TypeOK, DockerTypeOK, DatabaseTypeOK
<1>2. QED BY <1>1, GarderInv DEF ChercherWorker, Tient

LEMMA DeclarerWorkerInv ==
  ASSUME IInv, NEW p \in WebProcs, DeclarerWorker(p), UNCHANGED faucheur
  PROVE  IInv'
<1>1. LignesStables /\ DatabaseTypeOK'
  <2>1. CASE InsererWorker(requetes[p].noeud)
    BY <2>1, StableLignes DEF InsererWorker, IInv, TypeOK, DatabaseTypeOK, Worker
  <2>2. CASE UNCHANGED databaseVars
    BY <2>2, StableLignes DEF databaseVars, IInv, TypeOK, DatabaseTypeOK
  <2>3. QED BY <2>1, <2>2 DEF DeclarerWorker
<1>2. DockerTypeOK' /\ Usure
  BY StableUsure DEF DeclarerWorker, dockerVars, IInv, TypeOK, DockerTypeOK
<1>3. QED BY <1>1, <1>2, GarderInv DEF DeclarerWorker, Tient

LEMMA EnregistrerEchoueInv ==
  ASSUME IInv, NEW p \in WebProcs, EnregistrerEchoue(p), UNCHANGED faucheur
  PROVE  IInv'
<1>1. DockerTypeOK' /\ Usure
  BY PanneType, StableUsure DEF EnregistrerEchoue, IInv, TypeOK, DockerTypeOK
<1>2. LignesStables /\ DatabaseTypeOK'
  BY StableLignes DEF EnregistrerEchoue, databaseVars, IInv, TypeOK, DatabaseTypeOK
<1>3. QED BY <1>1, <1>2, GarderInv DEF EnregistrerEchoue, Tient

LEMMA NettoyerInv ==
  ASSUME IInv, NEW p \in WebProcs, Nettoyer(p), UNCHANGED faucheur
  PROVE  IInv'
<1>1. requetes[p].cid \in Conteneurs
  BY DEF Nettoyer, IInv, Forme, FormeRequetes
<1>2. DockerTypeOK' /\ Usure
  BY <1>1, RmEffet DEF Nettoyer, IInv, TypeOK
<1>3. LignesStables /\ DatabaseTypeOK'
  BY StableLignes DEF Nettoyer, databaseVars, IInv, TypeOK, DatabaseTypeOK
<1>4. Passer(p, Repos) /\ Repos.etape = "repos"
  BY DEF Nettoyer, Finir, Repos
<1>5. QED BY <1>2, <1>3, <1>4, ReposType, RequeteSansDetenteur

LEMMA DetruireInv ==
  ASSUME IInv, NEW p \in WebProcs, Detruire(p), UNCHANGED faucheur
  PROVE  IInv'
<1> DEFINE req == [requetes[p] EXCEPT !.etape = "clore"]
<1>1. requetes[p].cid \in Conteneurs
  BY DEF Detruire, IInv, Forme, FormeRequetes
<1>2. DockerTypeOK' /\ Usure
  BY <1>1, RmEffet DEF Detruire, IInv, TypeOK
<1>3. LignesStables /\ DatabaseTypeOK'
  BY StableLignes DEF Detruire, databaseVars, IInv, TypeOK, DatabaseTypeOK
<1>4. req \in Requete /\ BienForme(req) /\ req.etape = "clore"
  BY DEF Detruire, IInv, TypeOK, ServicesTypeOK, Requete, Etapes, BienForme,
         Forme, FormeRequetes
<1>5. Passer(p, req) \/ (Passer(p, Repos) /\ Repos.etape = "repos")
  BY DEF Detruire, Finir, Repos
<1> HIDE DEF req
<1>6. QED BY <1>2, <1>3, <1>4, <1>5, ReposType, RequeteSansDetenteur

LEMMA LireAvantCloreInv ==
  ASSUME IInv, NEW p \in WebProcs, LireAvantClore(p), UNCHANGED faucheur
  PROVE  IInv'
<1> DEFINE req == [requetes[p] EXCEPT !.vu = LireStatut(requetes[p].inst)]
<1>1. Ouverte(requetes[p].inst) /\ requetes[p].etape = "clore"
  BY DEF LireAvantClore, Etape, IInv, Forme, FormeRequetes
<1>2. LireStatut(requetes[p].inst) \in Statuts
  BY <1>1 DEF LireStatut, Ouverte, IInv, TypeOK, DatabaseTypeOK, Instance
<1>3. req \in Requete /\ BienForme(req) /\ req.etape = "clore"
  BY <1>1, <1>2 DEF IInv, TypeOK, ServicesTypeOK, Requete, Etapes, BienForme
<1>4. Passer(p, req)
  BY DEF LireAvantClore
<1>5. DockerTypeOK' /\ Usure /\ LignesStables /\ DatabaseTypeOK'
  BY StableUsure, StableLignes
  DEF LireAvantClore, dockerVars, databaseVars, IInv, TypeOK, DockerTypeOK, DatabaseTypeOK
<1> HIDE DEF req
<1>6. QED BY <1>3, <1>4, <1>5, RequeteSansDetenteur

LEMMA CloreInv ==
  ASSUME IInv, NEW p \in WebProcs, Clore(p), UNCHANGED faucheur
  PROVE  IInv'
<1>1. Ouverte(requetes[p].inst) /\ SetInstanceStatus(requetes[p].inst, requetes[p].vu, "stopped")
  BY DEF Clore, IInv, Forme, FormeRequetes
<1>2. LignesStables /\ DatabaseTypeOK'
  BY <1>1, SetInstanceStatusEffet DEF Statuts, IInv, TypeOK
<1>3. DockerTypeOK' /\ Usure
  BY StableUsure DEF Clore, dockerVars, IInv, TypeOK, DockerTypeOK
<1>4. Passer(p, Repos) /\ Repos.etape = "repos"
  BY DEF Clore, Finir, Repos
<1>5. QED BY <1>2, <1>3, <1>4, ReposType, RequeteSansDetenteur

LEMMA LireLocationInv ==
  ASSUME IInv, NEW p \in WebProcs, LireLocation(p), UNCHANGED faucheur
  PROVE  IInv'
<1> DEFINE i == requetes[p].inst
           req == [requetes[p] EXCEPT !.etape = "ecrire",
                                      !.fin = LireFin(i, requetes[p].duree)]
<1>1. Ouverte(i) /\ requetes[p].duree \in Nat
  BY DEF LireLocation, IInv, TypeOK, ServicesTypeOK, Requete, Forme, FormeRequetes
<1>2. LireFin(i, requetes[p].duree) \in Nat
  BY <1>1 DEF LireFin, Ouverte, IInv, TypeOK, DatabaseTypeOK, Instance
<1>3. req \in Requete /\ BienForme(req) /\ req.etape = "ecrire"
  BY <1>1, <1>2 DEF IInv, TypeOK, ServicesTypeOK, Requete, Etapes, BienForme
<1>4. Passer(p, req) \/ (Passer(p, Repos) /\ Repos.etape = "repos")
  BY DEF LireLocation, Finir, Repos
<1>5. DockerTypeOK' /\ Usure /\ LignesStables /\ DatabaseTypeOK'
  BY StableUsure, StableLignes
  DEF LireLocation, dockerVars, databaseVars, IInv, TypeOK, DockerTypeOK, DatabaseTypeOK
<1> HIDE DEF req
<1>6. QED BY <1>3, <1>4, <1>5, ReposType, RequeteSansDetenteur

LEMMA EcrireLocationInv ==
  ASSUME IInv, NEW p \in WebProcs, EcrireLocation(p), UNCHANGED faucheur
  PROVE  IInv'
<1>1. requetes[p].inst \in Ids /\ requetes[p].fin \in Nat
  BY DEF EcrireLocation, IInv, TypeOK, ServicesTypeOK, Requete, Forme, FormeRequetes, Ouverte
<1>2. DatabaseTypeOK'
  BY <1>1 DEF EcrireLocation, EcrireFin, IInv, TypeOK, DatabaseTypeOK, Instance
<1>3. LignesStables
  BY <1>1 DEF EcrireLocation, EcrireFin, LignesStables, IInv, TypeOK, DatabaseTypeOK, Instance
<1>4. DockerTypeOK' /\ Usure
  BY StableUsure DEF EcrireLocation, dockerVars, IInv, TypeOK, DockerTypeOK
<1>5. Passer(p, Repos) /\ Repos.etape = "repos"
  BY DEF EcrireLocation, Finir, Repos
<1>6. QED BY <1>2, <1>3, <1>4, <1>5, ReposType, RequeteSansDetenteur

LEMMA BattreEffet ==
  ASSUME DatabaseTypeOK, NEW n \in Noeuds, Battre(n)
  PROVE  DatabaseTypeOK' /\ LignesStables
  BY StableLignes DEF Battre, DatabaseTypeOK, Worker

(* A request that is lost, with its process or without it.                 *)
LEMMA InterruptionWebInv ==
  ASSUME IInv, NEW p \in WebProcs, MortWeb(p) \/ ExceptionRequete(p), UNCHANGED faucheur
  PROVE  IInv'
<1>1. DockerTypeOK' /\ Usure
  BY PanneType, StableUsure DEF MortWeb, ExceptionRequete, IInv, TypeOK, DockerTypeOK
<1>2. LignesStables /\ DatabaseTypeOK'
  BY StableLignes DEF MortWeb, ExceptionRequete, databaseVars, IInv, TypeOK, DatabaseTypeOK
<1>3. Passer(p, Repos) /\ Repos.etape = "repos"
  BY DEF MortWeb, ExceptionRequete, Finir, Repos
<1>4. QED BY <1>1, <1>2, <1>3, ReposType, RequeteSansDetenteur

(* The start and the stop of the server leave no request at work.          *)
LEMMA ServeurRequetes ==
  ASSUME Serveur
  PROVE  \E etape \in {"repos", "arret"} :
           /\ [Repos EXCEPT !.etape = etape] \in Requete
           /\ requetes' = [p \in WebProcs |-> [Repos EXCEPT !.etape = etape]]
<1>1. [Repos EXCEPT !.etape = "repos"] = Repos /\ [Repos EXCEPT !.etape = "arret"] = Eteint
  BY DEF Repos, Eteint
<1>2. QED BY <1>1, ReposType, EteintType DEF Serveur, DemarrerServeur, ArretServeur

LEMMA ServeurInv ==
  ASSUME IInv, Serveur
  PROVE  IInv'
<1>1. UNCHANGED faucheur
  BY DEF Serveur
<1>2. DockerTypeOK' /\ Usure
  BY PanneType, StableUsure
  DEF Serveur, DemarrerServeur, ArretServeur, dockerVars, IInv, TypeOK, DockerTypeOK
<1>3. LignesStables /\ DatabaseTypeOK'
  <2>1. CASE Battre(LOCAL_WORKER)
    BY <2>1, NoeudsAssumption, BattreEffet DEF IInv, TypeOK
  <2>2. CASE UNCHANGED databaseVars
    BY <2>2, StableLignes DEF databaseVars, IInv, TypeOK, DatabaseTypeOK
  <2>3. QED BY <2>1, <2>2 DEF Serveur, DemarrerServeur, ArretServeur
<1>4. PICK etape \in {"repos", "arret"} :
        /\ [Repos EXCEPT !.etape = etape] \in Requete
        /\ requetes' = [p \in WebProcs |-> [Repos EXCEPT !.etape = etape]]
  BY ServeurRequetes
<1>5. ServicesTypeOK' /\ \A p \in WebProcs : Etape(p)' \in {"repos", "arret"}
  BY <1>4 DEF ServicesTypeOK, Etape, Repos
<1>6. RequetesStables /\ FormeRequetes'
  BY <1>5 DEF RequetesStables, Tient, FormeRequetes
<1>7. FormeLignes' /\ FormeFaucheur' /\ FaucheurTypeOK'
  BY <1>1, <1>3, StableForme
  DEF IInv, TypeOK, FaucheurTypeOK, Forme, FormeFaucheur, A
<1>8. QED
  BY <1>1, <1>2, <1>3, <1>5, <1>6, <1>7, StableFaucheur, SansNouveauDetenteur
  DEF TypeOK, Forme

LEMMA ProcessusWebInv ==
  ASSUME IInv, NEW p \in WebProcs, ProcessusWeb(p)
  PROVE  IInv'
  BY DebutRequeteInv, ChoisirWorkerInv, LancerReussiInv, LancerEchoueInv,
     EnregistrerInv, ChercherWorkerInv, DeclarerWorkerInv, EnregistrerEchoueInv,
     NettoyerInv, DetruireInv, LireAvantCloreInv, CloreInv, LireLocationInv,
     EcrireLocationInv, InterruptionWebInv
  DEF ProcessusWeb, EtapeWeb

-----------------------------------------------------------------------------
(* The steps of the Faucheur.                                              *)

(* A step of the Faucheur that creates no holder keeps the invariant.      *)
LEMMA FaucheurSansDetenteur ==
  ASSUME IInv, DockerTypeOK', Usure, DatabaseTypeOK', LignesStables,
         UNCHANGED requetes, FaucheurTypeOK', FormeFaucheur', FaucheurStable
  PROVE  IInv'
<1>1. ServicesTypeOK'
  BY DEF IInv, TypeOK, ServicesTypeOK
<1>2. FormeLignes' /\ \A i : Ouverte(i) => Ouverte(i)'
  BY StableForme DEF IInv, Forme
<1>3. FormeRequetes'
  BY <1>2 DEF IInv, Forme, FormeRequetes, Etape
<1>4. QED
  BY <1>1, <1>2, <1>3, StableRequetes, SansNouveauDetenteur DEF TypeOK, Forme

(* ... and a step that touches neither docker nor the rows.                *)
LEMMA FaucheurSeul ==
  ASSUME IInv, UNCHANGED <<dockerVars, databaseVars, requetes>>,
         FaucheurTypeOK', FormeFaucheur', ~A("deplacer")', ~A("marquer")'
  PROVE  IInv'
<1>1. DockerTypeOK' /\ Usure /\ LignesStables /\ DatabaseTypeOK'
  BY StableUsure, StableLignes
  DEF dockerVars, databaseVars, IInv, TypeOK, DockerTypeOK, DatabaseTypeOK
<1>2. FaucheurStable
  BY DEF FaucheurStable
<1>3. QED BY <1>1, <1>2, FaucheurSansDetenteur

LEMMA CycleType ==
  /\ 0 \in 0..(RECONCILE_EVERY - 1)
  /\ \A k \in 0..(RECONCILE_EVERY - 1) : (k + 1) % RECONCILE_EVERY \in 0..(RECONCILE_EVERY - 1)
  BY FaucheurAssumption

LEMMA EnAttenteType ==
  ASSUME NEW k \in 0..(RECONCILE_EVERY - 1)
  PROVE  EnAttente(k) \in EtatFaucheur
  BY DEF EnAttente, EtatFaucheur, EtapesFaucheur

LEMMA LireAvantEcrireInv ==
  ASSUME IInv, LireAvantEcrire
  PROVE  IInv'
<1>1. Ouverte(faucheur.inst)
  BY DEF LireAvantEcrire, IInv, Forme, FormeFaucheur
<1>2. LireStatut(faucheur.inst) \in Statuts
  BY <1>1 DEF LireStatut, Ouverte, IInv, TypeOK, DatabaseTypeOK, Instance
<1>3. /\ faucheur' \in EtatFaucheur
      /\ faucheur'.etape = faucheur.etape /\ faucheur'.inst = faucheur.inst
      /\ faucheur'.liste = faucheur.liste /\ faucheur'.disparus = faucheur.disparus
      /\ faucheur'.cid = faucheur.cid /\ faucheur'.repli = faucheur.repli
      /\ faucheur'.noeud = faucheur.noeud
  BY <1>2 DEF LireAvantEcrire, IInv, TypeOK, FaucheurTypeOK, EtatFaucheur
<1>4. FormeFaucheur' /\ FaucheurStable
  BY <1>3 DEF LireAvantEcrire, IInv, Forme, FormeFaucheur, Ouverte, A, FaucheurStable,
              databaseVars
<1>5. DockerTypeOK' /\ Usure /\ LignesStables /\ DatabaseTypeOK'
  BY StableUsure, StableLignes
  DEF LireAvantEcrire, dockerVars, databaseVars, IInv, TypeOK, DockerTypeOK, DatabaseTypeOK
<1>6. QED BY <1>3, <1>4, <1>5, FaucheurSansDetenteur DEF LireAvantEcrire, FaucheurTypeOK

LEMMA DebutCycleInv ==
  ASSUME IInv, DebutCycle
  PROVE  IInv'
<1>1. \A i \in Ids : Echue(i) => Ouverte(i)
  BY DEF Echue, EnCours, Ouverte
<1>2. FaucheurTypeOK'
  BY CycleType DEF DebutCycle, IInv, TypeOK, FaucheurTypeOK, EtatFaucheur, EtapesFaucheur
<1>3. FormeFaucheur'
  BY <1>1 DEF DebutCycle, IInv, TypeOK, FaucheurTypeOK, EtatFaucheur, Forme, FormeFaucheur,
              A, Ouverte, databaseVars
<1>4. ~A("deplacer")' /\ ~A("marquer")'
  BY DEF DebutCycle, A, IInv, TypeOK, FaucheurTypeOK, EtatFaucheur
<1>5. QED BY <1>2, <1>3, <1>4, FaucheurSeul DEF DebutCycle

LEMMA FaucherInv ==
  ASSUME IInv, NEW i \in Ids, Faucher(i)
  PROVE  IInv'
<1>1. /\ i \in faucheur.liste /\ Ouverte(i)
      /\ RmReussi(instances[i].cid, instances[i].worker)
      /\ faucheur' = [faucheur EXCEPT !.etape = "marquer", !.inst = i]
      /\ UNCHANGED <<instances, parc, maintenant, requetes>>
  BY DEF Faucher, IInv, Forme, FormeFaucheur, databaseVars
<1>2. /\ instances[i].cid \in Conteneurs
      /\ Hebergee(instances[i].cid, instances[i].worker)
  BY <1>1 DEF Ouverte, IInv, Forme, FormeLignes, Reference, ReferenceExacte, Hebergee
<1>3. DockerTypeOK' /\ Usure /\ conteneurs'[instances[i].cid].etat # "present"
  BY <1>1, <1>2, RmEffet DEF IInv, TypeOK, Present
<1>4. LignesStables /\ DatabaseTypeOK'
  BY <1>1, StableLignes DEF IInv, TypeOK, DatabaseTypeOK
<1>5. /\ faucheur' \in EtatFaucheur
      /\ faucheur'.etape = "marquer" /\ faucheur'.inst = i
      /\ faucheur'.liste = faucheur.liste /\ faucheur'.disparus = faucheur.disparus
  BY <1>1 DEF IInv, TypeOK, FaucheurTypeOK, EtatFaucheur, EtapesFaucheur
<1>6. FormeFaucheur'
  BY <1>1, <1>5 DEF IInv, Forme, FormeFaucheur, Ouverte, A
<1>7. FaucheurStable
  BY <1>1, <1>3, <1>5 DEF FaucheurStable, A, Present
<1>8. QED BY <1>1, <1>3, <1>4, <1>5, <1>6, <1>7, FaucheurSansDetenteur DEF FaucheurTypeOK

LEMMA FaucherEchoueInv ==
  ASSUME IInv, NEW i \in Ids, FaucherEchoue(i)
  PROVE  IInv'
<1>1. /\ i \in faucheur.liste /\ Ouverte(i) /\ A("faucher")
      /\ RmEchoue(instances[i].cid, instances[i].worker)
      /\ faucheur' = [faucheur EXCEPT !.liste = @ \ {i}]
      /\ UNCHANGED <<instances, parc, maintenant, requetes>>
  BY DEF FaucherEchoue, IInv, Forme, FormeFaucheur, databaseVars
<1>2. instances[i].cid \in Conteneurs
  BY <1>1 DEF Ouverte, IInv, Forme, FormeLignes
<1>3. DockerTypeOK' /\ Usure
  BY <1>1, <1>2, RmEffet DEF IInv, TypeOK
<1>4. LignesStables /\ DatabaseTypeOK'
  BY <1>1, StableLignes DEF IInv, TypeOK, DatabaseTypeOK
<1>5. /\ faucheur' \in EtatFaucheur
      /\ faucheur'.etape = "faucher"
      /\ faucheur'.liste \subseteq faucheur.liste /\ faucheur'.disparus = faucheur.disparus
  BY <1>1 DEF IInv, TypeOK, FaucheurTypeOK, EtatFaucheur, EtapesFaucheur, A
<1>6. FormeFaucheur' /\ FaucheurStable
  BY <1>1, <1>5 DEF IInv, Forme, FormeFaucheur, Ouverte, A, FaucheurStable
<1>7. QED BY <1>1, <1>3, <1>4, <1>5, <1>6, FaucheurSansDetenteur DEF FaucheurTypeOK

(* The mark comes after the removal: Expiration carries the fact over.     *)
LEMMA MarquerInv ==
  ASSUME IInv, Marquer
  PROVE  IInv'
<1> DEFINE i == faucheur.inst
<1>1. /\ Ouverte(i) /\ ~Present(instances[i].cid)
      /\ SetInstanceStatus(i, faucheur.vu, "expired")
      /\ UNCHANGED <<conteneurs, joignable, pannes, requetes>>
  BY DEF Marquer, IInv, Forme, FormeFaucheur, Expiration, A, dockerVars
<1>2. instances'[i].cid = instances[i].cid
  BY <1>1 DEF SetInstanceStatus, Ouverte, IInv, TypeOK, DatabaseTypeOK, Instance
<1>3. LignesStables /\ DatabaseTypeOK'
  <2>1. conteneurs'[instances'[i].cid].etat # "present"
    BY <1>1, <1>2 DEF Present
  <2>2. QED
    BY <1>1, <2>1, SetInstanceStatusEffet DEF Statuts, IInv, TypeOK, Present
<1>4. DockerTypeOK' /\ Usure
  BY <1>1, StableUsure DEF IInv, TypeOK, DockerTypeOK
<1>5. /\ faucheur' \in EtatFaucheur
      /\ faucheur'.etape = "faucher"
      /\ faucheur'.liste \subseteq faucheur.liste /\ faucheur'.disparus = faucheur.disparus
  BY DEF Marquer, IInv, TypeOK, FaucheurTypeOK, EtatFaucheur, EtapesFaucheur
<1>6. FormeFaucheur' /\ FaucheurStable
  BY <1>3, <1>5, StableForme DEF IInv, Forme, FormeFaucheur, A, FaucheurStable
<1>7. QED BY <1>1, <1>3, <1>4, <1>5, <1>6, FaucheurSansDetenteur DEF FaucheurTypeOK

LEMMA FinFaucheInv ==
  ASSUME IInv, FinFauche
  PROVE  IInv'
<1>1. FaucheurTypeOK'
  BY DEF FinFauche, Aller, IInv, TypeOK, FaucheurTypeOK, EtatFaucheur, EtapesFaucheur
<1>2. FormeFaucheur' /\ ~A("deplacer")' /\ ~A("marquer")'
  BY DEF FinFauche, Aller, IInv, TypeOK, FaucheurTypeOK, EtatFaucheur, Forme,
         FormeFaucheur, A, Ouverte, databaseVars
<1>3. QED BY <1>1, <1>2, FaucheurSeul DEF FinFauche

LEMMA BattreLocalInv ==
  ASSUME IInv, BattreLocal
  PROVE  IInv'
<1>1. LignesStables /\ DatabaseTypeOK'
  BY BattreEffet, StableLignes, NoeudsAssumption
  DEF BattreLocal, databaseVars, IInv, TypeOK, DatabaseTypeOK
<1>2. DockerTypeOK' /\ Usure
  BY StableUsure DEF BattreLocal, dockerVars, IInv, TypeOK, DockerTypeOK
<1>3. /\ faucheur' \in EtatFaucheur /\ faucheur'.etape = "surveiller"
      /\ faucheur'.liste = faucheur.liste /\ faucheur'.disparus = faucheur.disparus
  BY DEF BattreLocal, Aller, IInv, TypeOK, FaucheurTypeOK, EtatFaucheur, EtapesFaucheur
<1>4. FormeFaucheur' /\ FaucheurStable
  BY <1>1, <1>3, StableForme DEF IInv, Forme, FormeFaucheur, A, FaucheurStable
<1>5. QED BY <1>1, <1>2, <1>3, <1>4, FaucheurSansDetenteur DEF BattreLocal, FaucheurTypeOK

(* After the watch the Faucheur holds nothing.                             *)
LEMMA ApresSurveillanceType ==
  ASSUME FaucheurTypeOK, ApresSurveillance
  PROVE  /\ FaucheurTypeOK' /\ FormeFaucheur'
         /\ faucheur'.etape \in {"lister", "attente"}
<1>1. /\ EnAttente(0) \in EtatFaucheur /\ EnAttente(faucheur.cycle) \in EtatFaucheur
      /\ [EnAttente(0) EXCEPT !.etape = "lister"] \in EtatFaucheur
  BY CycleType, EnAttenteType DEF FaucheurTypeOK, EtatFaucheur, EtapesFaucheur
<1>2. /\ faucheur' \in EtatFaucheur /\ faucheur'.etape \in {"lister", "attente"}
      /\ faucheur'.liste = {} /\ faucheur'.disparus = {}
  BY <1>1 DEF ApresSurveillance, EnAttente
<1>3. QED BY <1>2 DEF FaucheurTypeOK, FormeFaucheur, A

LEMMA SurveillerInv ==
  ASSUME IInv, Surveiller
  PROVE  IInv'
<1>1. LignesStables /\ DatabaseTypeOK'
  BY StableLignes DEF Surveiller, MarkStaleWorkersOffline, IInv, TypeOK, DatabaseTypeOK, Worker
<1>2. DockerTypeOK' /\ Usure
  BY StableUsure DEF Surveiller, dockerVars, IInv, TypeOK, DockerTypeOK
<1>3. FaucheurTypeOK' /\ FormeFaucheur' /\ faucheur'.etape \in {"lister", "attente", "reprendre"}
  <2>1. CASE ApresSurveillance
    BY <2>1, ApresSurveillanceType DEF IInv, TypeOK
  <2>2. CASE faucheur' = [faucheur EXCEPT !.etape = "reprendre", !.noeuds = Muets]
    <3>1. /\ faucheur' \in EtatFaucheur /\ faucheur'.etape = "reprendre"
          /\ faucheur'.liste = faucheur.liste /\ faucheur'.disparus = faucheur.disparus
      BY <2>2 DEF Muets, IInv, TypeOK, FaucheurTypeOK, EtatFaucheur, EtapesFaucheur
    <3>2. QED
      BY <1>1, <3>1, StableForme DEF IInv, Forme, FormeFaucheur, A, FaucheurTypeOK
  <2>3. QED BY <2>1, <2>2 DEF Surveiller
<1>4. FaucheurStable
  BY <1>3 DEF FaucheurStable, A
<1>5. QED BY <1>1, <1>2, <1>3, <1>4, FaucheurSansDetenteur DEF Surveiller

LEMMA ReprendreWorkerInv ==
  ASSUME IInv, NEW n \in Noeuds, ReprendreWorker(n)
  PROVE  IInv'
<1>1. \A i \in ActivesSur(n) : Ouverte(i)
  BY DEF ActivesSur, EnCours, Ouverte
<1>2. /\ faucheur' \in EtatFaucheur
      /\ faucheur'.etape \in {"replier", "reprendre"}
      /\ faucheur'.liste \in {faucheur.liste, ActivesSur(n)}
      /\ faucheur'.disparus = faucheur.disparus
  <2>1. ActivesSur(n) \subseteq Ids
    BY DEF ActivesSur
  <2> DEFINE f == [faucheur EXCEPT !.etape = "replier", !.noeud = n,
                                   !.noeuds = @ \ {n}, !.liste = ActivesSur(n)]
             g == [faucheur EXCEPT !.noeuds = @ \ {n}]
  <2>2. faucheur' = f \/ faucheur' = g
    BY DEF ReprendreWorker
  <2>3. /\ f \in EtatFaucheur /\ f.etape = "replier"
        /\ f.liste = ActivesSur(n) /\ f.disparus = faucheur.disparus
    BY <2>1 DEF IInv, TypeOK, FaucheurTypeOK, EtatFaucheur, EtapesFaucheur
  <2>4. /\ g \in EtatFaucheur /\ g.etape = "reprendre"
        /\ g.liste = faucheur.liste /\ g.disparus = faucheur.disparus
    BY DEF ReprendreWorker, A, IInv, TypeOK, FaucheurTypeOK, EtatFaucheur, EtapesFaucheur
  <2> HIDE DEF f, g
  <2>5. QED BY <2>2, <2>3, <2>4
<1>3. FormeFaucheur' /\ ~A("deplacer")' /\ ~A("marquer")'
  BY <1>1, <1>2 DEF ReprendreWorker, IInv, Forme, FormeFaucheur, Ouverte, A, databaseVars
<1>4. QED BY <1>2, <1>3, FaucheurSeul DEF ReprendreWorker, FaucheurTypeOK

LEMMA ChoisirRepliInv ==
  ASSUME IInv, NEW i \in Ids, ChoisirRepli(i)
  PROVE  IInv'
<1>1. Ouverte(i)
  BY DEF ChoisirRepli, IInv, Forme, FormeFaucheur
<1>2. PICK r \in Noeuds \cup {Rien} :
        \/ faucheur' = [faucheur EXCEPT !.etape = "renoncer", !.inst = i]
        \/ /\ r \in Noeuds
           /\ faucheur' = [faucheur EXCEPT !.etape = "recreer", !.inst = i, !.repli = r]
  BY SelectAvailableWorkerNoeuds DEF ChoisirRepli
<1>3. /\ faucheur' \in EtatFaucheur
      /\ faucheur'.inst = i
      /\ faucheur'.liste = faucheur.liste /\ faucheur'.disparus = faucheur.disparus
      /\ \/ faucheur'.etape = "renoncer"
         \/ faucheur'.etape = "recreer" /\ faucheur'.repli \in Noeuds
  <2>1. faucheur \in EtatFaucheur
    BY DEF IInv, TypeOK, FaucheurTypeOK
  <2>2. CASE faucheur' = [faucheur EXCEPT !.etape = "renoncer", !.inst = i]
    BY <2>1, <2>2 DEF EtatFaucheur, EtapesFaucheur
  <2>3. CASE /\ r \in Noeuds
             /\ faucheur' = [faucheur EXCEPT !.etape = "recreer", !.inst = i, !.repli = r]
    BY <2>1, <2>3 DEF EtatFaucheur, EtapesFaucheur
  <2>4. QED BY <1>2, <2>2, <2>3
<1>4. FormeFaucheur' /\ ~A("deplacer")' /\ ~A("marquer")'
  BY <1>1, <1>3 DEF ChoisirRepli, IInv, Forme, FormeFaucheur, Ouverte, A, databaseVars
<1>5. QED BY <1>3, <1>4, FaucheurSeul DEF ChoisirRepli, FaucheurTypeOK

(* The recreated container has no other holder than the recovery itself.   *)
LEMMA RecreerInv ==
  ASSUME IInv, Recreer
  PROVE  IInv'
<1>1. PICK c \in Conteneurs :
        /\ RunReussi(c, faucheur.repli, instances[faucheur.inst].nom)
        /\ faucheur' = [faucheur EXCEPT !.etape = "deplacer", !.cid = c]
  BY DEF Recreer
<1>2. /\ Ouverte(faucheur.inst) /\ faucheur.repli \in Noeuds
      /\ instances[faucheur.inst].nom \in Conteneurs
  BY DEF Recreer, A, Ouverte, IInv, Forme, FormeFaucheur, FormeLignes
<1>3. /\ DockerTypeOK' /\ Usure
      /\ conteneurs[c].etat = "jamais"
      /\ conteneurs'[c].etat # "jamais" /\ conteneurs'[c].noeud = Demon(faucheur.repli)
  BY <1>1, <1>2, RunEffet DEF IInv, TypeOK
<1>4. /\ faucheur' \in EtatFaucheur
      /\ faucheur'.etape = "deplacer" /\ faucheur'.cid = c
      /\ faucheur'.inst = faucheur.inst /\ faucheur'.repli = faucheur.repli
      /\ faucheur'.liste = faucheur.liste /\ faucheur'.disparus = faucheur.disparus
  BY <1>1 DEF IInv, TypeOK, FaucheurTypeOK, EtatFaucheur, EtapesFaucheur
<1>5. UNCHANGED <<instances, parc, maintenant, requetes>>
  BY DEF Recreer, databaseVars
<1>6. TypeOK'
  BY <1>3, <1>4, <1>5 DEF IInv, TypeOK, DatabaseTypeOK, ServicesTypeOK, FaucheurTypeOK
<1>7. Forme'
  BY <1>2, <1>4, <1>5
  DEF IInv, Forme, FormeLignes, FormeRequetes, FormeFaucheur, Ouverte, Etape, A
<1>8. Reference'
  <2>1. ReferenceExacte'
    BY <1>3, <1>5
    DEF IInv, Reference, ReferenceExacte, Forme, FormeLignes, Usure, Demon
  <2>2. \A p \in WebProcs : Tient(p)' => Hebergee(requetes[p].cid, requetes[p].noeud)'
    BY <1>3, <1>5
    DEF IInv, Reference, Forme, FormeRequetes, Tient, Etape, Hebergee, Usure, Demon
  <2>3. A("deplacer")' => Hebergee(faucheur.cid, faucheur.repli)'
    BY <1>3, <1>4 DEF Hebergee, Demon
  <2>4. QED BY <2>1, <2>2, <2>3 DEF Reference
<1>9. UnSeulDetenteur'
  BY <1>3, <1>4, <1>5, RienAssumption
  DEF IInv, UnSeulDetenteur, Reference, ReferenceExacte, Forme, FormeLignes, FormeRequetes,
      Hebergee, Tient, Etape, A
<1>10. Expiration'
  BY <1>3, <1>4, <1>5
  DEF IInv, Expiration, ExpireeDoncDetruite, Reference, ReferenceExacte, Forme, FormeLignes,
      Usure, Present, A
<1>11. QED BY <1>6, <1>7, <1>8, <1>9, <1>10 DEF IInv

LEMMA RecreerEchoueInv ==
  ASSUME IInv, RecreerEchoue
  PROVE  IInv'
<1>1. instances[faucheur.inst].nom \in Conteneurs
  BY DEF RecreerEchoue, A, Ouverte, IInv, Forme, FormeFaucheur, FormeLignes
<1>2. DockerTypeOK' /\ Usure
  BY <1>1, RefusEffet, RunEffet DEF RecreerEchoue, IInv, TypeOK
<1>3. LignesStables /\ DatabaseTypeOK'
  BY StableLignes DEF RecreerEchoue, databaseVars, IInv, TypeOK, DatabaseTypeOK
<1>4. /\ faucheur' \in EtatFaucheur
      /\ faucheur'.etape = "renoncer" /\ faucheur'.inst = faucheur.inst
      /\ faucheur'.liste = faucheur.liste /\ faucheur'.disparus = faucheur.disparus
  BY DEF RecreerEchoue, IInv, TypeOK, FaucheurTypeOK, EtatFaucheur, EtapesFaucheur
<1>5. FormeFaucheur' /\ FaucheurStable
  BY <1>3, <1>4, StableForme
  DEF RecreerEchoue, IInv, Forme, FormeFaucheur, A, FaucheurStable
<1>6. QED BY <1>2, <1>3, <1>4, <1>5, FaucheurSansDetenteur DEF RecreerEchoue, FaucheurTypeOK

(* What the Faucheur becomes when it passes to the next instance.          *)
LEMMA InstanceSuivanteType ==
  ASSUME FaucheurTypeOK, InstanceSuivante
  PROVE  /\ faucheur' \in EtatFaucheur
         /\ faucheur'.etape = "replier"
         /\ faucheur'.liste \subseteq faucheur.liste
         /\ faucheur'.disparus = faucheur.disparus
  BY DEF InstanceSuivante, FaucheurTypeOK, EtatFaucheur, EtapesFaucheur

(* The row takes over from the recovery, on the node of the recovery.      *)
LEMMA DeplacerInv ==
  ASSUME IInv, RepriseOuverte, Deplacer
  PROVE  IInv'
<1> DEFINE i == faucheur.inst
           c == faucheur.cid
           n == faucheur.repli
<1>1. /\ Ouverte(i) /\ c \in Conteneurs /\ n \in Noeuds /\ Hebergee(c, n) /\ A("deplacer")
      /\ i \in Ids /\ instances[i].status # "libre"
  BY DEF Deplacer, IInv, Forme, FormeFaucheur, Reference, A, Ouverte
<1> DEFINE statut == Modifie(i, faucheur.vu, "running")
           ligne == [instances[i] EXCEPT !.cid = c, !.worker = n, !.status = statut]
<1>1a. statut \in {"running", "stopped"}
  BY DEF Modifie, Deplacer, A, RepriseOuverte
<1>2. /\ instances' = [instances EXCEPT ![i] = ligne]
      /\ UNCHANGED <<conteneurs, joignable, pannes, parc, maintenant, requetes>>
  BY DEF Deplacer, MoveInstance, dockerVars
<1>2a. instances[i] \in Instance
  BY <1>1 DEF IInv, TypeOK, DatabaseTypeOK
<1> HIDE DEF i, c, n, statut
<1>3. /\ ligne \in Instance
      /\ ligne.cid = c /\ ligne.worker = n /\ ligne.status \in {"running", "stopped"}
      /\ ligne.nom = instances[i].nom
  BY <1>1, <1>1a, <1>2a DEF Instance, Statuts
<1>4. /\ \A j \in Ids \ {i} : instances'[j] = instances[j]
      /\ instances'[i] = ligne
      /\ DatabaseTypeOK'
  BY <1>1, <1>2, <1>3 DEF IInv, TypeOK, DatabaseTypeOK
<1>5. /\ faucheur' \in EtatFaucheur
      /\ faucheur'.etape = "replier"
      /\ faucheur'.liste \subseteq faucheur.liste
      /\ faucheur'.disparus = faucheur.disparus
  BY InstanceSuivanteType DEF Deplacer, IInv, TypeOK
<1> HIDE DEF ligne
<1>6. TypeOK'
  BY <1>2, <1>4, <1>5 DEF IInv, TypeOK, DockerTypeOK, ServicesTypeOK, FaucheurTypeOK
<1>7. Forme'
  BY <1>1, <1>2, <1>3, <1>4, <1>5
  DEF IInv, Forme, FormeLignes, FormeRequetes, FormeFaucheur, Ouverte, Etape, A
<1>8. Reference'
  BY <1>1, <1>2, <1>3, <1>4, <1>5
  DEF IInv, Reference, ReferenceExacte, Hebergee, Tient, Etape, A
<1>9. UnSeulDetenteur'
  BY <1>1, <1>2, <1>3, <1>4, <1>5, RienAssumption
  DEF IInv, UnSeulDetenteur, Tient, Etape, A, c
<1>10. Expiration'
  BY <1>1, <1>2, <1>3, <1>4, <1>5
  DEF IInv, Expiration, ExpireeDoncDetruite, Present, A
<1>11. QED BY <1>6, <1>7, <1>8, <1>9, <1>10 DEF IInv

LEMMA RenoncerInv ==
  ASSUME IInv, Renoncer
  PROVE  IInv'
<1>1. Ouverte(faucheur.inst) /\ SetInstanceStatus(faucheur.inst, faucheur.vu, "stopped")
  BY DEF Renoncer, IInv, Forme, FormeFaucheur, A
<1>2. LignesStables /\ DatabaseTypeOK'
  BY <1>1, SetInstanceStatusEffet DEF Statuts, IInv, TypeOK
<1>3. DockerTypeOK' /\ Usure
  BY StableUsure DEF Renoncer, dockerVars, IInv, TypeOK, DockerTypeOK
<1>4. /\ faucheur' \in EtatFaucheur
      /\ faucheur'.etape = "replier"
      /\ faucheur'.liste \subseteq faucheur.liste
      /\ faucheur'.disparus = faucheur.disparus
  BY InstanceSuivanteType DEF Renoncer, IInv, TypeOK
<1>5. FormeFaucheur' /\ FaucheurStable
  BY <1>2, <1>4, StableForme DEF IInv, Forme, FormeFaucheur, A, FaucheurStable
<1>6. QED BY <1>2, <1>3, <1>4, <1>5, FaucheurSansDetenteur DEF Renoncer, FaucheurTypeOK

LEMMA FinRepriseInv ==
  ASSUME IInv, FinReprise
  PROVE  IInv'
<1>1. FaucheurTypeOK' /\ FormeFaucheur' /\ faucheur'.etape \in {"reprendre", "lister", "attente"}
  <2>1. CASE ApresSurveillance
    BY <2>1, ApresSurveillanceType DEF IInv, TypeOK
  <2>2. CASE faucheur' = [faucheur EXCEPT !.etape = "reprendre", !.noeud = Rien]
    <3>1. /\ faucheur' \in EtatFaucheur /\ faucheur'.etape = "reprendre"
          /\ faucheur'.liste = faucheur.liste /\ faucheur'.disparus = faucheur.disparus
      BY <2>2 DEF IInv, TypeOK, FaucheurTypeOK, EtatFaucheur, EtapesFaucheur
    <3>2. QED
      BY <3>1 DEF FinReprise, IInv, Forme, FormeFaucheur, Ouverte, A, FaucheurTypeOK, databaseVars
  <2>3. QED BY <2>1, <2>2 DEF FinReprise
<1>2. ~A("deplacer")' /\ ~A("marquer")'
  BY <1>1 DEF A
<1>3. QED BY <1>1, <1>2, FaucheurSeul DEF FinReprise

LEMMA ListerActivesInv ==
  ASSUME IInv, ListerActives
  PROVE  IInv'
<1>1. \A i \in Ids : EnCours(i) => Ouverte(i)
  BY DEF EnCours, Ouverte
<1>2. /\ faucheur' \in EtatFaucheur /\ faucheur'.etape = "ps"
      /\ faucheur'.liste = {i \in Ids : EnCours(i)} /\ faucheur'.disparus = faucheur.disparus
  BY NoeudsAssumption
  DEF ListerActives, IInv, TypeOK, FaucheurTypeOK, EtatFaucheur, EtapesFaucheur
<1>3. FormeFaucheur' /\ ~A("deplacer")' /\ ~A("marquer")'
  BY <1>1, <1>2 DEF ListerActives, IInv, Forme, FormeFaucheur, Ouverte, A, databaseVars
<1>4. QED BY <1>2, <1>3, FaucheurSeul DEF ListerActives, FaucheurTypeOK

LEMMA PsInv ==
  ASSUME IInv, NEW n \in Noeuds, Ps(n)
  PROVE  IInv'
<1>1. Orphelins(n) \subseteq Conteneurs /\ Disparus(n) \subseteq faucheur.liste
  BY DEF Orphelins, PresentsSur, Disparus, ListeDe
<1>2. /\ faucheur' \in EtatFaucheur
      /\ faucheur'.etape = "purger" /\ faucheur'.noeud = n
      /\ faucheur'.liste = faucheur.liste /\ faucheur'.disparus = Disparus(n)
  BY <1>1 DEF Ps, IInv, TypeOK, FaucheurTypeOK, EtatFaucheur, EtapesFaucheur
<1>3. FormeFaucheur' /\ ~A("deplacer")' /\ ~A("marquer")'
  BY <1>1, <1>2 DEF Ps, IInv, Forme, FormeFaucheur, Ouverte, A, databaseVars
<1>4. QED BY <1>2, <1>3, FaucheurSeul DEF Ps, FaucheurTypeOK

LEMMA PsEchoueInv ==
  ASSUME IInv, NEW n \in Noeuds, PsEchoue(n)
  PROVE  IInv'
<1>1. /\ faucheur' \in EtatFaucheur /\ faucheur'.etape = "ps"
      /\ faucheur'.liste = faucheur.liste /\ faucheur'.disparus = faucheur.disparus
  BY DEF PsEchoue, A, IInv, TypeOK, FaucheurTypeOK, EtatFaucheur, EtapesFaucheur
<1>2. DockerTypeOK' /\ Usure
  BY PanneType, StableUsure DEF PsEchoue, IInv, TypeOK, DockerTypeOK
<1>3. LignesStables /\ DatabaseTypeOK'
  BY StableLignes DEF PsEchoue, databaseVars, IInv, TypeOK, DatabaseTypeOK
<1>4. FormeFaucheur' /\ FaucheurStable
  BY <1>1, <1>3, StableForme DEF IInv, Forme, FormeFaucheur, A, FaucheurStable
<1>5. QED BY <1>1, <1>2, <1>3, <1>4, FaucheurSansDetenteur DEF PsEchoue, FaucheurTypeOK

LEMMA PurgerInv ==
  ASSUME IInv, NEW c \in Conteneurs, Purger(c)
  PROVE  IInv'
<1>1. /\ faucheur' \in EtatFaucheur
      /\ faucheur'.etape = "purger" /\ faucheur'.noeud = faucheur.noeud
      /\ faucheur'.liste = faucheur.liste /\ faucheur'.disparus = faucheur.disparus
  BY DEF Purger, A, IInv, TypeOK, FaucheurTypeOK, EtatFaucheur, EtapesFaucheur
<1>2. DockerTypeOK' /\ Usure
  BY RmEffet DEF Purger, IInv, TypeOK
<1>3. LignesStables /\ DatabaseTypeOK'
  BY StableLignes DEF Purger, databaseVars, IInv, TypeOK, DatabaseTypeOK
<1>4. FormeFaucheur' /\ FaucheurStable
  BY <1>1, <1>3, StableForme DEF Purger, IInv, Forme, FormeFaucheur, A, FaucheurStable
<1>5. QED BY <1>1, <1>2, <1>3, <1>4, FaucheurSansDetenteur DEF Purger, FaucheurTypeOK

LEMMA LireDisparuInv ==
  ASSUME IInv, NEW i \in Ids, LireDisparu(i)
  PROVE  IInv'
<1>1. LireStatut(i) \in Statuts \cup {"libre"}
  BY DEF LireStatut, IInv, TypeOK, DatabaseTypeOK, Instance
<1>2. /\ faucheur' \in EtatFaucheur
      /\ faucheur'.etape = "purger" /\ faucheur'.noeud = faucheur.noeud
      /\ faucheur'.liste = faucheur.liste /\ faucheur'.disparus = faucheur.disparus
  BY <1>1 DEF LireDisparu, A, IInv, TypeOK, FaucheurTypeOK, EtatFaucheur, EtapesFaucheur
<1>3. FormeFaucheur' /\ ~A("deplacer")' /\ ~A("marquer")'
  BY <1>2 DEF LireDisparu, IInv, Forme, FormeFaucheur, Ouverte, A, databaseVars
<1>4. QED BY <1>2, <1>3, FaucheurSeul DEF LireDisparu, FaucheurTypeOK

LEMMA ConstaterInv ==
  ASSUME IInv, NEW i \in Ids, Constater(i)
  PROVE  IInv'
<1>1. Ouverte(i) /\ SetInstanceStatus(i, faucheur.vu, "stopped")
  BY DEF Constater, IInv, Forme, FormeFaucheur
<1>2. LignesStables /\ DatabaseTypeOK'
  BY <1>1, SetInstanceStatusEffet DEF Statuts, IInv, TypeOK
<1>3. DockerTypeOK' /\ Usure
  BY StableUsure DEF Constater, dockerVars, IInv, TypeOK, DockerTypeOK
<1>4. /\ faucheur' \in EtatFaucheur
      /\ faucheur'.etape = "purger" /\ faucheur'.noeud = faucheur.noeud
      /\ faucheur'.liste = faucheur.liste /\ faucheur'.disparus \subseteq faucheur.disparus
  BY DEF Constater, A, IInv, TypeOK, FaucheurTypeOK, EtatFaucheur, EtapesFaucheur
<1>5. FormeFaucheur' /\ FaucheurStable
  BY <1>2, <1>4, StableForme DEF Constater, IInv, Forme, FormeFaucheur, A, FaucheurStable
<1>6. QED BY <1>2, <1>3, <1>4, <1>5, FaucheurSansDetenteur DEF Constater, FaucheurTypeOK

LEMMA FinReconciliationInv ==
  ASSUME IInv, FinReconciliation
  PROVE  IInv'
<1>1. FaucheurTypeOK' /\ FormeFaucheur' /\ faucheur'.etape \in {"ps", "attente"}
  <2>1. CASE faucheur' = [faucheur EXCEPT !.etape = "ps", !.noeud = Rien]
    <3>1. /\ faucheur' \in EtatFaucheur /\ faucheur'.etape = "ps"
          /\ faucheur'.liste = faucheur.liste /\ faucheur'.disparus = faucheur.disparus
      BY <2>1 DEF IInv, TypeOK, FaucheurTypeOK, EtatFaucheur, EtapesFaucheur
    <3>2. QED
      BY <3>1
      DEF FinReconciliation, IInv, Forme, FormeFaucheur, Ouverte, A, FaucheurTypeOK, databaseVars
  <2>2. CASE faucheur' = EnAttente(faucheur.cycle)
    <3>1. faucheur.cycle \in 0..(RECONCILE_EVERY - 1)
      BY DEF IInv, TypeOK, FaucheurTypeOK, EtatFaucheur
    <3>2. QED
      BY <2>2, <3>1, EnAttenteType DEF FaucheurTypeOK, FormeFaucheur, A, EnAttente
  <2>3. QED BY <2>1, <2>2 DEF FinReconciliation
<1>2. ~A("deplacer")' /\ ~A("marquer")'
  BY <1>1 DEF A
<1>3. QED BY <1>1, <1>2, FaucheurSeul DEF FinReconciliation

(* Whatever the Faucheur was doing, it may stop there.                     *)
LEMMA InterruptionInv ==
  ASSUME IInv, ExceptionFaucheur \/ CrashFaucheur
  PROVE  IInv'
<1>1. faucheur.cycle \in 0..(RECONCILE_EVERY - 1)
  BY DEF IInv, TypeOK, FaucheurTypeOK, EtatFaucheur
<1>2. PICK k \in 0..(RECONCILE_EVERY - 1) : faucheur' = EnAttente(k)
  BY <1>1, CycleType DEF ExceptionFaucheur, CrashFaucheur
<1>3. FaucheurTypeOK' /\ FormeFaucheur' /\ FaucheurStable
  BY <1>2, EnAttenteType DEF FaucheurTypeOK, FormeFaucheur, A, EnAttente, FaucheurStable
<1>4. DockerTypeOK' /\ Usure
  BY PanneType, StableUsure
  DEF ExceptionFaucheur, CrashFaucheur, IInv, TypeOK, DockerTypeOK
<1>5. LignesStables /\ DatabaseTypeOK' /\ requetes' = requetes
  BY StableLignes
  DEF ExceptionFaucheur, CrashFaucheur, databaseVars, IInv, TypeOK, DatabaseTypeOK
<1>6. QED BY <1>3, <1>4, <1>5, FaucheurSansDetenteur

LEMMA ProcessusFaucheurInv ==
  ASSUME IInv, RepriseOuverte, ProcessusFaucheur
  PROVE  IInv'
  BY LireAvantEcrireInv, DebutCycleInv, FaucherInv, FaucherEchoueInv, MarquerInv, FinFaucheInv, BattreLocalInv,
     SurveillerInv, ReprendreWorkerInv, ChoisirRepliInv, RecreerInv, RecreerEchoueInv,
     DeplacerInv, RenoncerInv, FinRepriseInv, ListerActivesInv, PsInv, PsEchoueInv,
     PurgerInv, LireDisparuInv, ConstaterInv, FinReconciliationInv, InterruptionInv
  DEF ProcessusFaucheur, EtapeFaucheur

-----------------------------------------------------------------------------
(* The steps of the environment.                                           *)

LEMMA EnvironnementInv ==
  ASSUME IInv, Environnement
  PROVE  IInv'
<1>1. /\ UNCHANGED <<requetes, faucheur>>
      /\ FaucheurTypeOK /\ DockerTypeOK /\ DatabaseTypeOK
  BY DEF Environnement, BattementAgent, SilenceAgent, PasserLeTemps, Exploitation, IInv, TypeOK
<1>2. DockerTypeOK' /\ Usure
  <2>1. CASE UNCHANGED <<conteneurs, joignable>> /\ (UNCHANGED pannes \/ Panne("silence"))
    BY <1>1, <2>1, PanneType, StableUsure DEF DockerTypeOK
  <2>2. ASSUME NEW n \in Noeuds, PanneDocker(n) \/ RetourDocker(n)
        PROVE  DockerTypeOK' /\ Usure
    BY <1>1, <2>2, PanneType, StableUsure DEF PanneDocker, RetourDocker, DockerTypeOK
  <2>3. ASSUME NEW c \in Conteneurs, SuppressionAdmin(c)
        PROVE  DockerTypeOK' /\ Usure
    BY <1>1, <2>3, PanneType
    DEF SuppressionAdmin, DockerTypeOK, Conteneur, Present, Usure
  <2>4. QED
    BY <2>1, <2>2, <2>3
    DEF Environnement, BattementAgent, SilenceAgent, PasserLeTemps, Exploitation, dockerVars
<1>3. DatabaseTypeOK' /\ LignesStables
  <2>1. ASSUME NEW n \in Noeuds, BattementAgent(n) PROVE DatabaseTypeOK' /\ LignesStables
    BY <1>1, <2>1, BattreEffet DEF BattementAgent
  <2>2. ASSUME NEW n \in Noeuds, SilenceAgent(n) PROVE DatabaseTypeOK' /\ LignesStables
    BY <1>1, <2>2, StableLignes DEF SilenceAgent, Vieillir, DatabaseTypeOK, Worker
  <2>3. CASE PasserLeTemps
    BY <1>1, <2>3, StableLignes, DatabaseAssumption DEF PasserLeTemps, Tic, DatabaseTypeOK
  <2>4. CASE UNCHANGED databaseVars
    BY <1>1, <2>4, StableLignes DEF databaseVars, DatabaseTypeOK
  <2>5. QED BY <2>1, <2>2, <2>3, <2>4 DEF Environnement, Exploitation
<1>4. FaucheurTypeOK' /\ FormeFaucheur' /\ FaucheurStable
  BY <1>1, <1>3, StableForme, StableFaucheur DEF FaucheurTypeOK, IInv, Forme, FormeFaucheur, A
<1>5. QED BY <1>1, <1>2, <1>3, <1>4, FaucheurSansDetenteur

LEMMA BegaiementInv ==
  ASSUME IInv, UNCHANGED vars
  PROVE  IInv'
<1>1. UNCHANGED <<dockerVars, databaseVars, requetes>> /\ UNCHANGED faucheur
  BY DEF vars
<1>2. DockerTypeOK' /\ Usure /\ LignesStables /\ DatabaseTypeOK'
  BY <1>1, StableUsure, StableLignes
  DEF dockerVars, databaseVars, IInv, TypeOK, DockerTypeOK, DatabaseTypeOK
<1>3. FaucheurTypeOK' /\ FormeFaucheur' /\ FaucheurStable
  BY <1>1, <1>2, StableForme, StableFaucheur
  DEF FaucheurTypeOK, IInv, TypeOK, Forme, FormeFaucheur, A
<1>4. QED BY <1>1, <1>2, <1>3, FaucheurSansDetenteur

-----------------------------------------------------------------------------
(***************************************************************************)
(* The rows being recovered stay open, or are stopped by their users: what *)
(* move_instance leaves in place of a status is never "expired".           *)
(***************************************************************************)
(* What a request does to the rows: it writes a new one, or ends one.      *)
LEMMA WebStatuts ==
  ASSUME IInv, NEW p \in WebProcs, ProcessusWeb(p)
  PROVE  \A i \in Ids :
           \/ /\ instances'[i].cid = instances[i].cid
              /\ instances'[i].status \in {instances[i].status, "stopped"}
           \/ /\ instances[i].status = "libre"
              /\ Tient(p) /\ instances'[i].cid = requetes[p].cid
<1>1. instances \in [Ids -> Instance]
  BY DEF IInv, TypeOK, DatabaseTypeOK
<1>2. CASE UNCHANGED instances
  BY <1>2
<1>3. CASE Enregistrer(p)
  <2>1. PICK i \in Ids : CreateInstance(i, requetes[p].user, requetes[p].cid,
                                        requetes[p].noeud, requetes[p].duree)
    BY <1>3 DEF Enregistrer
  <2>2. /\ instances'[i].cid = requetes[p].cid /\ instances[i].status = "libre"
        /\ \A j \in Ids \ {i} : instances'[j] = instances[j]
    BY <1>1, <2>1 DEF CreateInstance, EstNouvelId
  <2>3. Tient(p)
    BY <1>3 DEF Enregistrer, Tient
  <2>4. QED BY <2>2, <2>3
<1>4. CASE Clore(p)
  BY <1>1, <1>4 DEF Clore, SetInstanceStatus, Modifie, Instance
<1>5. CASE EcrireLocation(p)
  BY <1>1, <1>5 DEF EcrireLocation, EcrireFin, Instance
<1>6. QED
  BY <1>2, <1>3, <1>4, <1>5
  DEF ProcessusWeb, DebutRequete, DebutLouer, DebutArreter, DebutProlonger, EtapeWeb,
      ChoisirWorker, LancerReussi, LancerEchoue, ChercherWorker, DeclarerWorker,
      InsererWorker, EnregistrerEchoue, Nettoyer, Detruire, LireAvantClore,
      LireLocation, ExceptionRequete, MortWeb, databaseVars

(* Outside of these actions, it is not in the middle of a recovery.        *)
LEMMA HorsReprise ==
  ASSUME IInv, ProcessusFaucheur,
         \A n \in Noeuds : ~ReprendreWorker(n),
         \A i \in Ids : ~ChoisirRepli(i),
         ~Recreer, ~RecreerEchoue, ~Deplacer, ~Renoncer,
         LireAvantEcrire => A("marquer")
  PROVE  faucheur'.etape \notin {"replier", "recreer", "deplacer", "renoncer"}
<1> DEFINE Dehors == faucheur'.etape \notin {"replier", "recreer", "deplacer", "renoncer"}
<1>1. faucheur \in EtatFaucheur
  BY DEF IInv, TypeOK, FaucheurTypeOK
<1>2. ASSUME NEW k, faucheur' = EnAttente(k) PROVE Dehors
  BY <1>2 DEF EnAttente
<1>3. CASE ApresSurveillance
  BY <1>3 DEF ApresSurveillance, EnAttente
<1>3a. CASE LireAvantEcrire /\ A("marquer")
  BY <1>1, <1>3a DEF LireAvantEcrire, A, EtatFaucheur
<1>4. CASE DebutCycle \/ Marquer \/ FinFauche \/ BattreLocal \/ ListerActives
  BY <1>1, <1>4
  DEF DebutCycle, Marquer, FinFauche, BattreLocal, ListerActives, Aller, EtatFaucheur
<1>5. CASE Surveiller
  BY <1>1, <1>3, <1>5 DEF Surveiller, EtatFaucheur
<1>6. ASSUME NEW i \in Ids, Faucher(i) \/ FaucherEchoue(i) \/ LireDisparu(i) \/ Constater(i)
      PROVE  Dehors
  BY <1>1, <1>6 DEF Faucher, FaucherEchoue, LireDisparu, Constater, A, EtatFaucheur
<1>7. ASSUME NEW n \in Noeuds, Ps(n) \/ PsEchoue(n) PROVE Dehors
  <2>1. CASE Ps(n)
    BY <1>1, <2>1 DEF Ps, EtatFaucheur
  <2>2. CASE PsEchoue(n)
    BY <1>1, <2>2 DEF PsEchoue, A, EtatFaucheur
  <2>3. QED BY <1>7, <2>1, <2>2
<1>8. ASSUME NEW c \in Conteneurs, Purger(c) PROVE Dehors
  BY <1>1, <1>8 DEF Purger, A, EtatFaucheur
<1>9. CASE FinReprise
  BY <1>1, <1>3, <1>9 DEF FinReprise, EtatFaucheur
<1>10. CASE FinReconciliation
  BY <1>1, <1>2, <1>10 DEF FinReconciliation, EtatFaucheur
<1>11. CASE ExceptionFaucheur \/ CrashFaucheur
  BY <1>2, <1>11 DEF ExceptionFaucheur, CrashFaucheur
<1>12. QED
  BY <1>3a, <1>4, <1>5, <1>6, <1>7, <1>8, <1>9, <1>10, <1>11 DEF ProcessusFaucheur, EtapeFaucheur

LEMMA FaucheurOuverte ==
  ASSUME IInv, RepriseOuverte, ProcessusFaucheur
  PROVE  RepriseOuverte'
<1>1. instances \in [Ids -> Instance] /\ faucheur \in EtatFaucheur
  BY DEF IInv, TypeOK, DatabaseTypeOK, FaucheurTypeOK
<1>2. CASE faucheur'.etape \notin {"replier", "recreer", "deplacer", "renoncer"}
  BY <1>2 DEF RepriseOuverte
<1>3. ASSUME NEW n \in Noeuds, ReprendreWorker(n) PROVE RepriseOuverte'
  BY <1>1, <1>3
  DEF ReprendreWorker, ActivesSur, EnCours, RepriseOuverte, A, EtatFaucheur, databaseVars
<1>4. ASSUME NEW i \in Ids, ChoisirRepli(i) PROVE RepriseOuverte'
  <2>1. /\ faucheur'.liste = faucheur.liste /\ faucheur'.inst \in faucheur.liste
        /\ instances' = instances /\ faucheur.etape = "replier"
    BY <1>1, <1>4 DEF ChoisirRepli, A, EtatFaucheur, databaseVars
  <2>2. QED BY <2>1 DEF RepriseOuverte
<1>5. CASE Recreer \/ RecreerEchoue \/ (LireAvantEcrire /\ ~A("marquer"))
  <2>1. /\ faucheur'.liste = faucheur.liste /\ faucheur'.inst = faucheur.inst
        /\ instances' = instances
        /\ faucheur.etape \in {"recreer", "deplacer", "renoncer"}
    BY <1>1, <1>5
    DEF Recreer, RecreerEchoue, LireAvantEcrire, A, EtatFaucheur, databaseVars
  <2>2. QED BY <2>1 DEF RepriseOuverte
<1>6. CASE Deplacer \/ Renoncer
  <2>1. /\ faucheur'.liste = faucheur.liste \ {faucheur.inst} /\ faucheur'.etape = "replier"
        /\ faucheur.etape \in {"deplacer", "renoncer"}
    BY <1>1, <1>6 DEF Deplacer, Renoncer, InstanceSuivante, A, EtatFaucheur
  <2>2. \A i \in Ids \ {faucheur.inst} : instances'[i] = instances[i]
    BY <1>1, <1>6 DEF Deplacer, Renoncer, MoveInstance, SetInstanceStatus
  <2>3. faucheur.liste \subseteq Ids
    BY <1>1 DEF EtatFaucheur
  <2>4. QED BY <2>1, <2>2, <2>3 DEF RepriseOuverte
<1>7. QED BY <1>2, <1>3, <1>4, <1>5, <1>6, HorsReprise

LEMMA RepriseOuverteNext ==
  ASSUME IInv, RepriseOuverte, [Next]_vars
  PROVE  RepriseOuverte'
<1>1. ASSUME NEW p \in WebProcs, ProcessusWeb(p) PROVE RepriseOuverte'
  <2>1. \A i \in faucheur.liste : i \in Ids /\ instances[i].status # "libre"
    BY DEF IInv, Forme, FormeFaucheur, Ouverte
  <2>2. faucheur' = faucheur
    BY <1>1 DEF ProcessusWeb
  <2>3. QED BY <1>1, <2>1, <2>2, WebStatuts DEF RepriseOuverte
<1>2. CASE UNCHANGED <<faucheur, instances>>
  BY <1>2 DEF RepriseOuverte
<1>3. CASE Serveur \/ Environnement \/ UNCHANGED vars
  <2>1. UNCHANGED <<faucheur, instances>>
    BY <1>3 DEF Serveur, DemarrerServeur, ArretServeur, Environnement, BattementAgent, Battre,
                SilenceAgent, Vieillir, PasserLeTemps, Tic, Exploitation, databaseVars, vars
  <2>2. QED BY <1>2, <2>1
<1>4. QED BY <1>1, <1>3, FaucheurOuverte DEF Next

LEMMA NextInv ==
  ASSUME IInv, RepriseOuverte, [Next]_vars
  PROVE  IInv'
  BY ProcessusWebInv, ServeurInv, ProcessusFaucheurInv, EnvironnementInv, BegaiementInv
  DEF Next

-----------------------------------------------------------------------------
(***************************************************************************)
(* The invariant holds of every instance of the platform, with or without  *)
(* recovery, whatever the numbers of processes, nodes, rows and faults.    *)
(***************************************************************************)
THEOREM Invariance == Spec => []IInv
<1>1. Init => IInv /\ RepriseOuverte
  BY InitIInv DEF IInvSansReprise, Init, FaucheurInit, EnAttente, RepriseOuverte
<1>2. IInv /\ RepriseOuverte /\ [Next]_vars => (IInv /\ RepriseOuverte)'
  BY NextInv, RepriseOuverteNext
<1>3. QED BY <1>1, <1>2, PTL DEF Spec

(* Type correctness: every step of requests, Faucheur, agents and daemons  *)
(* leaves every variable in its set.                                       *)
THEOREM Typage == Spec => []TypeOK
<1>1. IInv => TypeOK
  BY DEF IInv
<1>2. QED BY <1>1, Invariance, PTL

(* The docker commands about a row go to the daemon that hosts its         *)
(* container, even after any number of recoveries (move_instance).         *)
THEOREM CommandesBienAdressees == Spec => []ReferenceExacte
<1>1. IInv => ReferenceExacte
  BY DEF IInv, Reference
<1>2. QED BY <1>1, Invariance, PTL

(* No container has two holders, whatever the interleaving of the rentals, *)
(* of their clean-ups and of the recoveries.                               *)
THEOREM DetenteurUnique == Spec => []UnSeulDetenteur
<1>1. IInv => UnSeulDetenteur
  BY DEF IInv
<1>2. QED BY <1>1, Invariance, PTL

(* A rental is marked expired only once its machine is gone, and the       *)
(* machine does not come back (reap_expired).                              *)
THEOREM ExpirationSure == Spec => []ExpireeDoncDetruite
<1>1. IInv => ExpireeDoncDetruite
  BY DEF IInv, Expiration
<1>2. QED BY <1>1, Invariance, PTL

-----------------------------------------------------------------------------
(***************************************************************************)
(* The purge.  Where every node that agents or rows start from is in the   *)
(* configuration, so is every node that a row, a request or the Faucheur   *)
(* ever names, and a daemon hosts the containers of its own rows only.     *)
(***************************************************************************)
Declares == Agents \cup Enregistres \subseteq WORKERS

ParcDeclare == \A n \in Noeuds : parc[n].status # "inconnu" => n \in WORKERS

LignesDeclarees == \A i \in Ids : instances[i].worker \in WORKERS \cup {Rien}

RequetesDeclarees == \A p \in WebProcs : requetes[p].noeud \in WORKERS \cup {Rien}

FaucheurDeclare ==
  /\ faucheur.repli \in WORKERS \cup {Rien}
  /\ faucheur.etape \in {"ps", "purger"} => faucheur.noeuds \subseteq WORKERS

ListeEpargnee ==
  A("purger") => \A i \in faucheur.liste : instances[i].cid \notin faucheur.orphelins

IInvPurge ==
  /\ ParcDeclare /\ LignesDeclarees /\ RequetesDeclarees /\ FaucheurDeclare
  /\ ListeEpargnee

(* The rows of workers.                                                    *)
LEMMA BattreParc ==
  ASSUME IInv, ParcDeclare, NEW n \in WORKERS, Battre(n) \/ InsererWorker(n)
  PROVE  ParcDeclare'
  BY DEF Battre, InsererWorker, ParcDeclare, IInv, TypeOK, DatabaseTypeOK

LEMMA ParcNext ==
  ASSUME IInv, IInvPurge, Declares, [Next]_vars
  PROVE  ParcDeclare'
<1>1. ParcDeclare
  BY DEF IInvPurge
<1>2. CASE UNCHANGED parc
  BY <1>1, <1>2 DEF ParcDeclare
<1>3. WORKERS = {LOCAL_WORKER} => LOCAL_WORKER \in WORKERS
  OBVIOUS
<1>4. ASSUME NEW p \in WebProcs, DeclarerWorker(p), InsererWorker(requetes[p].noeud)
      PROVE  ParcDeclare'
  <2>1. requetes[p].noeud \in Noeuds
    BY <1>4 DEF DeclarerWorker, IInv, Forme, FormeRequetes
  <2>2. requetes[p].noeud \in WORKERS
    BY <2>1, RienAssumption DEF IInvPurge, RequetesDeclarees
  <2>3. QED BY <1>1, <1>4, <2>2, BattreParc
<1>5. CASE Surveiller
  BY <1>1, <1>5 DEF Surveiller, MarkStaleWorkersOffline, EstMuet, ParcDeclare
<1>6. ASSUME NEW n \in Noeuds, SilenceAgent(n) PROVE ParcDeclare'
  BY <1>1, <1>6 DEF SilenceAgent, Vieillir, ParcDeclare, IInv, TypeOK, DatabaseTypeOK, Worker
<1>7. ASSUME NEW n \in Noeuds, BattementAgent(n) PROVE ParcDeclare'
  BY <1>1, <1>7, BattreParc DEF BattementAgent, Declares
<1>8. CASE BattreLocal \/ DemarrerServeur
  BY <1>1, <1>2, <1>3, <1>8, BattreParc DEF BattreLocal, DemarrerServeur, databaseVars
<1>9. ASSUME NEW p \in WebProcs, ProcessusWeb(p) PROVE ParcDeclare'
  BY <1>2, <1>4, <1>9
  DEF ProcessusWeb, DebutRequete, DebutLouer, DebutArreter, DebutProlonger, EtapeWeb,
      ChoisirWorker, LancerReussi, LancerEchoue, Enregistrer, CreateInstance,
      ChercherWorker, DeclarerWorker, EnregistrerEchoue, Nettoyer, Detruire,
      LireAvantClore, Clore, SetInstanceStatus, LireLocation, EcrireLocation, EcrireFin,
      ExceptionRequete, MortWeb, databaseVars
<1>10. CASE ProcessusFaucheur
  BY <1>2, <1>5, <1>8, <1>10
  DEF ProcessusFaucheur, EtapeFaucheur, DebutCycle, LireAvantEcrire, Marquer, FinFauche,
      Recreer, RecreerEchoue, Deplacer, MoveInstance, Renoncer, SetInstanceStatus, FinReprise,
      ListerActives, FinReconciliation, Faucher, FaucherEchoue, ChoisirRepli,
      LireDisparu, Constater, ReprendreWorker, Ps, PsEchoue, Purger, ExceptionFaucheur,
      CrashFaucheur, databaseVars
<1>11. QED
  BY <1>2, <1>6, <1>7, <1>8, <1>9, <1>10
  DEF Next, Serveur, ArretServeur, Environnement, PasserLeTemps, Tic, Exploitation,
      vars, databaseVars

(* The nodes that are chosen.                                              *)
LEMMA MoinsChargesParmi == ASSUME NEW S PROVE MoinsCharges(S) \subseteq S
  BY DEF MoinsCharges

LEMMA ChoixDeclare ==
  ASSUME ParcDeclare
  PROVE  /\ ChoixWorker \subseteq WORKERS
         /\ SelectAvailableWorker({}) \subseteq WORKERS
<1>1. Disponibles \subseteq WORKERS
  BY DEF Disponibles, EstJoignable, ParcDeclare
<1>2. ASSUME NEW prefer PROVE SelectAvailableWorker(prefer) \subseteq WORKERS
  <2>1. SelectAvailableWorker(prefer) \subseteq Disponibles
    BY MoinsChargesParmi DEF SelectAvailableWorker
  <2>2. QED BY <1>1, <2>1
<1>3. ChoixWorker \subseteq WORKERS
  BY <1>2, MoinsChargesParmi DEF ChoixWorker
<1>4. QED BY <1>2, <1>3

(* The requests.                                                           *)
LEMMA PasserDeclare ==
  ASSUME IInv, RequetesDeclarees, NEW p \in WebProcs, NEW req, Passer(p, req),
         req.noeud \in WORKERS \cup {Rien}
  PROVE  RequetesDeclarees'
  BY DEF Passer, RequetesDeclarees, IInv, TypeOK, ServicesTypeOK

LEMMA RequetesNext ==
  ASSUME IInv, IInvPurge, NEW p \in WebProcs, ProcessusWeb(p)
  PROVE  RequetesDeclarees'
<1>1. /\ RequetesDeclarees /\ LignesDeclarees /\ ParcDeclare
      /\ requetes[p] \in Requete /\ requetes[p].noeud \in WORKERS \cup {Rien}
  BY DEF IInvPurge, RequetesDeclarees, IInv, TypeOK, ServicesTypeOK
<1>2. CASE Passer(p, Repos)
  BY <1>1, <1>2, PasserDeclare DEF Repos
<1>3. ASSUME NEW u, NEW d, DebutLouer(p, u, d) PROVE RequetesDeclarees'
  <2>1. PICK req : req = [Repos EXCEPT !.etape = "choisir", !.user = u, !.duree = d]
    OBVIOUS
  <2>2. req.noeud = Rien /\ Passer(p, req)
    BY <1>3, <2>1 DEF DebutLouer, Repos
  <2>3. QED BY <1>1, <2>2, PasserDeclare
<1>4. ASSUME NEW i \in Ids, DebutArreter(p, i) PROVE RequetesDeclarees'
  <2>1. PICK req : req = [Repos EXCEPT !.etape = "detruire", !.inst = i,
                                       !.cid = instances[i].cid, !.noeud = instances[i].worker]
    OBVIOUS
  <2>2. req.noeud = instances[i].worker /\ Passer(p, req)
    BY <1>4, <2>1 DEF DebutArreter, Repos
  <2>3. QED BY <1>1, <2>2, PasserDeclare DEF LignesDeclarees
<1>5. ASSUME NEW i \in Ids, NEW d \in Durees, DebutProlonger(p, i, d)
      PROVE  RequetesDeclarees'
  <2>1. PICK req : req = [Repos EXCEPT !.etape = "prolonger", !.inst = i, !.duree = d]
    OBVIOUS
  <2>2. req.noeud = Rien /\ Passer(p, req)
    BY <1>5, <2>1 DEF DebutProlonger, Repos
  <2>3. QED BY <1>1, <2>2, PasserDeclare
<1>6. CASE ChoisirWorker(p)
  <2>1. PICK n \in ChoixWorker :
          Passer(p, [requetes[p] EXCEPT !.etape = "lancer", !.noeud = n])
    BY <1>6 DEF ChoisirWorker
  <2>2. [requetes[p] EXCEPT !.etape = "lancer", !.noeud = n].noeud = n /\ n \in WORKERS
    BY <1>1, ChoixDeclare DEF Requete
  <2>3. QED BY <1>1, <2>1, <2>2, PasserDeclare
<1>7. CASE LancerReussi(p)
  <2>1. PICK c : Passer(p, [requetes[p] EXCEPT !.etape = "enregistrer", !.cid = c])
    BY <1>7 DEF LancerReussi
  <2>2. [requetes[p] EXCEPT !.etape = "enregistrer", !.cid = c].noeud = requetes[p].noeud
    BY <1>1 DEF Requete
  <2>3. QED BY <1>1, <2>1, <2>2, PasserDeclare
<1>8. ASSUME NEW etape, Passer(p, [requetes[p] EXCEPT !.etape = etape])
      PROVE  RequetesDeclarees'
  <2>1. [requetes[p] EXCEPT !.etape = etape].noeud = requetes[p].noeud
    BY <1>1 DEF Requete
  <2>2. QED BY <1>1, <1>8, <2>1, PasserDeclare
<1>9. CASE LireLocation(p)
  <2>1. PICK fin : \/ Passer(p, Repos)
                   \/ Passer(p, [requetes[p] EXCEPT !.etape = "ecrire", !.fin = fin])
    BY <1>9 DEF LireLocation, Finir
  <2>2. [requetes[p] EXCEPT !.etape = "ecrire", !.fin = fin].noeud = requetes[p].noeud
    BY <1>1 DEF Requete
  <2>3. QED BY <1>1, <1>2, <2>1, <2>2, PasserDeclare
<1>9a. CASE LireAvantClore(p)
  <2>1. PICK vu : Passer(p, [requetes[p] EXCEPT !.vu = vu])
    BY <1>9a DEF LireAvantClore
  <2>2. [requetes[p] EXCEPT !.vu = vu].noeud = requetes[p].noeud
    BY <1>1 DEF Requete
  <2>3. QED BY <1>1, <2>1, <2>2, PasserDeclare
<1>10. CASE ChercherWorker(p) \/ DeclarerWorker(p) \/ EnregistrerEchoue(p) \/ Detruire(p)
  BY <1>2, <1>8, <1>10 DEF ChercherWorker, DeclarerWorker, EnregistrerEchoue, Detruire, Finir
<1>11. QED
  BY <1>2, <1>3, <1>4, <1>5, <1>6, <1>7, <1>9, <1>9a, <1>10
  DEF ProcessusWeb, DebutRequete, EtapeWeb, LancerEchoue, Enregistrer, Nettoyer, Clore,
      EcrireLocation, ExceptionRequete, MortWeb, Finir

(* The rows: a new one, a moved one, or the node of before.                *)
LEMMA MemesWorkers ==
  ASSUME IInv, LignesDeclarees,
         \A i \in Ids : instances'[i].worker = instances[i].worker
  PROVE  LignesDeclarees'
  BY DEF LignesDeclarees

LEMMA StatutWorkers ==
  ASSUME IInv, NEW i, NEW vu, NEW s, SetInstanceStatus(i, vu, s)
  PROVE  \A j \in Ids : /\ instances'[j].worker = instances[j].worker
                        /\ instances'[j].cid = instances[j].cid
<1>1. instances \in [Ids -> Instance]
  BY DEF IInv, TypeOK, DatabaseTypeOK
<1>2. ASSUME NEW j \in Ids
      PROVE  /\ instances'[j].worker = instances[j].worker
             /\ instances'[j].cid = instances[j].cid
  <2>1. CASE i = j
    BY <1>1, <2>1 DEF SetInstanceStatus, Instance
  <2>2. CASE i # j
    BY <1>1, <2>2 DEF SetInstanceStatus
  <2>3. QED BY <2>1, <2>2
<1>3. QED BY <1>2

(* What a request does to the rows that are already open.                  *)
LEMMA WebLignes ==
  ASSUME IInv, IInvPurge, NEW p \in WebProcs, ProcessusWeb(p)
  PROVE  /\ LignesDeclarees'
         /\ \A i \in Ids : Ouverte(i) => instances'[i].cid = instances[i].cid
<1>1. LignesDeclarees
  BY DEF IInvPurge
<1>2. CASE Enregistrer(p)
  <2>1. PICK i \in Ids : CreateInstance(i, requetes[p].user, requetes[p].cid,
                                        requetes[p].noeud, requetes[p].duree)
    BY <1>2 DEF Enregistrer
  <2>2. /\ instances'[i].worker = requetes[p].noeud
        /\ \A j \in Ids \ {i} : instances'[j] = instances[j]
        /\ ~Ouverte(i)
    BY <2>1 DEF CreateInstance, EstNouvelId, Ouverte, IInv, TypeOK, DatabaseTypeOK
  <2>3. requetes[p].noeud \in WORKERS \cup {Rien}
    BY DEF IInvPurge, RequetesDeclarees
  <2>4. QED BY <1>1, <2>2, <2>3 DEF LignesDeclarees
<1>3. CASE Clore(p)
  BY <1>1, <1>3, StatutWorkers, MemesWorkers DEF Clore
<1>4. CASE EcrireLocation(p)
  <2>1. \A i \in Ids : /\ instances'[i].worker = instances[i].worker
                       /\ instances'[i].cid = instances[i].cid
    BY <1>4 DEF EcrireLocation, EcrireFin, IInv, TypeOK, DatabaseTypeOK, Instance
  <2>2. QED BY <1>1, <2>1, MemesWorkers
<1>5. CASE UNCHANGED instances
  BY <1>1, <1>5, MemesWorkers
<1>6. QED
  BY <1>2, <1>3, <1>4, <1>5
  DEF ProcessusWeb, DebutRequete, DebutLouer, DebutArreter, DebutProlonger, EtapeWeb,
      ChoisirWorker, LancerReussi, LancerEchoue, ChercherWorker, DeclarerWorker,
      InsererWorker, EnregistrerEchoue, Nettoyer, Detruire, LireAvantClore, LireLocation,
      ExceptionRequete, MortWeb, databaseVars

(* What the Faucheur does to the rows.                                     *)
LEMMA FaucheurWorkers ==
  ASSUME IInv, IInvPurge, ProcessusFaucheur
  PROVE  /\ LignesDeclarees'
         /\ A("purger") => \A i \in Ids : instances'[i].cid = instances[i].cid
<1>1. LignesDeclarees
  BY DEF IInvPurge
<1>2. CASE Deplacer
  <2>1. /\ MoveInstance(faucheur.inst, faucheur.vu, faucheur.cid, faucheur.repli)
        /\ faucheur.inst \in Ids
        /\ ~A("purger")
    BY <1>2 DEF Deplacer, A, IInv, Forme, FormeFaucheur, Ouverte
  <2>2. \A j \in Ids : \/ instances'[j].worker = instances[j].worker
                       \/ instances'[j].worker = faucheur.repli
    BY <2>1 DEF MoveInstance, IInv, TypeOK, DatabaseTypeOK, Instance
  <2>3. faucheur.repli \in WORKERS \cup {Rien}
    BY DEF IInvPurge, FaucheurDeclare
  <2>4. QED BY <1>1, <2>1, <2>2, <2>3 DEF LignesDeclarees
<1>3. CASE Marquer \/ Renoncer
  BY <1>1, <1>3, StatutWorkers, MemesWorkers DEF Marquer, Renoncer
<1>4. ASSUME NEW i \in Ids, Constater(i)
      PROVE  /\ LignesDeclarees'
             /\ \A j \in Ids : instances'[j].cid = instances[j].cid
  BY <1>1, <1>4, StatutWorkers, MemesWorkers DEF Constater
<1>5. CASE UNCHANGED instances
  BY <1>1, <1>5, MemesWorkers
<1>6. QED
  BY <1>2, <1>3, <1>4, <1>5
  DEF ProcessusFaucheur, EtapeFaucheur, DebutCycle, LireAvantEcrire, FinFauche, BattreLocal,
      Battre, Surveiller, MarkStaleWorkersOffline, Recreer, RecreerEchoue, FinReprise,
      ListerActives, FinReconciliation, Faucher, FaucherEchoue, ChoisirRepli, LireDisparu,
      ReprendreWorker, Ps, PsEchoue, Purger, ExceptionFaucheur, CrashFaucheur,
      databaseVars

(* A row of the list is not among the orphans of the node that has         *)
(* answered: its container is on another daemon, or was taken off.         *)
LEMMA PsEpargne ==
  ASSUME IInv, IInvPurge, NEW n \in Noeuds, Ps(n)
  PROVE  FaucheurDeclare' /\ ListeEpargnee'
<1>1. faucheur \in EtatFaucheur /\ n \in WORKERS
  BY DEF Ps, A, IInv, TypeOK, FaucheurTypeOK, IInvPurge, FaucheurDeclare
<1>2. /\ faucheur'.repli = faucheur.repli
      /\ faucheur'.noeuds = faucheur.noeuds \ {n}
      /\ faucheur'.liste = faucheur.liste
      /\ faucheur'.orphelins = Orphelins(n)
      /\ UNCHANGED instances
  BY <1>1 DEF Ps, EtatFaucheur, databaseVars
<1>3. FaucheurDeclare'
  BY <1>2 DEF FaucheurDeclare, IInvPurge, Ps, A
<1>4. ASSUME NEW i \in faucheur.liste PROVE instances[i].cid \notin Orphelins(n)
  <2>1. /\ i \in Ids /\ instances[i].worker \in Noeuds
        /\ conteneurs[instances[i].cid].noeud = Demon(instances[i].worker)
    BY DEF IInv, Forme, FormeFaucheur, FormeLignes, Reference, ReferenceExacte, Ouverte
  <2>2. instances[i].worker \in WORKERS
    BY <2>1, RienAssumption DEF IInvPurge, LignesDeclarees
  <2>3. CASE instances[i].worker = n
    BY <2>3 DEF Orphelins, ListeDe
  <2>4. CASE instances[i].worker # n
    BY <1>1, <2>1, <2>2, <2>4 DEF Orphelins, PresentsSur, Demon
  <2>5. QED BY <2>3, <2>4
<1>5. QED BY <1>2, <1>3, <1>4 DEF ListeEpargnee

(* The other steps of the Faucheur.                                        *)
LEMMA EnAttenteEpargne ==
  ASSUME NEW k, faucheur' = EnAttente(k)
  PROVE  FaucheurDeclare' /\ ListeEpargnee'
  BY DEF EnAttente, FaucheurDeclare, ListeEpargnee, A

LEMMA FaucheurEpargne ==
  ASSUME IInv, IInvPurge, ProcessusFaucheur
  PROVE  FaucheurDeclare' /\ ListeEpargnee'
<1>1. /\ faucheur \in EtatFaucheur /\ FaucheurDeclare /\ ListeEpargnee
      /\ \A i \in faucheur.liste : i \in Ids
  BY DEF IInv, TypeOK, FaucheurTypeOK, IInvPurge, Forme, FormeFaucheur, Ouverte
<1>2. A("purger") => \A i \in Ids : instances'[i].cid = instances[i].cid
  BY FaucheurWorkers
<1> DEFINE Objectif == FaucheurDeclare' /\ ListeEpargnee'
<1>3. CASE ApresSurveillance
  <2>1. faucheur'.repli = Rien /\ faucheur'.etape \in {"attente", "lister"}
    BY <1>3 DEF ApresSurveillance, EnAttente
  <2>2. QED BY <2>1 DEF FaucheurDeclare, ListeEpargnee, A
<1>4. ASSUME faucheur'.repli = faucheur.repli, faucheur'.etape \notin {"ps", "purger"}
      PROVE  Objectif
  BY <1>1, <1>4 DEF FaucheurDeclare, ListeEpargnee, A
<1>5. CASE DebutCycle \/ LireAvantEcrire \/ Marquer \/ FinFauche \/ BattreLocal
  BY <1>1, <1>4, <1>5
  DEF DebutCycle, LireAvantEcrire, Marquer, FinFauche, BattreLocal, Aller, EtatFaucheur
<1>6. CASE Surveiller
  BY <1>1, <1>3, <1>4, <1>6 DEF Surveiller, EtatFaucheur
<1>7. ASSUME NEW i \in Ids, Faucher(i) \/ FaucherEchoue(i) PROVE Objectif
  BY <1>1, <1>4, <1>7 DEF Faucher, FaucherEchoue, EtatFaucheur, A
<1>8. ASSUME NEW n \in Noeuds, ReprendreWorker(n) PROVE Objectif
  BY <1>1, <1>4, <1>8 DEF ReprendreWorker, EtatFaucheur, A
<1>9. ASSUME NEW i \in Ids, ChoisirRepli(i) PROVE Objectif
  <2>1. SelectAvailableWorker({}) \subseteq WORKERS
    BY ChoixDeclare DEF IInvPurge
  <2>2. /\ faucheur'.repli \in WORKERS \cup {Rien}
        /\ faucheur'.etape \in {"renoncer", "recreer"}
    BY <1>1, <1>9, <2>1 DEF ChoisirRepli, EtatFaucheur, FaucheurDeclare
  <2>3. QED BY <2>2 DEF FaucheurDeclare, ListeEpargnee, A
<1>10. CASE Recreer
  BY <1>1, <1>4, <1>10 DEF Recreer, EtatFaucheur
<1>11. CASE RecreerEchoue \/ Deplacer \/ Renoncer
  <2>1. faucheur'.repli = Rien /\ faucheur'.etape \in {"renoncer", "replier"}
    BY <1>1, <1>11
    DEF RecreerEchoue, Deplacer, Renoncer, InstanceSuivante, EtatFaucheur
  <2>2. QED BY <2>1 DEF FaucheurDeclare, ListeEpargnee, A
<1>12. CASE FinReprise
  BY <1>1, <1>3, <1>4, <1>12 DEF FinReprise, EtatFaucheur
<1>13. CASE ListerActives
  <2>1. /\ faucheur'.repli = faucheur.repli /\ faucheur'.etape = "ps"
        /\ faucheur'.noeuds = WORKERS
    BY <1>1, <1>13 DEF ListerActives, EtatFaucheur
  <2>2. QED BY <1>1, <2>1 DEF FaucheurDeclare, ListeEpargnee, A
<1>14. ASSUME NEW n \in Noeuds, PsEchoue(n) PROVE Objectif
  <2>1. /\ faucheur'.repli = faucheur.repli /\ faucheur'.etape = "ps"
        /\ faucheur'.noeuds \subseteq faucheur.noeuds /\ A("ps")
    BY <1>1, <1>14 DEF PsEchoue, EtatFaucheur, A
  <2>2. QED BY <1>1, <2>1 DEF FaucheurDeclare, ListeEpargnee, A
<1>15. ASSUME NEW c \in Conteneurs, Purger(c) PROVE Objectif
  <2>1. /\ faucheur'.repli = faucheur.repli /\ A("purger")
        /\ faucheur'.noeuds = faucheur.noeuds
        /\ faucheur'.liste = faucheur.liste
        /\ faucheur'.orphelins \subseteq faucheur.orphelins
    BY <1>1, <1>15 DEF Purger, EtatFaucheur
  <2>2. QED BY <1>1, <1>2, <2>1 DEF FaucheurDeclare, ListeEpargnee, A
<1>16. ASSUME NEW i \in Ids, LireDisparu(i) \/ Constater(i) PROVE Objectif
  <2>1. /\ faucheur'.repli = faucheur.repli /\ A("purger")
        /\ faucheur'.noeuds = faucheur.noeuds
        /\ faucheur'.liste = faucheur.liste
        /\ faucheur'.orphelins = faucheur.orphelins
    BY <1>1, <1>16 DEF LireDisparu, Constater, EtatFaucheur
  <2>2. QED BY <1>1, <1>2, <2>1 DEF FaucheurDeclare, ListeEpargnee, A
<1>17. CASE FinReconciliation
  <2>1. \/ faucheur' = EnAttente(faucheur.cycle)
        \/ /\ faucheur'.repli = faucheur.repli /\ A("purger") /\ faucheur'.etape = "ps"
           /\ faucheur'.noeuds = faucheur.noeuds
    BY <1>1, <1>17 DEF FinReconciliation, EtatFaucheur
  <2>2. QED
    BY <1>1, <2>1, EnAttenteEpargne DEF FaucheurDeclare, ListeEpargnee, A
<1>18. CASE ExceptionFaucheur \/ CrashFaucheur
  BY <1>18, EnAttenteEpargne DEF ExceptionFaucheur, CrashFaucheur
<1>19. QED
  BY <1>5, <1>6, <1>7, <1>8, <1>9, <1>10, <1>11, <1>12, <1>13, <1>14, <1>15, <1>16,
     <1>17, <1>18, PsEpargne
  DEF ProcessusFaucheur, EtapeFaucheur

LEMMA PurgeNext ==
  ASSUME IInv, IInvPurge, Declares, [Next]_vars
  PROVE  IInvPurge'
<1>1. ParcDeclare'
  BY ParcNext
<1>2. /\ LignesDeclarees /\ RequetesDeclarees /\ FaucheurDeclare /\ ListeEpargnee
      /\ \A i \in faucheur.liste : i \in Ids /\ Ouverte(i)
  BY DEF IInvPurge, IInv, Forme, FormeFaucheur, Ouverte
<1>3. ASSUME UNCHANGED faucheur, \A i \in Ids : Ouverte(i) => instances'[i].cid = instances[i].cid
      PROVE  FaucheurDeclare' /\ ListeEpargnee'
  BY <1>2, <1>3 DEF FaucheurDeclare, ListeEpargnee, A
<1>4. ASSUME NEW p \in WebProcs, ProcessusWeb(p) PROVE IInvPurge'
  <2>1. UNCHANGED faucheur
    BY <1>4 DEF ProcessusWeb
  <2>2. QED BY <1>1, <1>3, <1>4, <2>1, WebLignes, RequetesNext DEF IInvPurge
<1>5. CASE ProcessusFaucheur
  <2>1. RequetesDeclarees'
    BY <1>2, <1>5 DEF RequetesDeclarees, ProcessusFaucheur, EtapeFaucheur, DebutCycle,
         LireAvantEcrire, Marquer, FinFauche, BattreLocal, Surveiller, Recreer, RecreerEchoue, Deplacer, Renoncer,
         FinReprise, ListerActives, FinReconciliation, Faucher, FaucherEchoue,
         ChoisirRepli, LireDisparu, Constater, ReprendreWorker, Ps, PsEchoue, Purger,
         ExceptionFaucheur, CrashFaucheur
  <2>2. QED BY <1>1, <1>5, <2>1, FaucheurWorkers, FaucheurEpargne DEF IInvPurge
<1>6. CASE Environnement \/ UNCHANGED vars
  <2>1. UNCHANGED <<instances, requetes, faucheur>>
    BY <1>6 DEF Environnement, BattementAgent, Battre, SilenceAgent, Vieillir,
                PasserLeTemps, Tic, Exploitation, databaseVars, vars
  <2>2. LignesDeclarees' /\ RequetesDeclarees'
    BY <1>2, <2>1 DEF LignesDeclarees, RequetesDeclarees
  <2>3. QED BY <1>1, <1>3, <2>1, <2>2 DEF IInvPurge
<1>7. CASE Serveur
  <2>1. UNCHANGED <<instances, faucheur>>
    BY <1>7 DEF Serveur, DemarrerServeur, ArretServeur, Battre, databaseVars
  <2>2. RequetesDeclarees'
    BY <1>7 DEF Serveur, DemarrerServeur, ArretServeur, RequetesDeclarees, Repos, Eteint
  <2>3. LignesDeclarees'
    BY <1>2, <2>1 DEF LignesDeclarees
  <2>4. QED BY <1>1, <1>3, <2>1, <2>2, <2>3 DEF IInvPurge
<1>8. QED BY <1>4, <1>5, <1>6, <1>7 DEF Next

(* reconcile never purges a container of a row of its snapshot, even when  *)
(* recoveries, requests and late heartbeats go on between the query and    *)
(* the purge.                                                              *)
THEOREM PurgeSure == Spec => []PurgeEpargneLesConnues
<1>1. Init => (Declares => IInvPurge)
  BY DEF Init, DatabaseInit, ServicesInit, FaucheurInit, LigneLibre, Eteint, Repos,
         EnAttente, Declares, IInvPurge, ParcDeclare, LignesDeclarees,
         RequetesDeclarees, FaucheurDeclare, ListeEpargnee, A
<1>2. IInv /\ (Declares => IInvPurge) /\ [Next]_vars => (Declares => IInvPurge)'
  BY PurgeNext DEF Declares
<1>3. (Declares => IInvPurge) => PurgeEpargneLesConnues
  BY DEF Declares, IInvPurge, ListeEpargnee, PurgeEpargneLesConnues
<1>4. QED BY <1>1, <1>2, <1>3, Invariance, PTL DEF Spec
=============================================================================
