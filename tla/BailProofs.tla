----------------------------- MODULE BailProofs -----------------------------
(***************************************************************************)
(* What is true of InsaCloud when the recovery of failed workers is        *)
(* switched off: a closed rental has no machine, an instance runs exactly  *)
(* as long as its rental is ACTIVE, and the quota has a known margin.      *)
(***************************************************************************)
EXTENDS InsaCloudProofs, FiniteSetTheorems

(***************************************************************************)
(* Every step only wears the containers out.                               *)
(***************************************************************************)
LEMMA RmUsure ==
  ASSUME DockerTypeOK, NEW c \in Conteneurs, NEW n, RmReussi(c, n) \/ RmEchoue(c, n)
  PROVE  Usure
  BY RmEffet

LEMMA WebUsure ==
  ASSUME IInv, NEW p \in WebProcs, ProcessusWeb(p)
  PROVE  Usure
<1>1. DockerTypeOK
  BY DEF IInv, TypeOK
<1>2. CASE UNCHANGED conteneurs
  BY <1>2, StableUsure
<1>3. CASE LancerReussi(p) \/ LancerEchoue(p)
  BY <1>1, <1>3, RunEffet, RefusEffet DEF LancerReussi, LancerEchoue
<1>4. CASE Nettoyer(p) \/ Detruire(p)
  BY <1>1, <1>4, RmUsure DEF Nettoyer, Detruire, IInv, Forme, FormeRequetes
<1>5. QED
  BY <1>2, <1>3, <1>4
  DEF ProcessusWeb, DebutRequete, DebutLouer, DebutArreter, DebutProlonger, EtapeWeb,
      ChoisirWorker, Enregistrer, ChercherWorker, DeclarerWorker, EnregistrerEchoue,
      LireAvantClore, Clore, LireLocation, EcrireLocation, ExceptionRequete, MortWeb,
      dockerVars

LEMMA FaucheurUsure ==
  ASSUME IInv, ProcessusFaucheur
  PROVE  Usure
<1>1. DockerTypeOK
  BY DEF IInv, TypeOK
<1>2. CASE UNCHANGED conteneurs
  BY <1>2, StableUsure
<1>3. CASE Recreer \/ RecreerEchoue
  <2>1. instances[faucheur.inst].nom \in Conteneurs
    BY <1>3 DEF Recreer, RecreerEchoue, A, Ouverte, IInv, Forme, FormeFaucheur, FormeLignes
  <2>2. QED BY <1>1, <1>3, <2>1, RunEffet, RefusEffet DEF Recreer, RecreerEchoue
<1>4. ASSUME NEW i \in Ids, Faucher(i) \/ FaucherEchoue(i) PROVE Usure
  <2>1. instances[i].cid \in Conteneurs
    BY <1>4 DEF Faucher, FaucherEchoue, Ouverte, IInv, Forme, FormeFaucheur, FormeLignes
  <2>2. QED BY <1>1, <1>4, <2>1, RmUsure DEF Faucher, FaucherEchoue
<1>5. ASSUME NEW c \in Conteneurs, Purger(c) PROVE Usure
  BY <1>1, <1>5, RmUsure DEF Purger
<1>6. QED
  BY <1>2, <1>3, <1>4, <1>5
  DEF ProcessusFaucheur, EtapeFaucheur, DebutCycle, LireAvantEcrire, Marquer, FinFauche,
      BattreLocal, Surveiller, Deplacer, Renoncer, FinReprise, ListerActives,
      FinReconciliation, ChoisirRepli, LireDisparu, Constater, ReprendreWorker, Ps, PsEchoue, ExceptionFaucheur,
      CrashFaucheur, dockerVars

LEMMA EnvironnementUsure ==
  ASSUME IInv, Environnement
  PROVE  Usure
<1>1. DockerTypeOK
  BY DEF IInv, TypeOK
<1>2. CASE UNCHANGED conteneurs
  BY <1>2, StableUsure
<1>3. ASSUME NEW c \in Conteneurs, SuppressionAdmin(c) PROVE Usure
  BY <1>1, <1>3 DEF SuppressionAdmin, DockerTypeOK, Conteneur, Present, Usure
<1>4. QED
  BY <1>2, <1>3
  DEF Environnement, BattementAgent, SilenceAgent, PasserLeTemps, Exploitation,
      PanneDocker, RetourDocker, dockerVars

-----------------------------------------------------------------------------
(***************************************************************************)
(* What a step may do to the rows, the requests and the Faucheur: the rows *)
(* keep their container and their node, they are closed with their rental  *)
(* once their machine is gone, none opens again, and what is remembered of *)
(* a row is true of it.                                                    *)
(***************************************************************************)
Close(i) == instances[i].status \in {"expired", "stopped"}

LignesSuivies ==
  \A i \in Ids :
    /\ Ouverte(i) => /\ Ouverte(i)'
                     /\ instances'[i].cid = instances[i].cid
                     /\ instances'[i].worker = instances[i].worker
                     /\ EnCours(i)' => EnCours(i)
    /\ Close(i)' => Ouverte(i) /\ (Close(i) \/ ~Present(instances[i].cid)')
    /\ Ouverte(i)' => (EnCours(i)' <=> Prolongeable(i)')

RequetesSuivies ==
  \A p \in WebProcs :
    /\ Etape(p)' = "detruire" =>
         \/ requetes'[p] = requetes[p]
         \/ /\ requetes'[p].cid = instances'[requetes'[p].inst].cid
            /\ requetes'[p].noeud = instances'[requetes'[p].inst].worker
    /\ Etape(p)' = "clore" =>
         \/ Etape(p) = "clore" /\ requetes'[p].inst = requetes[p].inst
         \/ conteneurs'[instances'[requetes'[p].inst].cid].etat # "present"
    /\ requetes'[p].vu # Rien =>
         \/ requetes'[p] = requetes[p]
         \/ Etape(p)' = "clore" /\ requetes'[p].vu = instances'[requetes'[p].inst].status

LectureSuivie ==
  faucheur'.vu # Rien =>
    /\ \/ faucheur'.etape = "marquer"
       \/ faucheur'.etape = "purger" /\ faucheur'.inst \in faucheur'.disparus
    /\ \/ faucheur'.vu = faucheur.vu /\ faucheur'.inst = faucheur.inst
       \/ faucheur'.vu = instances'[faucheur'.inst].status

FaucheurSuivi ==
  /\ faucheur'.etape \notin {"replier", "recreer", "deplacer", "renoncer"}
  /\ \A i \in faucheur'.disparus : i \in faucheur.disparus \/ ~Present(instances[i].cid)'
  /\ LectureSuivie

LEMMA FaucheurImmobile ==
  ASSUME SansReprise, UNCHANGED faucheur
  PROVE  FaucheurSuivi
  BY DEF FaucheurSuivi, LectureSuivie, SansReprise, LecturesSuivies, A

LEMMA SuiviDonneSansReprise ==
  ASSUME IInv, SansReprise, Usure, LignesSuivies, RequetesSuivies, FaucheurSuivi
  PROVE  SansReprise'
<1>1. \A i : Ouverte(i) => /\ instances[i].cid \in Conteneurs
                           /\ conteneurs[instances[i].cid].etat # "jamais"
  BY DEF IInv, Forme, FormeLignes, Reference, ReferenceExacte, Ouverte
<1>2. \A i : Ouverte(i) /\ ~Present(instances[i].cid) => ~Present(instances[i].cid)'
  BY <1>1 DEF LignesSuivies, Ouverte, Usure, Present
<1>3. ASSUME NEW p \in WebProcs
      PROVE  /\ Etape(p)' = "detruire" =>
                  /\ requetes'[p].cid = instances'[requetes'[p].inst].cid
                  /\ requetes'[p].noeud = instances'[requetes'[p].inst].worker
             /\ Etape(p)' = "clore" =>
                  conteneurs'[instances'[requetes'[p].inst].cid].etat # "present"
  <2>1. CASE /\ Etape(p) \in {"detruire", "clore"}
             /\ \/ requetes'[p] = requetes[p]
                \/ Etape(p)' = "clore" /\ Etape(p) = "clore"
                   /\ requetes'[p].inst = requetes[p].inst
    <3>1. Ouverte(requetes[p].inst) /\ requetes[p].inst \in Ids
      BY <2>1 DEF IInv, Forme, FormeRequetes, Ouverte
    <3>2. instances'[requetes[p].inst].cid = instances[requetes[p].inst].cid
          /\ instances'[requetes[p].inst].worker = instances[requetes[p].inst].worker
      BY <3>1 DEF LignesSuivies
    <3>3. Etape(p) = "clore" => conteneurs'[instances[requetes[p].inst].cid].etat # "present"
      BY <1>1, <3>1 DEF SansReprise, Usure, Present
    <3>4. QED BY <2>1, <3>2, <3>3 DEF SansReprise, Etape
  <2>2. QED BY <2>1 DEF RequetesSuivies, Etape
<1>4. \A i \in faucheur'.disparus : ~Present(instances[i].cid)'
  BY <1>2 DEF FaucheurSuivi, SansReprise, IInv, Forme, FormeFaucheur
<1>5. \A i \in Ids : Close(i)' => ~Present(instances[i].cid)'
  BY <1>2 DEF LignesSuivies, SansReprise, Close
<1>6. \A i \in Ids : instances'[i].status # "libre" => (EnCours(i)' <=> Prolongeable(i)')
  BY DEF LignesSuivies, Ouverte
<1>7. ASSUME NEW p \in WebProcs, requetes'[p].vu # Rien
      PROVE  /\ Etape(p)' = "clore"
             /\ requetes'[p].vu # "running" => instances'[requetes'[p].inst].status # "running"
  <2>1. CASE requetes'[p] = requetes[p]
    <3>1. /\ Etape(p) = "clore" /\ Ouverte(requetes[p].inst)
          /\ requetes[p].vu # "running" => ~EnCours(requetes[p].inst)
      BY <1>7, <2>1 DEF SansReprise, LecturesSuivies, IInv, Forme, FormeRequetes
    <3>2. QED BY <2>1, <3>1 DEF LignesSuivies, EnCours, Ouverte, Etape
  <2>2. QED BY <1>7, <2>1 DEF RequetesSuivies
<1>8. ASSUME faucheur'.vu # Rien
      PROVE  /\ \/ faucheur'.etape = "marquer"
                \/ faucheur'.etape = "purger" /\ faucheur'.inst \in faucheur'.disparus
             /\ faucheur'.vu # "running" => instances'[faucheur'.inst].status # "running"
  <2>1. CASE faucheur'.vu = faucheur.vu /\ faucheur'.inst = faucheur.inst
    <3>1. /\ Ouverte(faucheur.inst)
          /\ faucheur.vu # "running" => ~EnCours(faucheur.inst)
      BY <1>8, <2>1 DEF SansReprise, LecturesSuivies, IInv, Forme, FormeFaucheur, A
    <3>2. QED
      BY <1>8, <2>1, <3>1 DEF LignesSuivies, FaucheurSuivi, LectureSuivie, EnCours, Ouverte
  <2>2. QED BY <1>8, <2>1 DEF FaucheurSuivi, LectureSuivie
<1>9. LecturesSuivies'
  BY <1>7, <1>8 DEF LecturesSuivies, A, EnCours, Etape
<1>10. QED
  BY <1>3, <1>4, <1>5, <1>6, <1>9
  DEF SansReprise, FaucheurSuivi, Etape, Present, Close

LEMMA LignesInchangees ==
  ASSUME SansReprise, UNCHANGED instances
  PROVE  LignesSuivies
  BY DEF LignesSuivies, SansReprise, Ouverte, Close, EnCours, Prolongeable

LEMMA RequetesInchangees ==
  ASSUME UNCHANGED requetes
  PROVE  RequetesSuivies
  BY DEF RequetesSuivies, Etape

(* An open row is closed when its machine is gone, even by an UPDATE that  *)
(* leaves out the status: the one it has read was not running either.      *)
LEMMA CloreLigne ==
  ASSUME IInv, SansReprise, NEW i, Ouverte(i), NEW vu, NEW s \in {"expired", "stopped"},
         SetInstanceStatus(i, vu, s), vu # "running" => ~EnCours(i),
         ~Present(instances[i].cid), UNCHANGED conteneurs
  PROVE  LignesSuivies
<1>1. i \in Ids /\ instances \in [Ids -> Instance]
  BY DEF Ouverte, IInv, TypeOK, DatabaseTypeOK
<1> DEFINE ligne == [instances[i] EXCEPT !.status = Modifie(i, vu, s),
                                        !.location = Correspondance(s)]
<1>2. instances' = [instances EXCEPT ![i] = ligne]
  BY DEF SetInstanceStatus
<1>3. /\ ligne.status \in {"expired", "stopped"} /\ ligne.location # "ACTIVE"
      /\ ligne.cid = instances[i].cid /\ ligne.worker = instances[i].worker
  <2>1. Modifie(i, vu, s) \in {"expired", "stopped"}
    BY <1>1 DEF Modifie, Instance, Statuts, Ouverte, EnCours
  <2>2. Correspondance(s) # "ACTIVE"
    BY DEF Correspondance
  <2>3. QED BY <1>1, <2>1, <2>2 DEF Instance
<1>4. instances'[i] = ligne /\ \A j \in Ids \ {i} : instances'[j] = instances[j]
  BY <1>1, <1>2
<1> HIDE DEF ligne
<1>5. ASSUME NEW j \in Ids
      PROVE  /\ Ouverte(j) => /\ instances'[j].status # "libre"
                              /\ instances'[j].cid = instances[j].cid
                              /\ instances'[j].worker = instances[j].worker
                              /\ instances'[j].status = "running" => EnCours(j)
             /\ instances'[j].status \in {"expired", "stopped"} =>
                  Ouverte(j) /\ (Close(j) \/ conteneurs'[instances'[j].cid].etat # "present")
             /\ instances'[j].status # "libre" =>
                  (instances'[j].status = "running" <=> instances'[j].location = "ACTIVE")
  <2>1. CASE j = i
    BY <1>3, <1>4, <2>1 DEF Ouverte, Present
  <2>2. CASE j # i
    BY <1>4, <2>2 DEF Ouverte, Close, SansReprise, EnCours, Prolongeable
  <2>3. QED BY <2>1, <2>2
<1>6. QED BY <1>5 DEF LignesSuivies, Ouverte, Close, Present, EnCours, Prolongeable

LEMMA EnregistrerLignes ==
  ASSUME IInv, SansReprise, NEW p \in WebProcs, Enregistrer(p)
  PROVE  LignesSuivies
<1>1. PICK i \in Ids : CreateInstance(i, requetes[p].user, requetes[p].cid,
                                      requetes[p].noeud, requetes[p].duree)
  BY DEF Enregistrer
<1>2. /\ instances'[i].status = "running" /\ instances'[i].location = "ACTIVE"
      /\ \A j \in Ids \ {i} : instances'[j] = instances[j]
      /\ ~Ouverte(i)
  BY <1>1 DEF CreateInstance, EstNouvelId, Ouverte, IInv, TypeOK, DatabaseTypeOK
<1>3. QED
  BY <1>2 DEF LignesSuivies, SansReprise, Ouverte, Close, EnCours, Prolongeable

LEMMA EcrireLignes ==
  ASSUME IInv, SansReprise, NEW p \in WebProcs, EcrireLocation(p)
  PROVE  LignesSuivies
  BY DEF EcrireLocation, EcrireFin, LignesSuivies, SansReprise, Ouverte, Close,
         EnCours, Prolongeable, IInv, TypeOK, DatabaseTypeOK, Instance, Forme, FormeRequetes

LEMMA PasserEffet ==
  ASSUME IInv, NEW p \in WebProcs, NEW req, Passer(p, req)
  PROVE  requetes'[p] = req /\ \A q \in WebProcs \ {p} : requetes'[q] = requetes[q]
  BY DEF IInv, TypeOK, ServicesTypeOK, Passer

LEMMA RequeteSuivie ==
  ASSUME IInv, NEW p \in WebProcs, NEW req, Passer(p, req),
         req.etape \notin {"detruire", "clore"}, req.vu = Rien
  PROVE  RequetesSuivies
  BY PasserEffet DEF RequetesSuivies, Etape

LEMMA DetruireRequete ==
  ASSUME IInv, SansReprise, NEW p \in WebProcs, Detruire(p)
  PROVE  RequetesSuivies
<1> DEFINE i == requetes[p].inst
           req == [requetes[p] EXCEPT !.etape = "clore"]
<1>1. CASE Passer(p, Repos)
  BY <1>1, RequeteSuivie DEF Repos
<1>2. CASE Passer(p, req) /\ RmReussi(requetes[p].cid, requetes[p].noeud)
  <2>1. /\ i \in Ids /\ instances[i].cid \in Conteneurs
        /\ requetes[p].cid = instances[i].cid /\ requetes[p].noeud = instances[i].worker
        /\ Hebergee(instances[i].cid, instances[i].worker)
    BY DEF Detruire, IInv, Forme, FormeRequetes, FormeLignes, Ouverte, SansReprise,
           Reference, ReferenceExacte, Hebergee
  <2>2. conteneurs'[instances[i].cid].etat # "present"
    BY <1>2, <2>1, RmEffet DEF IInv, TypeOK, Present
  <2>3. req.etape = "clore" /\ req.inst = i /\ req.vu = Rien
    BY DEF IInv, TypeOK, ServicesTypeOK, Requete, Detruire, SansReprise, LecturesSuivies
  <2>4. instances' = instances
    BY DEF Detruire, databaseVars
  <2>5. requetes'[p] = req /\ \A q \in WebProcs \ {p} : requetes'[q] = requetes[q]
    BY <1>2, PasserEffet
  <2> HIDE DEF req, i
  <2>6. QED BY <2>2, <2>3, <2>4, <2>5 DEF RequetesSuivies, Etape
<1>3. QED BY <1>1, <1>2 DEF Detruire, Finir

LEMMA DebutArreterRequete ==
  ASSUME IInv, NEW p \in WebProcs, NEW i \in Ids, DebutArreter(p, i)
  PROVE  RequetesSuivies
<1> DEFINE req == [Repos EXCEPT !.etape = "detruire", !.inst = i,
                                !.cid = instances[i].cid,
                                !.noeud = instances[i].worker]
<1>1. /\ req.etape = "detruire" /\ req.inst = i /\ req.cid = instances[i].cid
      /\ req.noeud = instances[i].worker /\ req.vu = Rien
  BY DEF Repos
<1>2. Passer(p, req) /\ instances' = instances
  BY DEF DebutArreter, databaseVars
<1> HIDE DEF req
<1>3. QED BY <1>1, <1>2, PasserEffet DEF RequetesSuivies, Etape

LEMMA LireAvantCloreRequete ==
  ASSUME IInv, NEW p \in WebProcs, LireAvantClore(p)
  PROVE  RequetesSuivies
<1> DEFINE req == [requetes[p] EXCEPT !.vu = instances[requetes[p].inst].status]
<1>1. /\ Etape(p) = "clore" /\ req.etape = "clore" /\ req.inst = requetes[p].inst
      /\ req.vu = instances[requetes[p].inst].status
  BY DEF LireAvantClore, Etape, IInv, TypeOK, ServicesTypeOK, Requete
<1>2. Passer(p, req) /\ instances' = instances
  BY DEF LireAvantClore, LireStatut, databaseVars
<1> HIDE DEF req
<1>3. QED BY <1>1, <1>2, PasserEffet DEF RequetesSuivies, Etape

LEMMA WebSuivi ==
  ASSUME IInv, SansReprise, NEW p \in WebProcs, ProcessusWeb(p)
  PROVE  LignesSuivies /\ RequetesSuivies
<1>1. LignesSuivies
  <2>1. CASE Clore(p)
    <3>1. /\ Ouverte(requetes[p].inst) /\ ~Present(instances[requetes[p].inst].cid)
          /\ SetInstanceStatus(requetes[p].inst, requetes[p].vu, "stopped")
          /\ requetes[p].vu # "running" => ~EnCours(requetes[p].inst)
          /\ UNCHANGED conteneurs
      BY <2>1
      DEF Clore, IInv, Forme, FormeRequetes, SansReprise, LecturesSuivies, dockerVars
    <3>2. QED BY <3>1, CloreLigne
  <2>2. QED
    BY <2>1, EnregistrerLignes, EcrireLignes, LignesInchangees
    DEF ProcessusWeb, DebutRequete, DebutLouer, DebutArreter, DebutProlonger, EtapeWeb,
        ChoisirWorker, LancerReussi, LancerEchoue, ChercherWorker, DeclarerWorker,
        InsererWorker, EnregistrerEchoue, Nettoyer, Detruire, LireAvantClore, LireLocation,
        ExceptionRequete, MortWeb, databaseVars
<1>2. RequetesSuivies
  <2>1. ASSUME NEW i \in Ids, DebutArreter(p, i) PROVE RequetesSuivies
    BY <2>1, DebutArreterRequete
  <2>2. CASE Detruire(p)
    BY <2>2, DetruireRequete
  <2>3. CASE LireAvantClore(p)
    BY <2>3, LireAvantCloreRequete
  <2>4. ASSUME NEW req, Passer(p, req), req.etape \notin {"detruire", "clore"}, req.vu = Rien
        PROVE  RequetesSuivies
    BY <2>4, RequeteSuivie
  <2>5. Repos.etape = "repos" /\ Repos.vu = Rien
    BY DEF Repos
  <2>6. CASE Passer(p, Repos)
    BY <2>4, <2>5, <2>6
  <2>7. ASSUME NEW u \in Utilisateurs, NEW d \in Durees, DebutLouer(p, u, d)
        PROVE  RequetesSuivies
    <3>1. PICK req : req = [Repos EXCEPT !.etape = "choisir", !.user = u, !.duree = d]
      OBVIOUS
    <3>2. req.etape = "choisir" /\ req.vu = Rien /\ Passer(p, req)
      BY <2>7, <3>1 DEF DebutLouer, Repos
    <3>3. QED BY <2>4, <3>2
  <2>8. ASSUME NEW i \in Ids, NEW d \in Durees, DebutProlonger(p, i, d)
        PROVE  RequetesSuivies
    <3>1. PICK req : req = [Repos EXCEPT !.etape = "prolonger", !.inst = i, !.duree = d]
      OBVIOUS
    <3>2. req.etape = "prolonger" /\ req.vu = Rien /\ Passer(p, req)
      BY <2>8, <3>1 DEF DebutProlonger, Repos
    <3>3. QED BY <2>4, <3>2
  <2>9. requetes[p] \in Requete /\ (Etape(p) # "clore" => requetes[p].vu = Rien)
    BY DEF IInv, TypeOK, ServicesTypeOK, SansReprise, LecturesSuivies
  <2>10. CASE ChoisirWorker(p)
    <3>1. PICK n : Passer(p, [requetes[p] EXCEPT !.etape = "lancer", !.noeud = n])
      BY <2>10 DEF ChoisirWorker
    <3>2. PICK req : req = [requetes[p] EXCEPT !.etape = "lancer", !.noeud = n]
      OBVIOUS
    <3>3. req.etape = "lancer" /\ req.vu = Rien
      BY <2>9, <2>10, <3>2 DEF Requete, ChoisirWorker
    <3>4. QED BY <2>4, <3>1, <3>2, <3>3
  <2>11. CASE LancerReussi(p)
    <3>1. PICK c : Passer(p, [requetes[p] EXCEPT !.etape = "enregistrer", !.cid = c])
      BY <2>11 DEF LancerReussi
    <3>2. PICK req : req = [requetes[p] EXCEPT !.etape = "enregistrer", !.cid = c]
      OBVIOUS
    <3>3. req.etape = "enregistrer" /\ req.vu = Rien
      BY <2>9, <2>11, <3>2 DEF Requete, LancerReussi
    <3>4. QED BY <2>4, <3>1, <3>2, <3>3
  <2>12. CASE ChercherWorker(p) \/ DeclarerWorker(p) \/ EnregistrerEchoue(p)
    <3>1. PICK etape \in {"enregistrer", "declarer", "nettoyer"} :
            Passer(p, [requetes[p] EXCEPT !.etape = etape])
      BY <2>12 DEF ChercherWorker, DeclarerWorker, EnregistrerEchoue
    <3>2. PICK req : req = [requetes[p] EXCEPT !.etape = etape]
      OBVIOUS
    <3>3. req.etape = etape /\ req.vu = Rien
      BY <2>9, <2>12, <3>2 DEF Requete, ChercherWorker, DeclarerWorker, EnregistrerEchoue
    <3>4. QED BY <2>4, <3>1, <3>2, <3>3
  <2>13. CASE LireLocation(p)
    <3>1. PICK fin : Passer(p, Repos)
                     \/ Passer(p, [requetes[p] EXCEPT !.etape = "ecrire", !.fin = fin])
      BY <2>13 DEF LireLocation, Finir
    <3>2. PICK req : req = [requetes[p] EXCEPT !.etape = "ecrire", !.fin = fin]
      OBVIOUS
    <3>3. req.etape = "ecrire" /\ req.vu = Rien
      BY <2>9, <2>13, <3>2 DEF Requete, LireLocation
    <3>4. QED BY <2>4, <2>5, <3>1, <3>2, <3>3
  <2>14. QED
    BY <2>1, <2>2, <2>3, <2>6, <2>7, <2>8, <2>10, <2>11, <2>12, <2>13
    DEF ProcessusWeb, DebutRequete, EtapeWeb, LancerEchoue, Enregistrer, Nettoyer, Clore,
        EcrireLocation, ExceptionRequete, MortWeb, Finir
<1>3. QED BY <1>1, <1>2

LEMMA FaucheurLignes ==
  ASSUME IInv, SansReprise, ProcessusFaucheur
  PROVE  LignesSuivies
<1>1. CASE Marquer
  <2>1. /\ Ouverte(faucheur.inst) /\ ~Present(instances[faucheur.inst].cid)
        /\ SetInstanceStatus(faucheur.inst, faucheur.vu, "expired") /\ UNCHANGED conteneurs
        /\ faucheur.vu # "running" => ~EnCours(faucheur.inst)
    BY <1>1
    DEF Marquer, IInv, Forme, FormeFaucheur, Expiration, A, SansReprise, LecturesSuivies,
        dockerVars
  <2>2. QED BY <2>1, CloreLigne
<1>2. ASSUME NEW i \in Ids, Constater(i) PROVE LignesSuivies
  <2>1. /\ Ouverte(i) /\ ~Present(instances[i].cid)
        /\ SetInstanceStatus(i, faucheur.vu, "stopped") /\ UNCHANGED conteneurs
        /\ faucheur.vu # "running" => ~EnCours(i)
    BY <1>2
    DEF Constater, IInv, Forme, FormeFaucheur, SansReprise, LecturesSuivies, dockerVars
  <2>2. QED BY <2>1, CloreLigne
<1>3. ~Deplacer /\ ~Renoncer
  BY DEF Deplacer, Renoncer, A, SansReprise
<1>4. QED
  BY <1>1, <1>2, <1>3, LignesInchangees
  DEF ProcessusFaucheur, EtapeFaucheur, DebutCycle, LireAvantEcrire, FinFauche, BattreLocal,
      Battre, Surveiller, MarkStaleWorkersOffline, Recreer, RecreerEchoue, FinReprise,
      ListerActives, FinReconciliation, Faucher, FaucherEchoue, ChoisirRepli, LireDisparu,
      ReprendreWorker, Ps, PsEchoue, Purger, ExceptionFaucheur, CrashFaucheur,
      databaseVars

LEMMA FaucheurRequetes ==
  ASSUME ProcessusFaucheur
  PROVE  requetes' = requetes
  BY DEF ProcessusFaucheur, EtapeFaucheur, DebutCycle, LireAvantEcrire, Marquer, FinFauche,
         BattreLocal, Surveiller, Recreer, RecreerEchoue, Deplacer, Renoncer, FinReprise,
         ListerActives, FinReconciliation, Faucher, FaucherEchoue, ChoisirRepli,
         LireDisparu, Constater, ReprendreWorker, Ps, PsEchoue, Purger, ExceptionFaucheur,
         CrashFaucheur

(* A step of the Faucheur that is not a ps finds nobody missing.           *)
LEMMA FaucheurAvance ==
  ASSUME IInv, ProcessusFaucheur, ~AUTO_RECOVERY, SansReprise,
         \A n \in Noeuds : ~Ps(n)
  PROVE  /\ faucheur'.etape \notin {"replier", "recreer", "deplacer", "renoncer"}
         /\ faucheur'.disparus \subseteq faucheur.disparus
         /\ LectureSuivie
<1>1. faucheur \in EtatFaucheur
  BY DEF IInv, TypeOK, FaucheurTypeOK
<1>2. /\ faucheur.etape \notin {"replier", "recreer", "deplacer", "renoncer"}
      /\ faucheur.vu # Rien => \/ faucheur.etape = "marquer"
                               \/ faucheur.etape = "purger" /\ faucheur.inst \in faucheur.disparus
  BY DEF SansReprise, LecturesSuivies, A
<1> DEFINE Objectif == /\ faucheur'.etape \notin {"replier", "recreer", "deplacer", "renoncer"}
                       /\ faucheur'.disparus \subseteq faucheur.disparus
                       /\ LectureSuivie
<1>3. ASSUME NEW k, faucheur' = EnAttente(k) PROVE Objectif
  BY <1>3 DEF EnAttente, LectureSuivie
<1>4. CASE ApresSurveillance
  BY <1>4 DEF ApresSurveillance, EnAttente, LectureSuivie
<1>5. CASE DebutCycle \/ FinFauche \/ BattreLocal \/ ListerActives
  BY <1>1, <1>2, <1>5
  DEF DebutCycle, FinFauche, BattreLocal, ListerActives, Aller, EtatFaucheur, A, LectureSuivie
<1>5a. CASE Marquer
  BY <1>1, <1>5a DEF Marquer, EtatFaucheur, LectureSuivie
<1>5b. CASE LireAvantEcrire
  <2>1. /\ faucheur'.etape = "marquer" /\ faucheur'.disparus = faucheur.disparus
        /\ faucheur'.vu = instances[faucheur.inst].status /\ faucheur'.inst = faucheur.inst
        /\ instances' = instances
    BY <1>1, <1>2, <1>5b DEF LireAvantEcrire, LireStatut, EtatFaucheur, databaseVars
  <2>2. QED BY <2>1 DEF LectureSuivie
<1>6. CASE Surveiller
  BY <1>1, <1>2, <1>4, <1>6 DEF Surveiller, EtatFaucheur, A, LectureSuivie
<1>7. ASSUME NEW i \in Ids, Faucher(i) \/ FaucherEchoue(i) PROVE Objectif
  BY <1>1, <1>2, <1>7 DEF Faucher, FaucherEchoue, EtatFaucheur, A, LectureSuivie
<1>7a. ASSUME NEW i \in Ids, LireDisparu(i) PROVE Objectif
  <2>1. /\ faucheur'.etape = "purger" /\ faucheur'.disparus = faucheur.disparus
        /\ faucheur'.vu = instances[i].status /\ faucheur'.inst = i
        /\ instances' = instances /\ i \in faucheur.disparus
    BY <1>1, <1>7a DEF LireDisparu, LireStatut, A, EtatFaucheur, databaseVars
  <2>2. QED BY <2>1 DEF LectureSuivie
<1>7b. ASSUME NEW i \in Ids, Constater(i) PROVE Objectif
  BY <1>1, <1>7b DEF Constater, A, EtatFaucheur, LectureSuivie
<1>8. ASSUME NEW n \in Noeuds, ReprendreWorker(n) \/ PsEchoue(n) PROVE Objectif
  BY <1>1, <1>2, <1>8 DEF ReprendreWorker, PsEchoue, EtatFaucheur, A, LectureSuivie
<1>9. ASSUME NEW c \in Conteneurs, Purger(c) PROVE Objectif
  BY <1>1, <1>2, <1>9 DEF Purger, A, EtatFaucheur, LectureSuivie
<1>10. CASE FinReprise
  BY <1>1, <1>2, <1>4, <1>10 DEF FinReprise, EtatFaucheur, A, LectureSuivie
<1>11. CASE FinReconciliation
  BY <1>1, <1>2, <1>3, <1>11 DEF FinReconciliation, EtatFaucheur, A, LectureSuivie
<1>12. CASE ExceptionFaucheur \/ CrashFaucheur
  BY <1>3, <1>12 DEF ExceptionFaucheur, CrashFaucheur
<1>13. /\ ~Recreer /\ ~RecreerEchoue /\ ~Deplacer /\ ~Renoncer
       /\ \A i \in Ids : ~ChoisirRepli(i)
  BY <1>2 DEF Recreer, RecreerEchoue, Deplacer, Renoncer, ChoisirRepli, A
<1>14. QED
  BY <1>5, <1>5a, <1>5b, <1>6, <1>7, <1>7a, <1>7b, <1>8, <1>9, <1>10, <1>11, <1>12, <1>13
  DEF ProcessusFaucheur, EtapeFaucheur

(* A row missing from the answer of its own node has lost its container.   *)
LEMMA PsConstate ==
  ASSUME IInv, SansReprise, NEW n \in Noeuds, Ps(n)
  PROVE  FaucheurSuivi
<1>1. faucheur'.etape = "purger" /\ faucheur'.disparus = Disparus(n) /\ faucheur'.vu = Rien
      /\ UNCHANGED <<instances, conteneurs>>
  BY DEF Ps, A, IInv, TypeOK, FaucheurTypeOK, EtatFaucheur, SansReprise, LecturesSuivies,
         dockerVars, databaseVars
<1>2. ASSUME NEW i \in Disparus(n) PROVE ~Present(instances[i].cid)
  <2>1. /\ Ouverte(i) /\ instances[i].worker = n
        /\ instances[i].cid \notin PresentsSur(n)
    BY DEF Disparus, ListeDe, IInv, Forme, FormeFaucheur
  <2>2. instances[i].cid \in Conteneurs /\ conteneurs[instances[i].cid].noeud = Demon(n)
    BY <2>1 DEF IInv, Forme, FormeLignes, Reference, ReferenceExacte, Ouverte
  <2>3. QED BY <2>1, <2>2 DEF PresentsSur
<1>3. QED BY <1>1, <1>2 DEF Present, FaucheurSuivi, LectureSuivie

LEMMA SansRepriseNext ==
  ASSUME IInv, SansReprise, ~AUTO_RECOVERY, [Next]_vars
  PROVE  SansReprise'
<1>1. ASSUME NEW p \in WebProcs, ProcessusWeb(p) PROVE SansReprise'
  <2>1. FaucheurSuivi
    BY <1>1, FaucheurImmobile DEF ProcessusWeb
  <2>2. QED BY <1>1, <2>1, WebUsure, WebSuivi, SuiviDonneSansReprise
<1>2. CASE ProcessusFaucheur
  <2>1. FaucheurSuivi
    BY <1>2, FaucheurAvance, PsConstate DEF FaucheurSuivi
  <2>2. RequetesSuivies
    BY <1>2, FaucheurRequetes, RequetesInchangees
  <2>3. QED BY <1>2, <2>1, <2>2, FaucheurUsure, FaucheurLignes, SuiviDonneSansReprise
<1>3. CASE Environnement
  <2>1. UNCHANGED <<instances, requetes, faucheur>>
    BY <1>3 DEF Environnement, BattementAgent, Battre, SilenceAgent, Vieillir,
                PasserLeTemps, Tic, Exploitation, databaseVars
  <2>2. FaucheurSuivi
    BY <2>1, FaucheurImmobile
  <2>3. QED
    BY <1>3, <2>1, <2>2, EnvironnementUsure, LignesInchangees, RequetesInchangees,
       SuiviDonneSansReprise
<1>4. CASE UNCHANGED vars
  <2>1. UNCHANGED <<conteneurs, instances, requetes, faucheur>>
    BY <1>4 DEF vars, dockerVars, databaseVars
  <2>2. FaucheurSuivi
    BY <2>1, FaucheurImmobile
  <2>3. QED
    BY <2>1, <2>2, StableUsure, LignesInchangees, RequetesInchangees, SuiviDonneSansReprise
<1>5. CASE Serveur
  <2>1. UNCHANGED <<conteneurs, instances, faucheur>>
    BY <1>5 DEF Serveur, DemarrerServeur, ArretServeur, Battre, dockerVars, databaseVars
  <2>2. FaucheurSuivi
    BY <2>1, FaucheurImmobile
  <2>3. RequetesSuivies
    BY <1>5, ServeurRequetes DEF RequetesSuivies, Etape, Repos, Eteint
  <2>4. QED
    BY <2>1, <2>2, <2>3, StableUsure, LignesInchangees, SuiviDonneSansReprise
<1>6. QED BY <1>1, <1>2, <1>3, <1>4, <1>5 DEF Next

(***************************************************************************)
(* The invariant of the platform without recovery: what is read of a row   *)
(* before its status is written stays true enough for the write.           *)
(***************************************************************************)
THEOREM InvarianceSansReprise == Spec => []IInvSansReprise
<1>1. Init => IInvSansReprise /\ RepriseOuverte
  BY InitIInv DEF Init, FaucheurInit, EnAttente, RepriseOuverte
<1>2. IInvSansReprise /\ RepriseOuverte /\ [Next]_vars => (IInvSansReprise /\ RepriseOuverte)'
  BY NextInv, SansRepriseNext, RepriseOuverteNext DEF IInvSansReprise
<1>3. QED BY <1>1, <1>2, PTL DEF Spec

(* Without recovery, a closed rental leaves no machine behind, whoever     *)
(* closed it: arreter, reap_expired or reconcile.                          *)
THEOREM ClotureSure == Spec => []TermineeDoncDetruite
<1>1. IInvSansReprise => TermineeDoncDetruite
  BY DEF IInvSansReprise, SansReprise, TermineeDoncDetruite
<1>2. QED BY <1>1, InvarianceSansReprise, PTL

(* Without recovery, an instance runs exactly as long as its rental is     *)
(* ACTIVE, although the UPDATE of set_instance_status leaves out a status  *)
(* that it has read, and other writers come in between.                    *)
THEOREM LocationSuitInstance == Spec => []LocationOuverte
<1>1. IInvSansReprise => LocationOuverte
  BY DEF IInvSansReprise, SansReprise, LocationOuverte
<1>2. QED BY <1>1, InvarianceSansReprise, PTL

-----------------------------------------------------------------------------
(***************************************************************************)
(* The quota.  A rental passes the test with less than the quota, and each *)
(* of the other processes holds at most one rental that has passed it: the *)
(* machines of a user and the rentals on their way to become some are      *)
(* counted together.                                                       *)
(***************************************************************************)
EnCreationDe(u) == {p \in EnCreation : requetes[p].user = u}

MargeQuota == MAX_INSTANCES_PER_USER + Cardinality(WebProcs) - 1

QuotaAttendu ==
  \A u \in Utilisateurs :
    /\ IsFiniteSet(Actives(u))
    /\ Cardinality(Actives(u)) + Cardinality(EnCreationDe(u)) <= MargeQuota

(* No row comes back, no rental begins.                                    *)
LignesSansRetour ==
  \A i \in Ids : EnCours(i)' => EnCours(i) /\ instances'[i].user = instances[i].user

RequetesSansCreation ==
  \A p \in WebProcs :
    p \in EnCreation' => p \in EnCreation /\ requetes'[p].user = requetes[p].user

LEMMA CardWebProcs ==
  /\ Cardinality(WebProcs) \in Nat
  /\ Cardinality(WebProcs) > 0
  /\ \A S \in SUBSET WebProcs : /\ IsFiniteSet(S)
                                /\ Cardinality(S) \in Nat
                                /\ Cardinality(S) <= Cardinality(WebProcs)
<1>1. IsFiniteSet(WebProcs) /\ WebProcs # {}
  BY ServicesAssumption
<1>2. Cardinality(WebProcs) \in Nat /\ Cardinality(WebProcs) # 0
  BY <1>1, FS_CardinalityType, FS_EmptySet
<1>3. ASSUME NEW S \in SUBSET WebProcs
      PROVE  /\ IsFiniteSet(S)
             /\ Cardinality(S) \in Nat
             /\ Cardinality(S) <= Cardinality(WebProcs)
  BY <1>1, FS_Subset, FS_CardinalityType
<1>4. QED BY <1>2, <1>3

(* Three ways for a step to keep the sum of one user within the margin.    *)
LEMMA QuotaGarde ==
  ASSUME QuotaAttendu, NEW u \in Utilisateurs,
         \/ /\ Actives(u)' \subseteq Actives(u)
            /\ EnCreationDe(u)' \subseteq EnCreationDe(u)
         \/ /\ Actives(u)' = Actives(u)
            /\ SousQuota(u)
         \/ \E p \in EnCreationDe(u) : \E i :
              /\ Actives(u)' \subseteq Actives(u) \cup {i}
              /\ EnCreationDe(u)' \subseteq EnCreationDe(u) \ {p}
  PROVE  /\ IsFiniteSet(Actives(u)')
         /\ Cardinality(Actives(u)') + Cardinality(EnCreationDe(u)') <= MargeQuota
<1> DEFINE V == EnCreationDe(u)
           W == EnCreationDe(u)'
           X == Actives(u)
           Y == Actives(u)'
<1>1. V \in SUBSET WebProcs /\ W \in SUBSET WebProcs
  BY DEF EnCreationDe, EnCreation
<1>2. /\ Cardinality(V) \in Nat /\ Cardinality(W) \in Nat /\ IsFiniteSet(V)
      /\ Cardinality(W) <= Cardinality(WebProcs) /\ Cardinality(WebProcs) \in Nat
  BY <1>1, CardWebProcs
<1>3. IsFiniteSet(X) /\ Cardinality(X) \in Nat
  BY FS_CardinalityType DEF QuotaAttendu
<1>4. Cardinality(X) + Cardinality(V) <= MargeQuota /\ MAX_INSTANCES_PER_USER \in Nat
  BY ServicesAssumption DEF QuotaAttendu
<1> HIDE DEF V, W, X, Y
<1>5. CASE Y \subseteq X /\ W \subseteq V
  <2>1. /\ IsFiniteSet(Y) /\ Cardinality(Y) \in Nat /\ Cardinality(Y) <= Cardinality(X)
        /\ Cardinality(W) <= Cardinality(V)
    BY <1>2, <1>3, <1>5, FS_Subset, FS_CardinalityType
  <2>2. Cardinality(Y) + Cardinality(W) <= MargeQuota
    BY <1>2, <1>3, <1>4, <2>1 DEF MargeQuota
  <2>3. QED BY <2>1, <2>2 DEF Y, W
<1>6. CASE Y = X /\ SousQuota(u)
  <2>1. Cardinality(X) < MAX_INSTANCES_PER_USER
    BY <1>6 DEF SousQuota, X
  <2>2. Cardinality(Y) + Cardinality(W) <= MargeQuota
    BY <1>2, <1>3, <1>4, <1>6, <2>1 DEF MargeQuota
  <2>3. QED BY <1>3, <1>6, <2>2 DEF Y, W
<1>7. ASSUME NEW p \in V, NEW i, Y \subseteq X \cup {i}, W \subseteq V \ {p}
      PROVE  IsFiniteSet(Y) /\ Cardinality(Y) + Cardinality(W) <= MargeQuota
  <2>1. IsFiniteSet(V \ {p}) /\ Cardinality(V \ {p}) = Cardinality(V) - 1
    BY <1>2, <1>7, FS_RemoveElement
  <2>2. Cardinality(W) <= Cardinality(V) - 1
    BY <1>7, <2>1, FS_Subset
  <2>3. /\ IsFiniteSet(X \cup {i})
        /\ Cardinality(X \cup {i}) \in Nat
        /\ Cardinality(X \cup {i}) <= Cardinality(X) + 1
    <3>1. /\ IsFiniteSet(X \cup {i})
          /\ Cardinality(X \cup {i}) = IF i \in X THEN Cardinality(X) ELSE Cardinality(X) + 1
      BY <1>3, FS_AddElement
    <3>2. QED BY <1>3, <3>1
  <2>4. IsFiniteSet(Y) /\ Cardinality(Y) \in Nat /\ Cardinality(Y) <= Cardinality(X) + 1
    BY <1>3, <1>7, <2>3, FS_Subset, FS_CardinalityType
  <2>5. QED BY <1>2, <1>3, <1>4, <2>2, <2>4 DEF MargeQuota
<1>8. QED BY <1>5, <1>6, <1>7 DEF V, W, X, Y

LEMMA SansRetourQuota ==
  ASSUME QuotaAttendu, LignesSansRetour, RequetesSansCreation
  PROVE  QuotaAttendu'
<1>1. ASSUME NEW u \in Utilisateurs
      PROVE  /\ IsFiniteSet(Actives(u)')
             /\ Cardinality(Actives(u)') + Cardinality(EnCreationDe(u)') <= MargeQuota
  <2>1. Actives(u)' \subseteq Actives(u)
    BY DEF LignesSansRetour, Actives, EnCours
  <2>2. EnCreationDe(u)' \subseteq EnCreationDe(u)
    BY DEF RequetesSansCreation, EnCreationDe, EnCreation
  <2>3. QED BY <2>1, <2>2, QuotaGarde
<1>2. QED BY <1>1 DEF QuotaAttendu, MargeQuota

LEMMA DebutLouerQuota ==
  ASSUME IInv, QuotaAttendu, NEW p \in WebProcs, NEW v \in Utilisateurs, NEW d \in Durees,
         DebutLouer(p, v, d)
  PROVE  QuotaAttendu'
<1> DEFINE req == [Repos EXCEPT !.etape = "choisir", !.user = v, !.duree = d]
<1>1. Passer(p, req) /\ instances' = instances /\ SousQuota(v)
  BY DEF DebutLouer, databaseVars
<1>2. req.user = v
  BY DEF Repos
<1>3. requetes'[p] = req /\ \A q \in WebProcs \ {p} : requetes'[q] = requetes[q]
  BY <1>1, PasserEffet
<1> HIDE DEF req
<1>4. ASSUME NEW u \in Utilisateurs
      PROVE  /\ IsFiniteSet(Actives(u)')
             /\ Cardinality(Actives(u)') + Cardinality(EnCreationDe(u)') <= MargeQuota
  <2>1. Actives(u)' = Actives(u)
    BY <1>1 DEF Actives, EnCours
  <2>2. CASE u = v
    BY <1>1, <2>1, <2>2, QuotaGarde
  <2>3. CASE u # v
    <3>1. EnCreationDe(u)' \subseteq EnCreationDe(u)
      BY <1>2, <1>3, <2>3 DEF EnCreationDe, EnCreation, Etape
    <3>2. QED BY <2>1, <3>1, QuotaGarde
  <2>4. QED BY <2>2, <2>3
<1>5. QED BY <1>4 DEF QuotaAttendu, MargeQuota

LEMMA EnregistrerQuota ==
  ASSUME IInv, QuotaAttendu, NEW p \in WebProcs, Enregistrer(p)
  PROVE  QuotaAttendu'
<1>1. PICK i \in Ids : CreateInstance(i, requetes[p].user, requetes[p].cid,
                                      requetes[p].noeud, requetes[p].duree)
  BY DEF Enregistrer
<1>2. /\ instances'[i].user = requetes[p].user
      /\ \A j \in Ids \ {i} : instances'[j] = instances[j]
  BY <1>1 DEF CreateInstance, IInv, TypeOK, DatabaseTypeOK
<1>3. requetes'[p] = Repos /\ \A q \in WebProcs \ {p} : requetes'[q] = requetes[q]
  BY PasserEffet DEF Enregistrer, Finir
<1>4. p \in EnCreation
  BY DEF Enregistrer, EnCreation
<1>5. ASSUME NEW u \in Utilisateurs
      PROVE  /\ IsFiniteSet(Actives(u)')
             /\ Cardinality(Actives(u)') + Cardinality(EnCreationDe(u)') <= MargeQuota
  <2>1. EnCreationDe(u)' \subseteq EnCreationDe(u) \ {p}
    BY <1>3 DEF EnCreationDe, EnCreation, Etape, Repos
  <2>2. CASE u = requetes[p].user
    <3>1. p \in EnCreationDe(u)
      BY <1>4, <2>2 DEF EnCreationDe
    <3>2. Actives(u)' \subseteq Actives(u) \cup {i}
      BY <1>2 DEF Actives, EnCours
    <3>3. QED BY <2>1, <3>1, <3>2, QuotaGarde
  <2>3. CASE u # requetes[p].user
    <3>1. Actives(u)' \subseteq Actives(u)
      BY <1>2, <2>3 DEF Actives, EnCours
    <3>2. QED BY <2>1, <3>1, QuotaGarde
  <2>4. QED BY <2>2, <2>3
<1>6. QED BY <1>5 DEF QuotaAttendu, MargeQuota

(* Every other step of a request carries on a rental or ends one.          *)
LEMMA PasserSansCreation ==
  ASSUME IInv, NEW p \in WebProcs, NEW req, Passer(p, req),
         \/ req.etape \notin {"choisir", "lancer", "enregistrer", "declarer"}
         \/ p \in EnCreation /\ req.user = requetes[p].user
  PROVE  RequetesSansCreation
  BY PasserEffet DEF RequetesSansCreation, EnCreation, Etape

LEMMA WebSansCreation ==
  ASSUME IInv, NEW p \in WebProcs, ProcessusWeb(p),
         \A u \in Utilisateurs, d \in Durees : ~DebutLouer(p, u, d)
  PROVE  RequetesSansCreation
<1>1. requetes[p] \in Requete
  BY DEF IInv, TypeOK, ServicesTypeOK
<1>2. CASE Passer(p, Repos)
  BY <1>2, PasserSansCreation DEF Repos
<1>3. ASSUME NEW i \in Ids, DebutArreter(p, i) PROVE RequetesSansCreation
  <2>1. PICK req : req = [Repos EXCEPT !.etape = "detruire", !.inst = i,
                                       !.cid = instances[i].cid, !.noeud = instances[i].worker]
    OBVIOUS
  <2>2. req.etape = "detruire" /\ Passer(p, req)
    BY <1>3, <2>1 DEF DebutArreter, Repos
  <2>3. QED BY <2>2, PasserSansCreation
<1>4. ASSUME NEW i \in Ids, NEW d \in Durees, DebutProlonger(p, i, d)
      PROVE  RequetesSansCreation
  <2>1. PICK req : req = [Repos EXCEPT !.etape = "prolonger", !.inst = i, !.duree = d]
    OBVIOUS
  <2>2. req.etape = "prolonger" /\ Passer(p, req)
    BY <1>4, <2>1 DEF DebutProlonger, Repos
  <2>3. QED BY <2>2, PasserSansCreation
<1>5. CASE ChoisirWorker(p)
  <2>1. PICK n : Passer(p, [requetes[p] EXCEPT !.etape = "lancer", !.noeud = n])
    BY <1>5 DEF ChoisirWorker
  <2>2. [requetes[p] EXCEPT !.etape = "lancer", !.noeud = n].user = requetes[p].user
    BY <1>1 DEF Requete
  <2>3. p \in EnCreation
    BY <1>5 DEF ChoisirWorker, EnCreation
  <2>4. QED BY <2>1, <2>2, <2>3, PasserSansCreation
<1>6. CASE LancerReussi(p)
  <2>1. PICK c : Passer(p, [requetes[p] EXCEPT !.etape = "enregistrer", !.cid = c])
    BY <1>6 DEF LancerReussi
  <2>2. [requetes[p] EXCEPT !.etape = "enregistrer", !.cid = c].user = requetes[p].user
    BY <1>1 DEF Requete
  <2>3. p \in EnCreation
    BY <1>6 DEF LancerReussi, EnCreation
  <2>4. QED BY <2>1, <2>2, <2>3, PasserSansCreation
<1>7. CASE ChercherWorker(p) \/ DeclarerWorker(p) \/ EnregistrerEchoue(p)
  <2>1. PICK etape : Passer(p, [requetes[p] EXCEPT !.etape = etape])
    BY <1>7 DEF ChercherWorker, DeclarerWorker, EnregistrerEchoue
  <2>2. [requetes[p] EXCEPT !.etape = etape].user = requetes[p].user
    BY <1>1 DEF Requete
  <2>3. p \in EnCreation
    BY <1>7 DEF ChercherWorker, DeclarerWorker, EnregistrerEchoue, EnCreation
  <2>4. QED BY <2>1, <2>2, <2>3, PasserSansCreation
<1>8. CASE Detruire(p)
  <2>1. CASE Passer(p, [requetes[p] EXCEPT !.etape = "clore"])
    <3>1. [requetes[p] EXCEPT !.etape = "clore"].etape = "clore"
      BY <1>1 DEF Requete
    <3>2. QED BY <2>1, <3>1, PasserSansCreation
  <2>2. QED BY <1>2, <1>8, <2>1 DEF Detruire, Finir
<1>8a. CASE LireAvantClore(p)
  <2>1. PICK vu : Passer(p, [requetes[p] EXCEPT !.vu = vu])
    BY <1>8a DEF LireAvantClore
  <2>2. [requetes[p] EXCEPT !.vu = vu].etape = "clore"
    BY <1>1, <1>8a DEF Requete, LireAvantClore, Etape
  <2>3. QED BY <2>1, <2>2, PasserSansCreation
<1>9. CASE LireLocation(p)
  <2>1. PICK fin : \/ Passer(p, Repos)
                   \/ Passer(p, [requetes[p] EXCEPT !.etape = "ecrire", !.fin = fin])
    BY <1>9 DEF LireLocation, Finir
  <2>2. [requetes[p] EXCEPT !.etape = "ecrire", !.fin = fin].etape = "ecrire"
    BY <1>1 DEF Requete
  <2>3. QED BY <1>2, <2>1, <2>2, PasserSansCreation
<1>10. QED
  BY <1>2, <1>3, <1>4, <1>5, <1>6, <1>7, <1>8, <1>8a, <1>9
  DEF ProcessusWeb, DebutRequete, EtapeWeb, LancerEchoue, Enregistrer, Nettoyer, Clore,
      EcrireLocation, ExceptionRequete, MortWeb, Finir

(* A status is only written to end a rental.                               *)
LEMMA CloreSansRetour ==
  ASSUME IInv, NEW i, NEW vu, NEW s \in {"expired", "stopped"}, SetInstanceStatus(i, vu, s)
  PROVE  LignesSansRetour
<1>1. instances \in [Ids -> Instance]
  BY DEF IInv, TypeOK, DatabaseTypeOK
<1>2. ASSUME NEW j \in Ids
      PROVE  instances'[j].status = "running" =>
               instances[j].status = "running" /\ instances'[j].user = instances[j].user
  <2>1. CASE i = j
    BY <1>1, <2>1 DEF SetInstanceStatus, Modifie, Instance
  <2>2. CASE i # j
    BY <1>1, <2>2 DEF SetInstanceStatus
  <2>3. QED BY <2>1, <2>2
<1>3. QED BY <1>2 DEF LignesSansRetour, EnCours

LEMMA MemesLignes ==
  ASSUME UNCHANGED instances
  PROVE  LignesSansRetour
  BY DEF LignesSansRetour, EnCours

LEMMA MemesRequetes ==
  ASSUME UNCHANGED requetes
  PROVE  RequetesSansCreation
  BY DEF RequetesSansCreation, EnCreation, Etape

LEMMA WebSansRetour ==
  ASSUME IInv, NEW p \in WebProcs, ProcessusWeb(p), ~Enregistrer(p)
  PROVE  LignesSansRetour
<1>1. CASE Clore(p)
  BY <1>1, CloreSansRetour DEF Clore
<1>2. CASE EcrireLocation(p)
  BY <1>2 DEF EcrireLocation, EcrireFin, LignesSansRetour, EnCours,
              IInv, TypeOK, DatabaseTypeOK, Instance
<1>3. QED
  BY <1>1, <1>2, MemesLignes
  DEF ProcessusWeb, DebutRequete, DebutLouer, DebutArreter, DebutProlonger, EtapeWeb,
      ChoisirWorker, LancerReussi, LancerEchoue, ChercherWorker, DeclarerWorker,
      InsererWorker, EnregistrerEchoue, Nettoyer, Detruire, LireAvantClore, LireLocation,
      ExceptionRequete, MortWeb, databaseVars

LEMMA FaucheurSansRetour ==
  ASSUME IInv, SansReprise, ProcessusFaucheur
  PROVE  LignesSansRetour
<1>1. CASE Marquer
  BY <1>1, CloreSansRetour DEF Marquer
<1>2. ASSUME NEW i \in Ids, Constater(i) PROVE LignesSansRetour
  BY <1>2, CloreSansRetour DEF Constater
<1>3. ~Deplacer /\ ~Renoncer
  BY DEF Deplacer, Renoncer, A, SansReprise
<1>4. QED
  BY <1>1, <1>2, <1>3, MemesLignes
  DEF ProcessusFaucheur, EtapeFaucheur, DebutCycle, LireAvantEcrire, FinFauche, BattreLocal,
      Battre, Surveiller, MarkStaleWorkersOffline, Recreer, RecreerEchoue, FinReprise,
      ListerActives, FinReconciliation, Faucher, FaucherEchoue, ChoisirRepli, LireDisparu,
      ReprendreWorker, Ps, PsEchoue, Purger, ExceptionFaucheur, CrashFaucheur,
      databaseVars

LEMMA QuotaNext ==
  ASSUME IInv, SansReprise, QuotaAttendu, [Next]_vars
  PROVE  QuotaAttendu'
<1>1. ASSUME NEW p \in WebProcs, ProcessusWeb(p) PROVE QuotaAttendu'
  <2>1. ASSUME NEW u \in Utilisateurs, NEW d \in Durees, DebutLouer(p, u, d)
        PROVE  QuotaAttendu'
    BY <2>1, DebutLouerQuota
  <2>2. CASE Enregistrer(p)
    BY <2>2, EnregistrerQuota
  <2>3. QED BY <1>1, <2>1, <2>2, WebSansCreation, WebSansRetour, SansRetourQuota
<1>2. CASE ProcessusFaucheur
  BY <1>2, FaucheurRequetes, MemesRequetes, FaucheurSansRetour, SansRetourQuota
<1>3. CASE Environnement
  <2>1. UNCHANGED <<instances, requetes>>
    BY <1>3 DEF Environnement, BattementAgent, Battre, SilenceAgent, Vieillir,
                PasserLeTemps, Tic, Exploitation, databaseVars
  <2>2. QED BY <2>1, MemesLignes, MemesRequetes, SansRetourQuota
<1>4. CASE UNCHANGED vars
  <2>1. UNCHANGED <<instances, requetes>>
    BY <1>4 DEF vars, databaseVars
  <2>2. QED BY <2>1, MemesLignes, MemesRequetes, SansRetourQuota
<1>5. CASE Serveur
  <2>1. UNCHANGED instances
    BY <1>5 DEF Serveur, DemarrerServeur, ArretServeur, Battre, databaseVars
  <2>2. RequetesSansCreation
    BY <1>5, ServeurRequetes DEF RequetesSansCreation, EnCreation, Etape, Repos
  <2>3. QED BY <2>1, <2>2, MemesLignes, SansRetourQuota
<1>6. QED BY <1>1, <1>2, <1>3, <1>4, <1>5 DEF Next

LEMMA QuotaInit == Init => QuotaAttendu
<1> SUFFICES ASSUME Init, NEW u \in Utilisateurs
             PROVE  /\ IsFiniteSet(Actives(u))
                    /\ Cardinality(Actives(u)) + Cardinality(EnCreationDe(u)) <= MargeQuota
  BY DEF QuotaAttendu
<1>1. Actives(u) = {} /\ EnCreationDe(u) = {}
  BY DEF Init, DatabaseInit, ServicesInit, LigneLibre, Eteint, Repos,
         Actives, EnCours, EnCreationDe, EnCreation, Etape
<1>2. IsFiniteSet({}) /\ Cardinality({}) = 0
  BY FS_EmptySet
<1>3. 0 <= MargeQuota
  BY CardWebProcs, ServicesAssumption DEF MargeQuota
<1>4. QED BY <1>1, <1>2, <1>3

(* Without recovery, louer lets a user have more than the quota only       *)
(* through rentals that pass the test together: one too many for each      *)
(* other process.                                                          *)
THEOREM QuotaToujoursBorne == Spec => []QuotaBorne
<1>1. Init => (~AUTO_RECOVERY => QuotaAttendu)
  BY QuotaInit
<1>2. IInvSansReprise /\ (~AUTO_RECOVERY => QuotaAttendu) /\ [Next]_vars
      => (~AUTO_RECOVERY => QuotaAttendu)'
  BY QuotaNext DEF IInvSansReprise
<1>3. (~AUTO_RECOVERY => QuotaAttendu) => QuotaBorne
  <2>1. SUFFICES ASSUME QuotaAttendu, NEW u \in Utilisateurs
                 PROVE  Cardinality(Actives(u)) <= MargeQuota
    BY DEF QuotaBorne, MargeQuota
  <2>2. EnCreationDe(u) \in SUBSET WebProcs /\ IsFiniteSet(Actives(u))
    BY <2>1 DEF EnCreationDe, EnCreation, QuotaAttendu
  <2>3. /\ Cardinality(EnCreationDe(u)) \in Nat
        /\ Cardinality(Actives(u)) \in Nat
        /\ MargeQuota \in Int
    BY <2>2, CardWebProcs, FS_CardinalityType, ServicesAssumption DEF MargeQuota
  <2>4. QED BY <2>1, <2>3 DEF QuotaAttendu
<1>4. QED BY <1>1, <1>2, <1>3, InvarianceSansReprise, PTL DEF Spec
=============================================================================
