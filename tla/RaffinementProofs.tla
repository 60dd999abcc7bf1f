-------------------------- MODULE RaffinementProofs -------------------------
(***************************************************************************)
(* Without recovery, InsaCloud implements Bail: every step of a request,   *)
(* of the Faucheur or of the environment opens one rental, loses one       *)
(* machine, closes one rental whose machine is gone, or is a stutter.      *)
(* With or without recovery, the invariant of the requests to stop, who    *)
(* destroys the machine of a running rental, and the implementation of     *)
(* BailReprise.                                                            *)
(***************************************************************************)
EXTENDS BailProofs

(* The rows of which a step changes neither the state nor the machine.     *)
Neutre(j) == EtatBail(j)' = EtatBail(j) /\ MachineBail(j)' = MachineBail(j)

LEMMA PasNeutre ==
  ASSUME \A j \in Ids : Neutre(j)
  PROVE  UNCHANGED B!bailVars
  BY DEF Neutre, B!bailVars

LEMMA PasOuvrir ==
  ASSUME NEW i \in Ids, EtatBail(i) = "aucun", EtatBail(i)' = "ouvert",
         \A j \in Ids \ {i} : Neutre(j)
  PROVE  B!BailNext
<1> DEFINE etat == [j \in Ids |-> EtatBail(j)]
           vivante == [j \in Ids |-> MachineBail(j)]
<1>1. MachineBail(i)' \in BOOLEAN
  BY DEF MachineBail
<1>2. etat[i] = "aucun"
  OBVIOUS
<1>3. etat' = [etat EXCEPT ![i] = "ouvert"]
  BY DEF Neutre
<1>4. vivante' = [vivante EXCEPT ![i] = MachineBail(i)']
  BY DEF Neutre
<1>5. B!Ouvrir(i)
  BY <1>1, <1>2, <1>3, <1>4 DEF B!Ouvrir
<1>6. QED BY <1>5 DEF B!BailNext

LEMMA PasPerdre ==
  ASSUME NEW i \in Ids, EtatBail(i) = "ouvert", EtatBail(i)' = "ouvert",
         MachineBail(i), ~MachineBail(i)',
         \A j \in Ids \ {i} : Neutre(j)
  PROVE  B!BailNext
<1> DEFINE etat == [j \in Ids |-> EtatBail(j)]
           vivante == [j \in Ids |-> MachineBail(j)]
<1>1. etat[i] = "ouvert" /\ vivante[i]
  OBVIOUS
<1>2. etat' = etat
  BY DEF Neutre
<1>3. MachineBail(i)' = FALSE
  BY DEF MachineBail
<1>4. vivante' = [vivante EXCEPT ![i] = FALSE]
  BY <1>3 DEF Neutre
<1>5. B!Perdre(i)
  BY <1>1, <1>2, <1>4 DEF B!Perdre
<1>6. QED BY <1>5 DEF B!BailNext

LEMMA PasClore ==
  ASSUME NEW i \in Ids, EtatBail(i) = "ouvert", EtatBail(i)' = "clos",
         ~MachineBail(i), MachineBail(i)' = MachineBail(i),
         \A j \in Ids \ {i} : Neutre(j)
  PROVE  B!BailNext
<1> DEFINE etat == [j \in Ids |-> EtatBail(j)]
           vivante == [j \in Ids |-> MachineBail(j)]
<1>1. etat[i] = "ouvert" /\ ~vivante[i]
  OBVIOUS
<1>2. etat' = [etat EXCEPT ![i] = "clos"]
  BY DEF Neutre
<1>3. vivante' = vivante
  BY DEF Neutre
<1>4. B!Clore(i)
  BY <1>1, <1>2, <1>3 DEF B!Clore
<1>5. QED BY <1>4 DEF B!BailNext

-----------------------------------------------------------------------------
(* The initial states.                                                     *)
LEMMA BailInitial == Init => B!BailInit
<1> SUFFICES ASSUME Init PROVE B!BailInit OBVIOUS
<1>1. \A i \in Ids : instances[i].status = "libre"
  BY DEF Init, DatabaseInit, LigneLibre
<1>2. \A i \in Ids : EtatBail(i) = "aucun" /\ MachineBail(i) = FALSE
  BY <1>1 DEF EtatBail, MachineBail
<1>3. QED BY <1>2 DEF B!BailInit

(* A step that leaves alone the rows, their dates apart, and the daemons.  *)
LEMMA PasSansEffet ==
  ASSUME UNCHANGED conteneurs,
         \A i \in Ids : /\ instances'[i].status = instances[i].status
                        /\ instances'[i].cid = instances[i].cid
  PROVE  UNCHANGED B!bailVars
<1>1. \A i \in Ids : Neutre(i)
  BY DEF Neutre, EtatBail, MachineBail, Present
<1>2. QED BY <1>1, PasNeutre

(* A docker call about one container: at most one row has it.              *)
LEMMA PasDocker ==
  ASSUME IInv, SansReprise, Usure, UNCHANGED instances, NEW c \in Conteneurs,
         \A d \in Conteneurs \ {c} : conteneurs'[d] = conteneurs[d]
  PROVE  [B!BailNext]_(B!bailVars)
<1>1. \A i \in Ids : instances[i].status # "libre" =>
        instances[i].cid \in Conteneurs /\ conteneurs[instances[i].cid].etat # "jamais"
  BY DEF IInv, Forme, FormeLignes, Reference, ReferenceExacte
<1>2. \A i \in Ids : EtatBail(i)' = EtatBail(i)
  BY DEF EtatBail
<1>3. \A i \in Ids : instances[i].cid # c => Neutre(i)
  BY <1>1, <1>2 DEF Neutre, MachineBail, Present
<1>4. CASE \A i \in Ids : Neutre(i)
  BY <1>4, PasNeutre
<1>5. ASSUME NEW i \in Ids, ~Neutre(i) PROVE B!BailNext
  <2>1. instances[i].cid = c /\ c # Rien
    BY <1>3, <1>5, RienAssumption
  <2>2. \A j \in Ids \ {i} : Neutre(j)
    BY <1>3, <2>1 DEF IInv, UnSeulDetenteur
  <2>3. MachineBail(i) /\ ~MachineBail(i)'
    BY <1>1, <1>2, <1>5 DEF Neutre, MachineBail, Present, Usure
  <2>4. EtatBail(i) = "ouvert"
    BY <2>3 DEF EtatBail, MachineBail, SansReprise, IInv, TypeOK, DatabaseTypeOK, Instance, Statuts
  <2>5. QED BY <1>2, <2>2, <2>3, <2>4, PasPerdre
<1>6. QED BY <1>4, <1>5

(* The end of a rental, or the second end of one that is closed.           *)
LEMMA PasStatut ==
  ASSUME IInv, UNCHANGED conteneurs, NEW i, Ouverte(i), ~Present(instances[i].cid),
         NEW vu, vu # "running" => ~EnCours(i),
         NEW s \in {"expired", "stopped"}, SetInstanceStatus(i, vu, s)
  PROVE  [B!BailNext]_(B!bailVars)
<1>1. i \in Ids /\ instances \in [Ids -> Instance]
  BY DEF Ouverte, IInv, TypeOK, DatabaseTypeOK
<1>2. /\ instances'[i].status = Modifie(i, vu, s) /\ instances'[i].cid = instances[i].cid
      /\ \A j \in Ids \ {i} : instances'[j] = instances[j]
  BY <1>1 DEF SetInstanceStatus, Instance
<1>2a. instances'[i].status \in {"expired", "stopped"}
  BY <1>1, <1>2 DEF Modifie, Instance, Statuts, Ouverte, EnCours
<1>3. \A j \in Ids \ {i} : Neutre(j)
  BY <1>2 DEF Neutre, EtatBail, MachineBail, Present
<1>4. EtatBail(i)' = "clos" /\ ~MachineBail(i) /\ MachineBail(i)' = MachineBail(i)
  BY <1>2, <1>2a DEF EtatBail, MachineBail, Present, Ouverte
<1>5. EtatBail(i) \in {"ouvert", "clos"}
  BY DEF EtatBail, Ouverte
<1>6. CASE EtatBail(i) = "ouvert"
  BY <1>1, <1>3, <1>4, <1>6, PasClore
<1>7. CASE EtatBail(i) = "clos"
  BY <1>3, <1>4, <1>7, PasNeutre DEF Neutre
<1>8. QED BY <1>5, <1>6, <1>7

LEMMA PasEnregistrer ==
  ASSUME IInv, NEW p \in WebProcs, Enregistrer(p)
  PROVE  B!BailNext
<1>1. PICK i \in Ids : CreateInstance(i, requetes[p].user, requetes[p].cid,
                                      requetes[p].noeud, requetes[p].duree)
  BY DEF Enregistrer
<1>2. /\ instances[i].status = "libre" /\ instances'[i].status = "running"
      /\ \A j \in Ids \ {i} : instances'[j] = instances[j]
      /\ UNCHANGED conteneurs
  BY <1>1 DEF CreateInstance, EstNouvelId, Enregistrer, dockerVars,
              IInv, TypeOK, DatabaseTypeOK
<1>3. EtatBail(i) = "aucun" /\ EtatBail(i)' = "ouvert"
  BY <1>2 DEF EtatBail
<1>4. \A j \in Ids \ {i} : Neutre(j)
  BY <1>2 DEF Neutre, EtatBail, MachineBail, Present
<1>5. QED BY <1>3, <1>4, PasOuvrir

-----------------------------------------------------------------------------
(* A docker call changes one container at most.                            *)
UnConteneur ==
  \E c \in Conteneurs : \A d \in Conteneurs \ {c} : conteneurs'[d] = conteneurs[d]

LEMMA CreerUn ==
  ASSUME DockerTypeOK, NEW c \in Conteneurs, NEW n, NEW nom,
         RunReussi(c, n, nom) \/ RunSansReponse(c, n, nom)
  PROVE  UnConteneur
  BY DEF DockerTypeOK, RunReussi, RunSansReponse, Creer, UnConteneur

LEMMA SupprimerUn ==
  ASSUME DockerTypeOK, NEW c \in Conteneurs, NEW n, RmReussi(c, n) \/ RmEchoue(c, n)
  PROVE  UnConteneur
<1>1. CASE Supprimer(c, n)
  BY <1>1 DEF DockerTypeOK, Supprimer, UnConteneur
<1>2. CASE UNCHANGED conteneurs
  BY <1>2 DEF UnConteneur
<1>3. QED BY <1>1, <1>2 DEF RmReussi, RmEchoue, RmSansReponse, RmRefuse

LEMMA PasUnConteneur ==
  ASSUME IInv, SansReprise, Usure, UNCHANGED instances, UnConteneur
  PROVE  [B!BailNext]_(B!bailVars)
<1>1. PICK c \in Conteneurs : \A d \in Conteneurs \ {c} : conteneurs'[d] = conteneurs[d]
  BY DEF UnConteneur
<1>2. QED BY <1>1, PasDocker

LEMMA PasWeb ==
  ASSUME IInv, SansReprise, NEW p \in WebProcs, ProcessusWeb(p)
  PROVE  [B!BailNext]_(B!bailVars)
<1>1. Usure /\ DockerTypeOK
  BY WebUsure DEF IInv, TypeOK
<1>2. CASE UNCHANGED <<conteneurs, instances>>
  BY <1>2, PasSansEffet
<1>3. CASE UNCHANGED instances /\ UnConteneur
  BY <1>1, <1>3, PasUnConteneur
<1>4. CASE LancerReussi(p) \/ LancerEchoue(p)
  <2>1. UNCHANGED instances /\ (UnConteneur \/ UNCHANGED conteneurs)
    BY <1>1, <1>4, CreerUn DEF LancerReussi, LancerEchoue, RunRefuse, databaseVars
  <2>2. QED BY <2>1, <1>2, <1>3
<1>5. CASE Nettoyer(p) \/ Detruire(p)
  <2>1. UNCHANGED instances /\ UnConteneur
    BY <1>1, <1>5, SupprimerUn
    DEF Nettoyer, Detruire, IInv, Forme, FormeRequetes, databaseVars
  <2>2. QED BY <2>1, <1>3
<1>6. CASE Enregistrer(p)
  BY <1>6, PasEnregistrer
<1>7. CASE Clore(p)
  <2>1. /\ Ouverte(requetes[p].inst) /\ ~Present(instances[requetes[p].inst].cid)
        /\ SetInstanceStatus(requetes[p].inst, requetes[p].vu, "stopped")
        /\ requetes[p].vu # "running" => ~EnCours(requetes[p].inst)
        /\ UNCHANGED conteneurs
    BY <1>7
    DEF Clore, IInv, Forme, FormeRequetes, SansReprise, LecturesSuivies, dockerVars
  <2>2. QED BY <2>1, PasStatut
<1>8. CASE EcrireLocation(p)
  <2>1. /\ UNCHANGED conteneurs
        /\ \A i \in Ids : /\ instances'[i].status = instances[i].status
                          /\ instances'[i].cid = instances[i].cid
    BY <1>8 DEF EcrireLocation, EcrireFin, dockerVars, IInv, TypeOK, DatabaseTypeOK, Instance
  <2>2. QED BY <2>1, PasSansEffet
<1>9. QED
  BY <1>2, <1>4, <1>5, <1>6, <1>7, <1>8
  DEF ProcessusWeb, DebutRequete, DebutLouer, DebutArreter, DebutProlonger, EtapeWeb,
      ChoisirWorker, ChercherWorker, DeclarerWorker, InsererWorker, EnregistrerEchoue,
      LireAvantClore, LireLocation, ExceptionRequete, MortWeb, dockerVars, databaseVars

LEMMA PasFaucheur ==
  ASSUME IInv, SansReprise, ProcessusFaucheur
  PROVE  [B!BailNext]_(B!bailVars)
<1>1. Usure /\ DockerTypeOK
  BY FaucheurUsure DEF IInv, TypeOK
<1>2. CASE UNCHANGED <<conteneurs, instances>>
  BY <1>2, PasSansEffet
<1>3. CASE UNCHANGED instances /\ UnConteneur
  BY <1>1, <1>3, PasUnConteneur
<1>4. ASSUME NEW i \in Ids, Faucher(i) \/ FaucherEchoue(i)
      PROVE  [B!BailNext]_(B!bailVars)
  <2>1. instances[i].cid \in Conteneurs
    BY <1>4 DEF Faucher, FaucherEchoue, Ouverte, IInv, Forme, FormeFaucheur, FormeLignes
  <2>2. UNCHANGED instances /\ UnConteneur
    BY <1>1, <1>4, <2>1, SupprimerUn DEF Faucher, FaucherEchoue, databaseVars
  <2>3. QED BY <2>2, <1>3
<1>5. ASSUME NEW c \in Conteneurs, Purger(c) PROVE [B!BailNext]_(B!bailVars)
  <2>1. UNCHANGED instances /\ UnConteneur
    BY <1>1, <1>5, SupprimerUn DEF Purger, databaseVars
  <2>2. QED BY <2>1, <1>3
<1>6. CASE Marquer
  <2>1. /\ Ouverte(faucheur.inst) /\ ~Present(instances[faucheur.inst].cid)
        /\ SetInstanceStatus(faucheur.inst, faucheur.vu, "expired") /\ UNCHANGED conteneurs
        /\ faucheur.vu # "running" => ~EnCours(faucheur.inst)
    BY <1>6
    DEF Marquer, IInv, Forme, FormeFaucheur, Expiration, A, SansReprise, LecturesSuivies,
        dockerVars
  <2>2. QED BY <2>1, PasStatut
<1>7. ASSUME NEW i \in Ids, Constater(i) PROVE [B!BailNext]_(B!bailVars)
  <2>1. /\ Ouverte(i) /\ ~Present(instances[i].cid)
        /\ SetInstanceStatus(i, faucheur.vu, "stopped") /\ UNCHANGED conteneurs
        /\ faucheur.vu # "running" => ~EnCours(i)
    BY <1>7
    DEF Constater, IInv, Forme, FormeFaucheur, SansReprise, LecturesSuivies, dockerVars
  <2>2. QED BY <2>1, PasStatut
<1>8. ~Deplacer /\ ~Renoncer /\ ~Recreer /\ ~RecreerEchoue
  BY DEF Deplacer, Renoncer, Recreer, RecreerEchoue, A, SansReprise
<1>9. QED
  BY <1>2, <1>4, <1>5, <1>6, <1>7, <1>8
  DEF ProcessusFaucheur, EtapeFaucheur, DebutCycle, LireAvantEcrire, FinFauche, BattreLocal,
      Battre, Surveiller, MarkStaleWorkersOffline, FinReprise, ListerActives,
      FinReconciliation, ChoisirRepli, LireDisparu, ReprendreWorker, Ps, PsEchoue, ExceptionFaucheur, CrashFaucheur,
      dockerVars, databaseVars

LEMMA PasEnvironnement ==
  ASSUME IInv, SansReprise, Environnement
  PROVE  [B!BailNext]_(B!bailVars)
<1>1. Usure /\ DockerTypeOK
  BY EnvironnementUsure DEF IInv, TypeOK
<1>2. UNCHANGED instances
  BY DEF Environnement, BattementAgent, Battre, SilenceAgent, Vieillir, PasserLeTemps, Tic,
         Exploitation, databaseVars
<1>3. CASE UNCHANGED conteneurs
  BY <1>2, <1>3, PasSansEffet
<1>4. ASSUME NEW c \in Conteneurs, SuppressionAdmin(c) PROVE UnConteneur
  BY <1>1, <1>4 DEF SuppressionAdmin, UnConteneur, DockerTypeOK
<1>5. UnConteneur \/ UNCHANGED conteneurs
  BY <1>4 DEF Environnement, BattementAgent, SilenceAgent, PasserLeTemps, Exploitation,
              PanneDocker, RetourDocker, dockerVars
<1>6. QED BY <1>1, <1>2, <1>3, <1>5, PasUnConteneur

(***************************************************************************)
(* Without recovery, louer, arreter, prolonger, the Faucheur and the       *)
(* faults together implement Bail, whatever their numbers.                 *)
(***************************************************************************)
THEOREM Raffinement == ASSUME ~AUTO_RECOVERY PROVE Spec => RaffineBail
<1>1. Init => B!BailInit
  BY BailInitial
<1>2. IInvSansReprise /\ [Next]_vars => [B!BailNext]_(B!bailVars)
  <2> SUFFICES ASSUME IInvSansReprise, [Next]_vars
               PROVE  [B!BailNext]_(B!bailVars)
    OBVIOUS
  <2>1. IInv /\ SansReprise
    BY DEF IInvSansReprise
  <2>2. CASE UNCHANGED vars
    BY <2>2, PasSansEffet DEF vars, dockerVars, databaseVars
  <2>3. CASE Serveur
    BY <2>3, PasSansEffet
    DEF Serveur, DemarrerServeur, ArretServeur, Battre, dockerVars, databaseVars
  <2>4. QED BY <2>1, <2>2, <2>3, PasWeb, PasFaucheur, PasEnvironnement DEF Next
<1>3. QED
  BY <1>1, <1>2, InvarianceSansReprise, PTL DEF Spec, RaffineBail, B!BailSpec

-----------------------------------------------------------------------------
(***************************************************************************)
(* With recovery.  What a step does to the containers and to those who     *)
(* hold them: a container that has a holder gets no other one.             *)
(***************************************************************************)
PasDeTransfert ==
  /\ \A i \in Ids :
       \/ instances'[i].cid = instances[i].cid
       \/ \E p \in WebProcs : Tient(p) /\ instances'[i].cid = requetes[p].cid
       \/ A("deplacer") /\ instances'[i].cid = faucheur.cid
  /\ \A p \in WebProcs : Tient(p)' =>
       \/ Tient(p) /\ requetes'[p].cid = requetes[p].cid
       \/ requetes'[p].cid \in Conteneurs /\ conteneurs[requetes'[p].cid].etat = "jamais"
  /\ A("deplacer")' =>
       \/ A("deplacer") /\ faucheur'.cid = faucheur.cid
       \/ faucheur'.cid \in Conteneurs /\ conteneurs[faucheur'.cid].etat = "jamais"

(* No request starts to stop a rental but with the machine of its row.     *)
ArretsPropres ==
  \A p \in WebProcs : Etape(p)' = "detruire" =>
    /\ requetes'[p].cid \in Conteneurs
    /\ Propre(requetes'[p].cid, requetes'[p].inst)

LEMMA ResteArretPropre ==
  ASSUME Usure, PasDeTransfert, ArretsPropres
  PROVE  ArretPropre'
<1> SUFFICES ASSUME NEW p \in WebProcs, Etape(p)' = "detruire"
             PROVE  Propre(requetes[p].cid, requetes[p].inst)'
  BY DEF ArretPropre
<1> DEFINE c == requetes'[p].cid
           i == requetes'[p].inst
<1>1. c \in Conteneurs /\ Propre(c, i)
  BY DEF ArretsPropres
<1>2. conteneurs'[c].etat # "jamais"
  BY <1>1 DEF Usure, Propre
<1>3. \A j \in Ids : instances'[j].cid = c => j = i
  BY <1>1 DEF PasDeTransfert, Propre
<1>4. \A q \in WebProcs : Tient(q)' => requetes'[q].cid # c
  BY <1>1 DEF PasDeTransfert, Propre
<1>5. A("deplacer")' => faucheur'.cid # c
  BY <1>1 DEF PasDeTransfert, Propre
<1>6. QED BY <1>2, <1>3, <1>4, <1>5 DEF Propre, A

(* A request already on its way to destroy a machine.                      *)
LEMMA ArretsDejaPropres ==
  ASSUME IInv, ArretPropre,
         \A p \in WebProcs : Etape(p)' = "detruire" =>
           Etape(p) = "detruire" /\ requetes'[p] = requetes[p]
  PROVE  ArretsPropres
  BY DEF ArretPropre, ArretsPropres, IInv, Forme, FormeRequetes

(* ... and one that has just read the row.                                 *)
LEMMA DebutArreterPropre ==
  ASSUME IInv, ArretPropre, NEW p \in WebProcs, NEW i \in Ids, DebutArreter(p, i)
  PROVE  ArretsPropres
<1>1. /\ requetes'[p].cid = instances[i].cid /\ requetes'[p].inst = i
      /\ \A q \in WebProcs \ {p} : requetes'[q] = requetes[q]
  BY DEF DebutArreter, Passer, IInv, TypeOK, ServicesTypeOK, Repos
<1>2. instances[i].cid \in Conteneurs /\ conteneurs[instances[i].cid].etat # "jamais"
  BY DEF DebutArreter, EnCours, IInv, Forme, FormeLignes, Reference, ReferenceExacte
<1>3. instances[i].cid # Rien
  BY <1>2, RienAssumption
<1>4. Propre(instances[i].cid, i)
  BY <1>2, <1>3 DEF Propre, IInv, UnSeulDetenteur
<1>5. \A q \in WebProcs \ {p} : Etape(q)' = "detruire" =>
        /\ requetes'[q].cid \in Conteneurs
        /\ Propre(requetes'[q].cid, requetes'[q].inst)
  BY <1>1 DEF ArretPropre, Etape, IInv, Forme, FormeRequetes
<1>6. QED BY <1>1, <1>2, <1>4, <1>5 DEF ArretsPropres

(* A step of request p starts to destroy only in DebutArreter, and starts  *)
(* to hold only in LancerReussi.                                           *)
LEMMA WebAvance ==
  ASSUME IInv, NEW p \in WebProcs, ProcessusWeb(p)
  PROVE  /\ \A q \in WebProcs \ {p} : requetes'[q] = requetes[q]
         /\ Etape(p)' = "detruire" => \E i \in Ids : DebutArreter(p, i)
         /\ Tient(p)' => \/ Tient(p) /\ requetes'[p].cid = requetes[p].cid
                         \/ LancerReussi(p)
<1>1. requetes \in [WebProcs -> Requete]
  BY DEF IInv, TypeOK, ServicesTypeOK
<1>2. CASE \E i \in Ids : DebutArreter(p, i)
  BY <1>1, <1>2 DEF DebutArreter, Passer, Repos, Tient, Etape
<1>3. CASE Passer(p, Repos)
  BY <1>1, <1>3 DEF Passer, Repos, Tient, Etape
<1>4. CASE \/ \E u \in Utilisateurs, d \in Durees : DebutLouer(p, u, d)
           \/ \E i \in Ids, d \in Durees : DebutProlonger(p, i, d)
  BY <1>1, <1>4 DEF DebutLouer, DebutProlonger, Passer, Repos, Tient, Etape
<1>5. CASE ChoisirWorker(p)
  <2>1. PICK n : Passer(p, [requetes[p] EXCEPT !.etape = "lancer", !.noeud = n])
    BY <1>5 DEF ChoisirWorker
  <2>2. Etape(p)' = "lancer" /\ \A q \in WebProcs \ {p} : requetes'[q] = requetes[q]
    BY <1>1, <2>1 DEF Passer, Requete, Etape
  <2>3. QED BY <2>2 DEF Tient
<1>6. CASE LancerReussi(p)
  <2>1. PICK c : Passer(p, [requetes[p] EXCEPT !.etape = "enregistrer", !.cid = c])
    BY <1>6 DEF LancerReussi
  <2>2. Etape(p)' = "enregistrer" /\ \A q \in WebProcs \ {p} : requetes'[q] = requetes[q]
    BY <1>1, <2>1 DEF Passer, Requete, Etape
  <2>3. QED BY <1>6, <2>2
<1>7. CASE ChercherWorker(p) \/ DeclarerWorker(p) \/ EnregistrerEchoue(p)
  BY <1>1, <1>7
  DEF ChercherWorker, DeclarerWorker, EnregistrerEchoue, Passer, Requete, Tient, Etape
<1>8. CASE Passer(p, [requetes[p] EXCEPT !.etape = "clore"])
  BY <1>1, <1>8 DEF Passer, Requete, Tient, Etape
<1>9. CASE LireLocation(p)
  <2>1. PICK fin : \/ Passer(p, Repos)
                   \/ Passer(p, [requetes[p] EXCEPT !.etape = "ecrire", !.fin = fin])
    BY <1>9 DEF LireLocation, Finir
  <2>2. ASSUME Passer(p, [requetes[p] EXCEPT !.etape = "ecrire", !.fin = fin])
        PROVE  Etape(p)' = "ecrire" /\ \A q \in WebProcs \ {p} : requetes'[q] = requetes[q]
    BY <1>1, <2>2 DEF Passer, Requete, Etape
  <2>3. QED BY <1>3, <2>1, <2>2 DEF Tient
<1>9a. CASE LireAvantClore(p)
  <2>1. PICK vu : Passer(p, [requetes[p] EXCEPT !.vu = vu])
    BY <1>9a DEF LireAvantClore
  <2>2. Etape(p)' = "clore" /\ \A q \in WebProcs \ {p} : requetes'[q] = requetes[q]
    BY <1>1, <1>9a, <2>1 DEF LireAvantClore, Passer, Requete, Etape
  <2>3. QED BY <2>2 DEF Tient
<1>10. QED
  BY <1>2, <1>3, <1>4, <1>5, <1>6, <1>7, <1>8, <1>9, <1>9a
  DEF ProcessusWeb, DebutRequete, EtapeWeb, LancerEchoue, Enregistrer, Nettoyer, Detruire,
      Clore, EcrireLocation, ExceptionRequete, MortWeb, Finir

LEMMA WebPropre ==
  ASSUME IInv, ArretPropre, NEW p \in WebProcs, ProcessusWeb(p)
  PROVE  ArretsPropres
<1>1. CASE \E i \in Ids : DebutArreter(p, i)
  BY <1>1, DebutArreterPropre
<1>2. CASE ~\E i \in Ids : DebutArreter(p, i)
  BY <1>2, WebAvance, ArretsDejaPropres DEF Etape
<1>3. QED BY <1>1, <1>2

LEMMA WebArretPropre ==
  ASSUME IInv, ArretPropre, NEW p \in WebProcs, ProcessusWeb(p)
  PROVE  ArretPropre'
<1>1. faucheur' = faucheur
  BY DEF ProcessusWeb
<1>2. PasDeTransfert
  <2>1. \A i \in Ids : \/ instances'[i].cid = instances[i].cid
                       \/ Tient(p) /\ instances'[i].cid = requetes[p].cid
    BY WebStatuts
  <2>2. CASE LancerReussi(p)
    <3>1. PICK c \in Conteneurs :
            /\ RunReussi(c, requetes[p].noeud, c)
            /\ Passer(p, [requetes[p] EXCEPT !.etape = "enregistrer", !.cid = c])
      BY <2>2 DEF LancerReussi
    <3>2. requetes'[p].cid = c /\ conteneurs[c].etat = "jamais"
      BY <3>1 DEF Passer, RunReussi, Creer, EstNouveau, IInv, TypeOK, ServicesTypeOK, Requete
    <3>3. \A q \in WebProcs \ {p} : requetes'[q] = requetes[q]
      BY WebAvance
    <3>4. QED BY <1>1, <2>1, <3>2, <3>3 DEF PasDeTransfert, A, Tient, Etape
  <2>3. CASE ~LancerReussi(p)
    <3>1. \A q \in WebProcs : Tient(q)' => Tient(q) /\ requetes'[q].cid = requetes[q].cid
      BY <2>3, WebAvance DEF Tient, Etape
    <3>2. QED BY <1>1, <2>1, <3>1 DEF PasDeTransfert, A
  <2>4. QED BY <2>2, <2>3
<1>3. QED BY <1>2, WebUsure, WebPropre, ResteArretPropre

-----------------------------------------------------------------------------
(* The Faucheur.                                                           *)

(* The Faucheur moves a row to the container it holds, and comes to hold   *)
(* one that it has just created.                                           *)
LEMMA FaucheurSansTransfert ==
  ASSUME IInv, ProcessusFaucheur
  PROVE  PasDeTransfert
<1>1. instances \in [Ids -> Instance] /\ faucheur \in EtatFaucheur
  BY DEF IInv, TypeOK, DatabaseTypeOK, FaucheurTypeOK
<1>2. \A p \in WebProcs : Tient(p)' => Tient(p) /\ requetes'[p].cid = requetes[p].cid
  BY FaucheurRequetes DEF Tient, Etape
<1>3. \A i \in Ids : \/ instances'[i].cid = instances[i].cid
                     \/ A("deplacer") /\ instances'[i].cid = faucheur.cid
  <2>1. CASE UNCHANGED instances
    BY <2>1
  <2>2. CASE Deplacer
    BY <1>1, <2>2 DEF Deplacer, MoveInstance, Instance
  <2>3. CASE Marquer \/ Renoncer \/ \E i \in Ids : Constater(i)
    BY <2>3, StatutWorkers DEF Marquer, Renoncer, Constater
  <2>4. QED
    BY <2>1, <2>2, <2>3
    DEF ProcessusFaucheur, EtapeFaucheur, DebutCycle, LireAvantEcrire, FinFauche, BattreLocal,
        Battre, Surveiller, MarkStaleWorkersOffline, Recreer, RecreerEchoue, FinReprise,
        ListerActives, FinReconciliation, Faucher, FaucherEchoue, ChoisirRepli, LireDisparu,
        ReprendreWorker, Ps, PsEchoue, Purger, ExceptionFaucheur, CrashFaucheur,
        databaseVars
<1>4. CASE Recreer
  <2>1. PICK c \in Conteneurs :
          /\ RunReussi(c, faucheur.repli, instances[faucheur.inst].nom)
          /\ faucheur' = [faucheur EXCEPT !.etape = "deplacer", !.cid = c]
    BY <1>4 DEF Recreer
  <2>2. faucheur'.cid = c /\ conteneurs[c].etat = "jamais"
    BY <1>1, <2>1 DEF RunReussi, Creer, EstNouveau, EtatFaucheur
  <2>3. QED BY <1>2, <1>3, <2>2 DEF PasDeTransfert
<1>4a. CASE LireAvantEcrire
  <2>1. faucheur'.etape = faucheur.etape /\ faucheur'.cid = faucheur.cid
    BY <1>1, <1>4a DEF LireAvantEcrire, EtatFaucheur
  <2>2. QED BY <1>2, <1>3, <2>1 DEF PasDeTransfert, A
<1>5. CASE ~Recreer /\ ~LireAvantEcrire
  <2>1. faucheur'.etape # "deplacer"
    <3>1. CASE RecreerEchoue \/ Deplacer \/ Renoncer
      BY <1>1, <3>1 DEF RecreerEchoue, Deplacer, Renoncer, InstanceSuivante, EtatFaucheur
    <3>2. ASSUME NEW i \in Ids, ChoisirRepli(i) PROVE faucheur'.etape # "deplacer"
      BY <1>1, <3>2 DEF ChoisirRepli, EtatFaucheur
    <3>3. ASSUME NEW n \in Noeuds, ReprendreWorker(n) PROVE faucheur'.etape # "deplacer"
      BY <1>1, <3>3 DEF ReprendreWorker, A, EtatFaucheur
    <3>4. QED BY <1>5, <3>1, <3>2, <3>3, HorsReprise
  <2>2. QED BY <1>2, <1>3, <2>1 DEF PasDeTransfert, A
<1>6. QED BY <1>4, <1>4a, <1>5

LEMMA IInvRepriseNext ==
  ASSUME IInvReprise, [Next]_vars
  PROVE  IInvReprise'
<1>1. IInv /\ RepriseOuverte /\ ArretPropre
  BY DEF IInvReprise
<1> SUFFICES ArretPropre'
  BY <1>1, NextInv, RepriseOuverteNext DEF IInvReprise
<1>2. ASSUME NEW p \in WebProcs, ProcessusWeb(p) PROVE ArretPropre'
  BY <1>1, <1>2, WebArretPropre
<1>3. CASE ProcessusFaucheur
  <2>1. requetes' = requetes
    BY <1>3, FaucheurRequetes
  <2>2. ArretsPropres
    BY <1>1, <2>1, ArretsDejaPropres DEF Etape
  <2>3. Usure /\ PasDeTransfert
    BY <1>1, <1>3, FaucheurUsure, FaucheurSansTransfert
  <2>4. QED BY <2>2, <2>3, ResteArretPropre
<1>4. ASSUME UNCHANGED faucheur, Usure,
             \A i \in Ids : instances'[i] = instances[i],
             \A p \in WebProcs :
               Etape(p)' \notin {"arret", "repos"} => requetes'[p] = requetes[p]
      PROVE  ArretPropre'
  <2>1. PasDeTransfert
    BY <1>4 DEF PasDeTransfert, Tient, Etape, A
  <2>2. ArretsPropres
    BY <1>1, <1>4, ArretsDejaPropres DEF Etape
  <2>3. QED BY <1>4, <2>1, <2>2, ResteArretPropre
<1>5. CASE Serveur
  <2>1. UNCHANGED <<faucheur, instances>> /\ Usure
    BY <1>5, StableUsure
    DEF Serveur, DemarrerServeur, ArretServeur, Battre, dockerVars, databaseVars
  <2>2. \A p \in WebProcs : Etape(p)' \in {"arret", "repos"}
    BY <1>5 DEF Serveur, DemarrerServeur, ArretServeur, Eteint, Repos, Etape
  <2>3. QED BY <1>4, <2>1, <2>2 DEF Etape
<1>6. CASE Environnement
  <2>1. UNCHANGED <<faucheur, instances, requetes>>
    BY <1>6 DEF Environnement, BattementAgent, Battre, SilenceAgent, Vieillir,
                PasserLeTemps, Tic, Exploitation, databaseVars
  <2>2. QED BY <1>1, <1>4, <1>6, <2>1, EnvironnementUsure DEF Etape
<1>7. CASE UNCHANGED vars
  BY <1>4, <1>7, StableUsure DEF vars, dockerVars, databaseVars, Etape
<1>8. QED BY <1>2, <1>3, <1>5, <1>6, <1>7 DEF Next

(***************************************************************************)
(* With recovery, the rows being recovered stay open or are stopped by     *)
(* their users, and a request that stops a rental aims at its own machine. *)
(***************************************************************************)
THEOREM InvarianceReprise == Spec => []IInvReprise
<1>1. Init => IInvReprise
  <2>1. Init => RepriseOuverte /\ ArretPropre
    BY DEF Init, ServicesInit, FaucheurInit, EnAttente, Eteint, Repos, Etape,
           RepriseOuverte, ArretPropre
  <2>2. QED BY <2>1, InitIInv DEF IInvSansReprise, IInvReprise
<1>2. IInvReprise /\ [Next]_vars => IInvReprise'
  BY IInvRepriseNext
<1>3. QED BY <1>1, <1>2, PTL DEF Spec

-----------------------------------------------------------------------------
(* Who destroys what.                                                      *)

LEMMA CreerAutres ==
  ASSUME DockerTypeOK, NEW c \in Conteneurs, NEW n, NEW nom,
         RunReussi(c, n, nom) \/ RunSansReponse(c, n, nom)
  PROVE  \A d \in Conteneurs : conteneurs[d].etat # "jamais" => conteneurs'[d] = conteneurs[d]
  BY DEF DockerTypeOK, RunReussi, RunSansReponse, Creer, EstNouveau

LEMMA SupprimerAutres ==
  ASSUME DockerTypeOK, NEW c \in Conteneurs, NEW n, RmReussi(c, n) \/ RmEchoue(c, n)
  PROVE  \A d \in Conteneurs \ {c} : conteneurs'[d] = conteneurs[d]
<1>1. CASE Supprimer(c, n)
  BY <1>1 DEF DockerTypeOK, Supprimer
<1>2. CASE UNCHANGED conteneurs
  BY <1>2
<1>3. QED BY <1>1, <1>2 DEF RmReussi, RmEchoue, RmSansReponse, RmRefuse

(* Row i runs and the step removes its machine.                            *)
Detruit(i) ==
  /\ i \in Ids /\ EnCours(i) /\ Present(instances[i].cid)
  /\ conteneurs'[instances[i].cid].etat # "present"

LEMMA DetruitForme ==
  ASSUME IInv, NEW i, Detruit(i)
  PROVE  /\ i \in Ids /\ instances[i].cid \in Conteneurs /\ instances[i].cid # Rien
         /\ conteneurs[instances[i].cid].etat = "present"
         /\ conteneurs'[instances[i].cid] # conteneurs[instances[i].cid]
  BY RienAssumption DEF Detruit, EnCours, Present, IInv, Forme, FormeLignes

LEMMA DetruitParRequete ==
  ASSUME IInvReprise, NEW p \in WebProcs, ProcessusWeb(p), NEW i, Detruit(i)
  PROVE  Etape(p) = "detruire" /\ requetes[p].inst = i
<1> DEFINE c == instances[i].cid
<1>1. IInv /\ DockerTypeOK
  BY DEF IInvReprise, IInv, TypeOK
<1>2. /\ i \in Ids /\ c \in Conteneurs
      /\ conteneurs[c].etat # "jamais" /\ conteneurs'[c] # conteneurs[c]
  BY <1>1, DetruitForme
<1>3. ~LancerReussi(p) /\ ~LancerEchoue(p)
  BY <1>1, <1>2, CreerAutres DEF LancerReussi, LancerEchoue, RunRefuse
<1>4. ASSUME Nettoyer(p) PROVE FALSE
  <2>1. requetes[p].cid \in Conteneurs /\ Tient(p)
    BY <1>1, <1>4 DEF Nettoyer, Tient, IInv, Forme, FormeRequetes
  <2>2. requetes[p].cid = c
    BY <1>1, <1>2, <1>4, <2>1, SupprimerAutres DEF Nettoyer
  <2>3. QED BY <1>1, <1>2, <2>1, <2>2 DEF IInv, UnSeulDetenteur
<1>5. CASE Detruire(p)
  <2>1. Etape(p) = "detruire" /\ requetes[p].cid \in Conteneurs
    BY <1>1, <1>5 DEF Detruire, IInv, Forme, FormeRequetes
  <2>2. requetes[p].cid = c
    BY <1>1, <1>2, <1>5, <2>1, SupprimerAutres DEF Detruire
  <2>3. QED BY <1>2, <2>1, <2>2 DEF IInvReprise, ArretPropre, Propre
<1>6. conteneurs' # conteneurs
  BY <1>2
<1>7. QED
  BY <1>3, <1>4, <1>5, <1>6
  DEF ProcessusWeb, DebutRequete, DebutLouer, DebutArreter, DebutProlonger, EtapeWeb,
      ChoisirWorker, Enregistrer, ChercherWorker, DeclarerWorker, EnregistrerEchoue,
      LireAvantClore, Clore, LireLocation, EcrireLocation, ExceptionRequete, MortWeb, dockerVars

LEMMA DetruitParFaucheur ==
  ASSUME IInv, PurgeEpargneLesConnues, ProcessusFaucheur, NEW i, Detruit(i)
  PROVE  \/ A("faucher") /\ i \in faucheur.liste
         \/ /\ A("purger")
            /\ Agents \cup Enregistres \subseteq WORKERS => i \notin faucheur.liste
<1> DEFINE c == instances[i].cid
<1>1. DockerTypeOK
  BY DEF IInv, TypeOK
<1>2. /\ i \in Ids /\ c \in Conteneurs /\ c # Rien
      /\ conteneurs[c].etat # "jamais" /\ conteneurs'[c] # conteneurs[c]
  BY DetruitForme
<1>3. ~Recreer /\ ~RecreerEchoue
  BY <1>1, <1>2, CreerAutres DEF Recreer, RecreerEchoue, RunRefuse
<1>4. ASSUME NEW j \in Ids, Faucher(j) \/ FaucherEchoue(j)
      PROVE  A("faucher") /\ i \in faucheur.liste
  <2>1. A("faucher") /\ j \in faucheur.liste /\ instances[j].cid \in Conteneurs
    BY <1>4 DEF Faucher, FaucherEchoue, Ouverte, IInv, Forme, FormeFaucheur, FormeLignes
  <2>2. instances[j].cid = c
    BY <1>1, <1>2, <1>4, <2>1, SupprimerAutres DEF Faucher, FaucherEchoue
  <2>3. i = j
    BY <1>2, <2>2 DEF IInv, UnSeulDetenteur
  <2>4. QED BY <2>1, <2>3
<1>5. ASSUME NEW d \in Conteneurs, Purger(d)
      PROVE  /\ A("purger")
             /\ Agents \cup Enregistres \subseteq WORKERS => i \notin faucheur.liste
  <2>1. A("purger") /\ d \in faucheur.orphelins
    BY <1>5 DEF Purger
  <2>2. d = c
    BY <1>1, <1>2, <1>5, SupprimerAutres DEF Purger
  <2>3. QED BY <2>1, <2>2 DEF PurgeEpargneLesConnues
<1>6. conteneurs' # conteneurs
  BY <1>2
<1>7. QED
  BY <1>3, <1>4, <1>5, <1>6
  DEF ProcessusFaucheur, EtapeFaucheur, DebutCycle, LireAvantEcrire, Marquer, FinFauche,
      BattreLocal, Surveiller, Deplacer, Renoncer, FinReprise, ListerActives,
      FinReconciliation, ChoisirRepli, LireDisparu, Constater, ReprendreWorker, Ps, PsEchoue, ExceptionFaucheur,
      CrashFaucheur, dockerVars

(***************************************************************************)
(* No machine of a running rental is ever destroyed by the request of      *)
(* another rental, by a clean-up, by a recovery, or by a purge that had    *)
(* read its row: whoever destroys it had a reason to.                      *)
(***************************************************************************)
THEOREM DestructionsMotivees == Spec => DestructionMotivee
<1>1. ASSUME IInvReprise, PurgeEpargneLesConnues, [Next]_vars, NEW i \in Ids, Detruit(i)
      PROVE  Motif(i)
  <2>1. IInv
    BY <1>1 DEF IInvReprise
  <2>2. conteneurs' # conteneurs
    BY <1>1, <2>1, DetruitForme
  <2>3. ASSUME NEW p \in WebProcs, ProcessusWeb(p) PROVE Motif(i)
    BY <1>1, <2>3, DetruitParRequete DEF Motif
  <2>4. CASE ProcessusFaucheur
    BY <1>1, <2>1, <2>4, DetruitParFaucheur DEF Motif
  <2>5. CASE Environnement
    <3>1. UNCHANGED <<requetes, faucheur>>
      BY <2>2, <2>5 DEF Environnement, BattementAgent, SilenceAgent, PasserLeTemps,
                        Exploitation, dockerVars
    <3>2. QED BY <3>1 DEF Motif
  <2>6. ~Serveur
    BY <2>2 DEF Serveur, DemarrerServeur, ArretServeur, dockerVars
  <2>7. QED BY <1>1, <2>2, <2>3, <2>4, <2>5, <2>6 DEF Next, vars, dockerVars
<1>2. IInvReprise /\ PurgeEpargneLesConnues /\ [Next]_vars =>
        [\A i \in Ids : /\ EnCours(i) /\ Present(instances[i].cid)
                        /\ conteneurs'[instances[i].cid].etat # "present"
                        => Motif(i)]_vars
  BY <1>1 DEF Detruit
<1>3. QED BY <1>2, InvarianceReprise, PurgeSure, PTL DEF Spec, DestructionMotivee

-----------------------------------------------------------------------------
(***************************************************************************)
(* With or without recovery, InsaCloud implements BailReprise.             *)
(***************************************************************************)
MemeMachine(j) ==
  /\ instances'[j].cid = instances[j].cid
  /\ MachineBail(j)' = MachineBail(j)

NeutreReprise(j) == EtatReprise(j)' = EtatReprise(j) /\ MemeMachine(j)

LEMMA PasNeutreReprise ==
  ASSUME \A j \in Ids : NeutreReprise(j)
  PROVE  UNCHANGED R!repriseVars
  BY DEF NeutreReprise, MemeMachine, R!repriseVars

(* A rental opened, or whose machine is replaced; one that was stopped in  *)
(* the middle of its recovery may stay closed.                             *)
LEMMA PasEquiper ==
  ASSUME NEW i \in Ids,
         \/ EtatReprise(i) \in {"aucun", "ouvert", "suspendu"} /\ EtatReprise(i)' = "ouvert"
         \/ EtatReprise(i) = "suspendu" /\ EtatReprise(i)' = "arrete",
         instances'[i].cid \in Conteneurs,
         \A j \in Ids : instances[j].cid # instances'[i].cid,
         \A j \in Ids \ {i} : NeutreReprise(j)
  PROVE  R!BailRepriseNext
<1> DEFINE bail == [j \in Ids |-> EtatReprise(j)]
           machine == [j \in Ids |-> instances[j].cid]
           vivante == [j \in Ids |-> MachineBail(j)]
<1>1. bail' = [bail EXCEPT ![i] = EtatReprise(i)']
  BY DEF NeutreReprise
<1>2. machine' = [machine EXCEPT ![i] = instances'[i].cid]
  <2> DEFINE m == instances'[i].cid
  <2>1. \A j \in Ids : machine'[j] = IF j = i THEN m ELSE machine[j]
    BY DEF NeutreReprise, MemeMachine
  <2>2. machine' = [j \in Ids |-> machine'[j]]
    OBVIOUS
  <2>3. [machine EXCEPT ![i] = m] = [j \in Ids |-> IF j = i THEN m ELSE machine[j]]
    OBVIOUS
  <2>4. QED BY <2>1, <2>2, <2>3
<1>3. MachineBail(i)' \in BOOLEAN
  BY DEF MachineBail
<1>4. vivante' = [vivante EXCEPT ![i] = MachineBail(i)']
  BY DEF NeutreReprise, MemeMachine
<1>5. \A j \in Ids : machine[j] # instances'[i].cid
  OBVIOUS
<1>6. R!Equiper(i)
  BY <1>2, <1>3, <1>4, <1>5 DEF R!Equiper
<1>7. bail[i] = EtatReprise(i)
  OBVIOUS
<1>8. R!Ouvrir(i) \/ R!Remplacer(i)
  BY <1>1, <1>6, <1>7 DEF R!Ouvrir, R!Remplacer, R!Passer
<1>9. QED BY <1>8 DEF R!BailRepriseNext

LEMMA PasPerdreReprise ==
  ASSUME NEW i \in Ids, EtatReprise(i)' = EtatReprise(i),
         instances'[i].cid = instances[i].cid, MachineBail(i), ~MachineBail(i)',
         \A j \in Ids \ {i} : NeutreReprise(j)
  PROVE  R!BailRepriseNext
<1> DEFINE bail == [j \in Ids |-> EtatReprise(j)]
           machine == [j \in Ids |-> instances[j].cid]
           vivante == [j \in Ids |-> MachineBail(j)]
<1>1. bail' = bail /\ machine' = machine
  BY DEF NeutreReprise, MemeMachine
<1>2. vivante[i]
  OBVIOUS
<1>3. MachineBail(i)' = FALSE
  BY DEF MachineBail
<1>4. vivante' = [vivante EXCEPT ![i] = FALSE]
  BY <1>3 DEF NeutreReprise, MemeMachine
<1>5. R!Perdre(i)
  BY <1>1, <1>2, <1>4 DEF R!Perdre
<1>6. QED BY <1>5 DEF R!BailRepriseNext

(* The transitions of one rental that leave the machines alone.            *)
Transition(i) ==
  \/ /\ EtatReprise(i) \in {"ouvert", "arrete"} /\ ~MachineBail(i)
     /\ EtatReprise(i)' = "expire"
  \/ EtatReprise(i) \in {"ouvert", "expire", "suspendu"} /\ EtatReprise(i)' = "arrete"
  \/ EtatReprise(i) = "ouvert" /\ EtatReprise(i)' = "suspendu"
  \/ EtatReprise(i)' = EtatReprise(i)

LEMMA PasTransition ==
  ASSUME NEW i \in Ids, Transition(i), MemeMachine(i),
         \A j \in Ids \ {i} : NeutreReprise(j)
  PROVE  [R!BailRepriseNext]_(R!repriseVars)
<1> DEFINE bail == [j \in Ids |-> EtatReprise(j)]
           machine == [j \in Ids |-> instances[j].cid]
           vivante == [j \in Ids |-> MachineBail(j)]
<1>1. machine' = machine /\ vivante' = vivante
  BY DEF NeutreReprise, MemeMachine
<1>2. bail' = [bail EXCEPT ![i] = EtatReprise(i)']
  BY DEF NeutreReprise
<1>3. bail[i] = EtatReprise(i) /\ vivante[i] = MachineBail(i)
  OBVIOUS
<1>4. CASE EtatReprise(i)' = EtatReprise(i)
  BY <1>4, PasNeutreReprise DEF NeutreReprise
<1>5. CASE /\ EtatReprise(i) \in {"ouvert", "arrete"} /\ ~MachineBail(i)
           /\ EtatReprise(i)' = "expire"
  <2>1. R!Expirer(i)
    BY <1>1, <1>2, <1>3, <1>5 DEF R!Expirer, R!Passer
  <2>2. QED BY <2>1 DEF R!BailRepriseNext
<1>6. CASE EtatReprise(i) \in {"ouvert", "expire"} /\ EtatReprise(i)' = "arrete"
  <2>1. R!Arreter(i)
    BY <1>1, <1>2, <1>3, <1>6 DEF R!Arreter, R!Passer
  <2>2. QED BY <2>1 DEF R!BailRepriseNext
<1>7. CASE EtatReprise(i) = "suspendu" /\ EtatReprise(i)' = "arrete"
  <2>1. bail' = [j \in Ids |-> IF j \in {i} THEN "arrete" ELSE bail[j]]
    BY <1>2, <1>7
  <2>2. R!Abandonner({i})
    BY <1>1, <1>3, <1>7, <2>1 DEF R!Abandonner
  <2>3. QED BY <2>2 DEF R!BailRepriseNext
<1>8. CASE EtatReprise(i) = "ouvert" /\ EtatReprise(i)' = "suspendu"
  <2>1. R!Suspendre(i)
    BY <1>1, <1>2, <1>3, <1>8 DEF R!Suspendre, R!Passer
  <2>2. QED BY <2>1 DEF R!BailRepriseNext
<1>9. QED BY <1>4, <1>5, <1>6, <1>7, <1>8 DEF Transition

(* A recovery that is cut short.                                           *)
LEMMA PasAbandonner ==
  ASSUME \A j \in Ids : MemeMachine(j),
         \A j \in Ids : \/ EtatReprise(j)' = EtatReprise(j) /\ EtatReprise(j) # "suspendu"
                        \/ EtatReprise(j) = "suspendu" /\ EtatReprise(j)' = "arrete"
  PROVE  [R!BailRepriseNext]_(R!repriseVars)
<1> DEFINE bail == [j \in Ids |-> EtatReprise(j)]
           machine == [j \in Ids |-> instances[j].cid]
           vivante == [j \in Ids |-> MachineBail(j)]
           S == {j \in Ids : EtatReprise(j) = "suspendu"}
<1>1. machine' = machine /\ vivante' = vivante
  BY DEF MemeMachine
<1>2. bail' = [j \in Ids |-> IF j \in S THEN "arrete" ELSE bail[j]]
  OBVIOUS
<1>3. CASE S = {}
  BY <1>3, PasNeutreReprise DEF NeutreReprise
<1>4. CASE S # {}
  <2>1. \A j \in S : bail[j] = "suspendu"
    OBVIOUS
  <2>2. R!Abandonner(S)
    BY <1>1, <1>2, <1>4, <2>1 DEF R!Abandonner
  <2>3. QED BY <2>2 DEF R!BailRepriseNext
<1>5. QED BY <1>3, <1>4

(* The recovery only matters to the rows that are stopped.                 *)
MemeReprise(j) ==
  \/ instances[j].status \in {"libre", "running", "expired"}
  \/ EnReprise(j)' <=> EnReprise(j)

LEMMA EtatInchange ==
  ASSUME NEW j, instances'[j].status = instances[j].status, MemeReprise(j)
  PROVE  EtatReprise(j)' = EtatReprise(j)
<1>1. CASE instances[j].status \in {"libre", "running", "expired"}
  BY <1>1 DEF EtatReprise
<1>2. CASE EnReprise(j)' <=> EnReprise(j)
  BY <1>2 DEF EtatReprise
<1>3. QED BY <1>1, <1>2 DEF MemeReprise

LEMMA PasSansEffetReprise ==
  ASSUME UNCHANGED conteneurs,
         \A i \in Ids : /\ instances'[i].status = instances[i].status
                        /\ instances'[i].cid = instances[i].cid
                        /\ MemeReprise(i)
  PROVE  UNCHANGED R!repriseVars
<1>1. \A i \in Ids : NeutreReprise(i)
  BY EtatInchange DEF NeutreReprise, MemeMachine, MachineBail, Present
<1>2. QED BY <1>1, PasNeutreReprise

(* A docker call: at most one row has the container it changes.            *)
LEMMA PasDockerReprise ==
  ASSUME IInv, Usure, UNCHANGED instances, UnConteneur, \A i \in Ids : MemeReprise(i)
  PROVE  [R!BailRepriseNext]_(R!repriseVars)
<1>1. PICK c \in Conteneurs : \A d \in Conteneurs \ {c} : conteneurs'[d] = conteneurs[d]
  BY DEF UnConteneur
<1>2. \A i \in Ids : instances[i].status # "libre" =>
        instances[i].cid \in Conteneurs /\ conteneurs[instances[i].cid].etat # "jamais"
  BY DEF IInv, Forme, FormeLignes, Reference, ReferenceExacte
<1>3. \A i \in Ids : EtatReprise(i)' = EtatReprise(i)
  BY EtatInchange
<1>4. \A i \in Ids : instances[i].cid # c => NeutreReprise(i)
  BY <1>1, <1>2, <1>3 DEF NeutreReprise, MemeMachine, MachineBail, Present
<1>5. CASE \A i \in Ids : NeutreReprise(i)
  BY <1>5, PasNeutreReprise
<1>6. ASSUME NEW i \in Ids, ~NeutreReprise(i) PROVE R!BailRepriseNext
  <2>1. instances[i].cid = c /\ c # Rien
    BY <1>4, <1>6, RienAssumption
  <2>2. \A j \in Ids \ {i} : NeutreReprise(j)
    BY <1>4, <2>1 DEF IInv, UnSeulDetenteur
  <2>3. MachineBail(i) /\ ~MachineBail(i)'
    BY <1>2, <1>3, <1>6 DEF NeutreReprise, MemeMachine, MachineBail, Present, Usure
  <2>4. QED BY <1>3, <2>2, <2>3, PasPerdreReprise
<1>7. QED BY <1>5, <1>6

(* A status is written on row i, unless it had been read there.            *)
LEMMA PasStatutReprise ==
  ASSUME IInv, RepriseOuverte, UNCHANGED conteneurs, NEW i, Ouverte(i), NEW vu,
         NEW s \in {"expired", "stopped"}, SetInstanceStatus(i, vu, s),
         s = "expired" => ~Present(instances[i].cid) /\ ~EnReprise(i),
         EnReprise(i)' => EnReprise(i),
         \A j \in Ids \ {i} : MemeReprise(j)
  PROVE  [R!BailRepriseNext]_(R!repriseVars)
<1>1. i \in Ids /\ instances \in [Ids -> Instance]
  BY DEF Ouverte, IInv, TypeOK, DatabaseTypeOK
<1>2. /\ instances'[i].status = Modifie(i, vu, s) /\ instances'[i].cid = instances[i].cid
      /\ \A j \in Ids \ {i} : instances'[j] = instances[j]
  BY <1>1 DEF SetInstanceStatus, Instance
<1>3. \A j \in Ids \ {i} : NeutreReprise(j)
  BY <1>2, EtatInchange DEF NeutreReprise, MemeMachine, MachineBail, Present
<1>4. MemeMachine(i)
  <2>1. instances'[i].status # "libre" /\ instances[i].status # "libre"
    BY <1>2 DEF Modifie, Ouverte
  <2>2. QED BY <1>2, <2>1 DEF MemeMachine, MachineBail, Present
<1>5. instances[i].status \in {"running", "expired", "stopped"}
  BY <1>1 DEF Ouverte, Instance, Statuts
<1>5a. CASE vu = s
  <2>1. instances'[i].status = instances[i].status
    BY <1>2, <1>5a DEF Modifie
  <2>2. \/ EtatReprise(i)' = EtatReprise(i)
        \/ EtatReprise(i) = "suspendu" /\ EtatReprise(i)' = "arrete"
    BY <2>1 DEF EtatReprise
  <2>3. QED BY <1>1, <1>3, <1>4, <2>2, PasTransition DEF Transition
<1>6. CASE vu # s /\ s = "expired"
  <2>1. EtatReprise(i)' = "expire" /\ ~MachineBail(i)
    BY <1>2, <1>6 DEF EtatReprise, MachineBail, Modifie
  <2>2. EtatReprise(i) \in {"ouvert", "expire", "arrete"}
    BY <1>5, <1>6 DEF EtatReprise
  <2>3. QED BY <1>1, <1>3, <1>4, <2>1, <2>2, PasTransition DEF Transition
<1>7. CASE vu # s /\ s = "stopped"
  <2>1. EtatReprise(i)' = IF EnReprise(i)' THEN "suspendu" ELSE "arrete"
    BY <1>2, <1>7 DEF EtatReprise, Modifie
  <2>2. EnReprise(i) => instances[i].status \in {"running", "stopped"}
    BY DEF EnReprise, RepriseOuverte
  <2>3. EtatReprise(i) = CASE instances[i].status = "running" -> "ouvert"
                           [] instances[i].status = "expired" -> "expire"
                           [] OTHER -> IF EnReprise(i) THEN "suspendu" ELSE "arrete"
    BY <1>5 DEF EtatReprise
  <2>4. Transition(i)
    BY <1>5, <2>1, <2>2, <2>3 DEF Transition
  <2>5. QED BY <1>1, <1>3, <1>4, <2>4, PasTransition
<1>8. QED BY <1>5a, <1>6, <1>7

LEMMA BailRepriseInitial == Init => R!BailRepriseInit
<1> SUFFICES ASSUME Init PROVE R!BailRepriseInit OBVIOUS
<1>1. \A i \in Ids : instances[i].status = "libre" /\ instances[i].cid = Rien
  BY DEF Init, DatabaseInit, LigneLibre
<1>2. \A i \in Ids : EtatReprise(i) = "aucun" /\ MachineBail(i) = FALSE
  BY <1>1 DEF EtatReprise, MachineBail
<1>3. QED BY <1>1, <1>2 DEF R!BailRepriseInit

LEMMA EnregistrerReprise ==
  ASSUME IInv, NEW p \in WebProcs, Enregistrer(p), UNCHANGED faucheur
  PROVE  R!BailRepriseNext
<1>1. PICK i \in Ids : CreateInstance(i, requetes[p].user, requetes[p].cid,
                                      requetes[p].noeud, requetes[p].duree)
  BY DEF Enregistrer
<1>2. /\ instances[i].status = "libre" /\ instances'[i].status = "running"
      /\ instances'[i].cid = requetes[p].cid
      /\ \A j \in Ids \ {i} : instances'[j] = instances[j]
      /\ UNCHANGED conteneurs
  BY <1>1 DEF CreateInstance, EstNouvelId, Enregistrer, dockerVars,
              IInv, TypeOK, DatabaseTypeOK
<1>3. Tient(p) /\ requetes[p].cid \in Conteneurs
  BY DEF Enregistrer, Tient, IInv, Forme, FormeRequetes
<1>4. \A j \in Ids : instances[j].cid # instances'[i].cid
  BY <1>2, <1>3 DEF IInv, UnSeulDetenteur
<1>5. EtatReprise(i) = "aucun" /\ EtatReprise(i)' = "ouvert"
  BY <1>2 DEF EtatReprise
<1>6. \A j \in Ids : MemeReprise(j)
  BY DEF MemeReprise, EnReprise
<1>7. \A j \in Ids \ {i} : NeutreReprise(j)
  BY <1>2, <1>6, EtatInchange DEF NeutreReprise, MemeMachine, MachineBail, Present
<1>8. QED BY <1>2, <1>3, <1>4, <1>5, <1>7, PasEquiper

LEMMA WebReprise ==
  ASSUME IInv, RepriseOuverte, NEW p \in WebProcs, ProcessusWeb(p)
  PROVE  [R!BailRepriseNext]_(R!repriseVars)
<1>1. Usure /\ DockerTypeOK
  BY WebUsure DEF IInv, TypeOK
<1>2. UNCHANGED faucheur /\ \A i \in Ids : MemeReprise(i)
  BY DEF ProcessusWeb, MemeReprise, EnReprise
<1>3. CASE UNCHANGED <<conteneurs, instances>>
  BY <1>2, <1>3, PasSansEffetReprise
<1>4. CASE UNCHANGED instances /\ UnConteneur
  BY <1>1, <1>2, <1>4, PasDockerReprise
<1>5. CASE LancerReussi(p) \/ LancerEchoue(p)
  <2>1. UNCHANGED instances /\ (UnConteneur \/ UNCHANGED conteneurs)
    BY <1>1, <1>5, CreerUn DEF LancerReussi, LancerEchoue, RunRefuse, databaseVars
  <2>2. QED BY <2>1, <1>3, <1>4
<1>6. CASE Nettoyer(p) \/ Detruire(p)
  <2>1. UNCHANGED instances /\ UnConteneur
    BY <1>1, <1>6, SupprimerUn
    DEF Nettoyer, Detruire, IInv, Forme, FormeRequetes, databaseVars
  <2>2. QED BY <2>1, <1>4
<1>7. CASE Enregistrer(p)
  BY <1>2, <1>7, EnregistrerReprise
<1>8. CASE Clore(p)
  <2>1. PICK i : /\ Ouverte(i) /\ SetInstanceStatus(i, requetes[p].vu, "stopped")
                 /\ UNCHANGED conteneurs
    BY <1>8 DEF Clore, IInv, Forme, FormeRequetes, dockerVars
  <2>2. i \in Ids /\ (EnReprise(i)' => EnReprise(i))
    BY <1>2, <2>1 DEF EnReprise, Ouverte
  <2>3. QED BY <1>2, <2>1, <2>2, PasStatutReprise
<1>9. CASE EcrireLocation(p)
  <2>1. /\ UNCHANGED conteneurs
        /\ \A i \in Ids : /\ instances'[i].status = instances[i].status
                          /\ instances'[i].cid = instances[i].cid
    BY <1>9 DEF EcrireLocation, EcrireFin, dockerVars, IInv, TypeOK, DatabaseTypeOK, Instance
  <2>2. QED BY <1>2, <2>1, PasSansEffetReprise
<1>10. QED
  BY <1>3, <1>5, <1>6, <1>7, <1>8, <1>9
  DEF ProcessusWeb, DebutRequete, DebutLouer, DebutArreter, DebutProlonger, EtapeWeb,
      ChoisirWorker, ChercherWorker, DeclarerWorker, InsererWorker, EnregistrerEchoue,
      LireAvantClore, LireLocation, ExceptionRequete, MortWeb, dockerVars, databaseVars

LEMMA DeplacerReprise ==
  ASSUME IInv, RepriseOuverte, Deplacer
  PROVE  R!BailRepriseNext
<1>1. instances \in [Ids -> Instance] /\ faucheur \in EtatFaucheur
  BY DEF IInv, TypeOK, DatabaseTypeOK, FaucheurTypeOK
<1>2. PICK i \in faucheur.liste :
        /\ i = faucheur.inst /\ i \in Ids /\ instances[i].status \in {"running", "stopped"}
  BY <1>1 DEF Deplacer, A, RepriseOuverte, EtatFaucheur
<1>3. /\ instances'[i].status \in {"running", instances[i].status}
      /\ instances'[i].cid = faucheur.cid
      /\ \A j \in Ids \ {i} : instances'[j] = instances[j]
      /\ UNCHANGED conteneurs
  BY <1>1, <1>2 DEF Deplacer, MoveInstance, Modifie, Instance, dockerVars
<1>4. faucheur.cid \in Conteneurs /\ \A j \in Ids : instances[j].cid # faucheur.cid
  BY DEF Deplacer, A, IInv, Forme, FormeFaucheur, UnSeulDetenteur
<1>5. /\ faucheur'.liste = faucheur.liste \ {i} /\ faucheur'.etape = "replier"
      /\ faucheur.etape = "deplacer"
  BY <1>1, <1>2 DEF Deplacer, InstanceSuivante, A, EtatFaucheur
<1>6. \/ EtatReprise(i) \in {"ouvert", "suspendu"} /\ EtatReprise(i)' = "ouvert"
      \/ EtatReprise(i) = "suspendu" /\ EtatReprise(i)' = "arrete"
  <2>1. EnReprise(i) /\ ~EnReprise(i)'
    BY <1>2, <1>5 DEF EnReprise
  <2>2. EtatReprise(i) = IF instances[i].status = "running" THEN "ouvert" ELSE "suspendu"
    BY <1>2, <2>1 DEF EtatReprise
  <2>3. EtatReprise(i)' = IF instances'[i].status = "running" THEN "ouvert" ELSE "arrete"
    BY <1>2, <1>3, <2>1 DEF EtatReprise
  <2>4. QED BY <1>2, <1>3, <2>2, <2>3
<1>7. \A j \in Ids \ {i} : MemeReprise(j)
  BY <1>5 DEF MemeReprise, EnReprise
<1>8. \A j \in Ids \ {i} : NeutreReprise(j)
  BY <1>3, <1>7, EtatInchange DEF NeutreReprise, MemeMachine, MachineBail, Present
<1>9. QED BY <1>2, <1>3, <1>4, <1>6, <1>8, PasEquiper

LEMMA RenoncerReprise ==
  ASSUME IInv, RepriseOuverte, Renoncer
  PROVE  [R!BailRepriseNext]_(R!repriseVars)
<1>1. faucheur \in EtatFaucheur
  BY DEF IInv, TypeOK, FaucheurTypeOK
<1>2. PICK i : /\ i = faucheur.inst /\ Ouverte(i)
               /\ SetInstanceStatus(i, faucheur.vu, "stopped") /\ UNCHANGED conteneurs
  BY DEF Renoncer, A, IInv, Forme, FormeFaucheur, dockerVars
<1>3. /\ faucheur'.liste = faucheur.liste \ {i} /\ faucheur'.etape = "replier"
      /\ faucheur.etape = "renoncer"
  BY <1>1, <1>2 DEF Renoncer, InstanceSuivante, A, EtatFaucheur
<1>4. ~EnReprise(i)' /\ \A j \in Ids \ {i} : MemeReprise(j)
  BY <1>3 DEF MemeReprise, EnReprise
<1>5. QED BY <1>2, <1>4, PasStatutReprise

LEMMA InterruptionReprise ==
  ASSUME IInv, RepriseOuverte, ExceptionFaucheur \/ CrashFaucheur
  PROVE  [R!BailRepriseNext]_(R!repriseVars)
<1>1. UNCHANGED <<conteneurs, instances>> /\ faucheur'.etape = "attente"
  BY DEF ExceptionFaucheur, CrashFaucheur, EnAttente, databaseVars
<1>2. \A j \in Ids : ~EnReprise(j)'
  BY <1>1 DEF EnReprise
<1>3. \A j \in Ids : MemeMachine(j)
  BY <1>1 DEF MemeMachine, MachineBail, Present
<1>4. ASSUME NEW j \in Ids
      PROVE  \/ EtatReprise(j)' = EtatReprise(j) /\ EtatReprise(j) # "suspendu"
             \/ EtatReprise(j) = "suspendu" /\ EtatReprise(j)' = "arrete"
  <2>1. instances[j].status \in {"libre", "running", "expired", "stopped"}
    BY DEF IInv, TypeOK, DatabaseTypeOK, Instance, Statuts
  <2>2. instances'[j].status = instances[j].status /\ ~EnReprise(j)'
    BY <1>1, <1>2
  <2>3. CASE instances[j].status # "stopped"
    BY <2>1, <2>2, <2>3 DEF EtatReprise
  <2>4. CASE instances[j].status = "stopped"
    BY <2>2, <2>4 DEF EtatReprise
  <2>5. QED BY <2>3, <2>4
<1>5. QED BY <1>3, <1>4, PasAbandonner

LEMMA FaucheurReprise ==
  ASSUME IInv, RepriseOuverte, ProcessusFaucheur
  PROVE  [R!BailRepriseNext]_(R!repriseVars)
<1>1. Usure /\ DockerTypeOK /\ faucheur \in EtatFaucheur
  BY FaucheurUsure DEF IInv, TypeOK, FaucheurTypeOK
<1>2. ASSUME UNCHANGED <<conteneurs, instances>>, \A j \in Ids : MemeReprise(j)
      PROVE  [R!BailRepriseNext]_(R!repriseVars)
  BY <1>2, PasSansEffetReprise
<1>3. ASSUME UNCHANGED instances, UnConteneur, \A j \in Ids : MemeReprise(j)
      PROVE  [R!BailRepriseNext]_(R!repriseVars)
  BY <1>1, <1>3, PasDockerReprise
<1>4. CASE /\ \A n \in Noeuds : ~ReprendreWorker(n)
           /\ \A i \in Ids : ~ChoisirRepli(i)
           /\ ~Recreer /\ ~RecreerEchoue /\ ~Deplacer /\ ~Renoncer
           /\ ~ExceptionFaucheur /\ ~CrashFaucheur
           /\ LireAvantEcrire => A("marquer")
  <2>1. \A j \in Ids : ~EnReprise(j)'
    BY <1>4, HorsReprise DEF EnReprise
  <2>2. \A j \in Ids : ~EnReprise(j)
    BY <1>4
    DEF ProcessusFaucheur, EtapeFaucheur, DebutCycle, LireAvantEcrire, Marquer, FinFauche,
        BattreLocal, Surveiller, FinReprise, ListerActives, FinReconciliation, Faucher,
        FaucherEchoue, LireDisparu, Constater, Ps, PsEchoue, Purger, A, EnReprise
  <2>3. \A j \in Ids : MemeReprise(j)
    BY <2>1, <2>2 DEF MemeReprise
  <2>4. CASE UNCHANGED <<conteneurs, instances>>
    BY <1>2, <2>3, <2>4
  <2>5. ASSUME NEW i \in Ids, Faucher(i) \/ FaucherEchoue(i)
        PROVE  UNCHANGED instances /\ UnConteneur
    <3>1. instances[i].cid \in Conteneurs
      BY <2>5 DEF Faucher, FaucherEchoue, Ouverte, IInv, Forme, FormeFaucheur, FormeLignes
    <3>2. QED BY <1>1, <2>5, <3>1, SupprimerUn DEF Faucher, FaucherEchoue, databaseVars
  <2>6. ASSUME NEW c \in Conteneurs, Purger(c) PROVE UNCHANGED instances /\ UnConteneur
    BY <1>1, <2>6, SupprimerUn DEF Purger, databaseVars
  <2>7. CASE Marquer
    <3>1. PICK i : /\ Ouverte(i) /\ ~Present(instances[i].cid)
                   /\ SetInstanceStatus(i, faucheur.vu, "expired") /\ UNCHANGED conteneurs
      BY <2>7 DEF Marquer, IInv, Forme, FormeFaucheur, Expiration, A, dockerVars
    <3>2. i \in Ids
      BY <3>1 DEF Ouverte
    <3>3. QED BY <2>1, <2>2, <2>3, <3>1, <3>2, PasStatutReprise
  <2>8. ASSUME NEW i \in Ids, Constater(i) PROVE [R!BailRepriseNext]_(R!repriseVars)
    <3>1. Ouverte(i) /\ SetInstanceStatus(i, faucheur.vu, "stopped") /\ UNCHANGED conteneurs
      BY <2>8 DEF Constater, IInv, Forme, FormeFaucheur, dockerVars
    <3>2. QED BY <2>1, <2>3, <3>1, PasStatutReprise
  <2>9. QED
    BY <1>3, <1>4, <2>3, <2>4, <2>5, <2>6, <2>7, <2>8
    DEF ProcessusFaucheur, EtapeFaucheur, DebutCycle, LireAvantEcrire, FinFauche, BattreLocal,
        Battre, Surveiller, MarkStaleWorkersOffline, FinReprise, ListerActives,
        FinReconciliation, LireDisparu, Ps, PsEchoue, dockerVars, databaseVars
<1>5. ASSUME NEW n \in Noeuds, ReprendreWorker(n) PROVE [R!BailRepriseNext]_(R!repriseVars)
  <2>1. UNCHANGED <<conteneurs, instances>> /\ faucheur.etape = "reprendre"
    BY <1>5 DEF ReprendreWorker, A, dockerVars, databaseVars
  <2>2. faucheur'.etape = "reprendre" \/ faucheur'.liste = ActivesSur(n)
    BY <1>1, <1>5, <2>1 DEF ReprendreWorker, EtatFaucheur
  <2>3. \A j \in Ids : MemeReprise(j)
    BY <2>1, <2>2 DEF MemeReprise, EnReprise, ActivesSur, EnCours
  <2>4. QED BY <1>2, <2>1, <2>3
<1>6. ASSUME NEW i \in Ids, ChoisirRepli(i) PROVE [R!BailRepriseNext]_(R!repriseVars)
  <2>1. /\ UNCHANGED <<conteneurs, instances>> /\ faucheur.etape = "replier"
        /\ faucheur'.etape \in {"recreer", "renoncer"} /\ faucheur'.liste = faucheur.liste
    BY <1>1, <1>6 DEF ChoisirRepli, A, EtatFaucheur, dockerVars, databaseVars
  <2>2. \A j \in Ids : MemeReprise(j)
    BY <2>1 DEF MemeReprise, EnReprise
  <2>3. QED BY <1>2, <2>1, <2>2
<1>7. CASE Recreer \/ RecreerEchoue
  <2>1. /\ UNCHANGED instances /\ faucheur.etape = "recreer"
        /\ faucheur'.etape \in {"deplacer", "renoncer"} /\ faucheur'.liste = faucheur.liste
    BY <1>1, <1>7 DEF Recreer, RecreerEchoue, A, EtatFaucheur, databaseVars
  <2>2. UnConteneur \/ UNCHANGED conteneurs
    BY <1>1, <1>7, CreerUn DEF Recreer, RecreerEchoue, RunRefuse
  <2>3. \A j \in Ids : MemeReprise(j)
    BY <2>1 DEF MemeReprise, EnReprise
  <2>4. QED BY <1>2, <1>3, <2>1, <2>2, <2>3
<1>7a. CASE LireAvantEcrire
  <2>1. /\ UNCHANGED <<conteneurs, instances>>
        /\ faucheur'.etape = faucheur.etape /\ faucheur'.liste = faucheur.liste
    BY <1>1, <1>7a DEF LireAvantEcrire, EtatFaucheur, dockerVars, databaseVars
  <2>2. \A j \in Ids : MemeReprise(j)
    BY <2>1 DEF MemeReprise, EnReprise
  <2>3. QED BY <1>2, <2>1, <2>2
<1>8. QED
  BY <1>4, <1>5, <1>6, <1>7, <1>7a, DeplacerReprise, RenoncerReprise, InterruptionReprise

LEMMA EnvironnementReprise ==
  ASSUME IInv, Environnement
  PROVE  [R!BailRepriseNext]_(R!repriseVars)
<1>1. Usure /\ DockerTypeOK
  BY EnvironnementUsure DEF IInv, TypeOK
<1>2. UNCHANGED <<instances, faucheur>>
  BY DEF Environnement, BattementAgent, Battre, SilenceAgent, Vieillir, PasserLeTemps, Tic,
         Exploitation, databaseVars
<1>3. \A j \in Ids : MemeReprise(j)
  BY <1>2 DEF MemeReprise, EnReprise
<1>4. ASSUME NEW c \in Conteneurs, SuppressionAdmin(c) PROVE UnConteneur
  BY <1>1, <1>4 DEF SuppressionAdmin, UnConteneur, DockerTypeOK
<1>5. UnConteneur \/ UNCHANGED conteneurs
  BY <1>4 DEF Environnement, BattementAgent, SilenceAgent, PasserLeTemps, Exploitation,
              PanneDocker, RetourDocker, dockerVars
<1>6. QED BY <1>1, <1>2, <1>3, <1>5, PasDockerReprise, PasSansEffetReprise

(***************************************************************************)
(* Whatever the recovery does, and whatever cuts it short, a rental opens  *)
(* once, its machine is never another's, and a closed rental reopens, or   *)
(* gets another machine, only if its user stopped it in the middle of its  *)
(* own recovery.                                                           *)
(***************************************************************************)
THEOREM RaffinementReprise == Spec => RaffineReprise
<1>1. Init => R!BailRepriseInit
  BY BailRepriseInitial
<1>2. IInvReprise /\ [Next]_vars => [R!BailRepriseNext]_(R!repriseVars)
  <2> SUFFICES ASSUME IInvReprise, [Next]_vars
               PROVE  [R!BailRepriseNext]_(R!repriseVars)
    OBVIOUS
  <2>1. IInv /\ RepriseOuverte
    BY DEF IInvReprise
  <2>2. ASSUME UNCHANGED <<conteneurs, instances, faucheur>>
        PROVE  [R!BailRepriseNext]_(R!repriseVars)
    <3>1. \A j \in Ids : MemeReprise(j)
      BY <2>2 DEF MemeReprise, EnReprise
    <3>2. QED BY <2>2, <3>1, PasSansEffetReprise
  <2>3. CASE UNCHANGED vars
    BY <2>2, <2>3 DEF vars, dockerVars, databaseVars
  <2>4. CASE Serveur
    BY <2>2, <2>4
    DEF Serveur, DemarrerServeur, ArretServeur, Battre, dockerVars, databaseVars
  <2>5. QED
    BY <2>1, <2>3, <2>4, WebReprise, FaucheurReprise, EnvironnementReprise DEF Next
<1>3. QED
  BY <1>1, <1>2, InvarianceReprise, PTL DEF Spec, RaffineReprise, R!BailRepriseSpec
=============================================================================
