----------------------------- MODULE Invariant ------------------------------
(***************************************************************************)
(* The inductive strengthening of the safety invariants of InsaCloud.      *)
(***************************************************************************)
EXTENDS InsaCloud

Ouverte(i) == i \in Ids /\ instances[i].status # "libre"

(* Which fields are filled in, in a row, in a request and in the Faucheur. *)
FormeLignes ==
  \A i \in Ids :
    /\ instances[i].status = "libre" => instances[i].cid = Rien
    /\ instances[i].status # "libre" =>
         /\ instances[i].cid \in Conteneurs
         /\ instances[i].nom \in Conteneurs
         /\ instances[i].worker \in Noeuds

FormeRequetes ==
  \A p \in WebProcs :
    /\ Etape(p) \in {"lancer", "enregistrer", "declarer", "nettoyer", "detruire"} =>
         requetes[p].noeud \in Noeuds
    /\ Etape(p) \in {"enregistrer", "declarer", "nettoyer", "detruire"} =>
         requetes[p].cid \in Conteneurs
    /\ Etape(p) \in {"detruire", "clore", "prolonger", "ecrire"} =>
         Ouverte(requetes[p].inst)

FormeFaucheur ==
  /\ \A i \in faucheur.liste \cup faucheur.disparus : Ouverte(i)
  /\ faucheur.etape \in {"marquer", "recreer", "deplacer", "renoncer"} =>
       Ouverte(faucheur.inst)
  /\ faucheur.etape \in {"recreer", "deplacer"} => faucheur.repli \in Noeuds
  /\ A("deplacer") => faucheur.cid \in Conteneurs
  /\ A("purger") => faucheur.noeud \in Noeuds

Forme == FormeLignes /\ FormeRequetes /\ FormeFaucheur

(* Container c exists, or has existed, on the daemon of node n.            *)
Hebergee(c, n) ==
  /\ conteneurs[c].etat # "jamais"
  /\ conteneurs[c].noeud = Demon(n)

Reference ==
  /\ ReferenceExacte
  /\ \A p \in WebProcs : Tient(p) => Hebergee(requetes[p].cid, requetes[p].noeud)
  /\ A("deplacer") => Hebergee(faucheur.cid, faucheur.repli)

(* Between the removal and the mark, the machine does not come back.       *)
Expiration ==
  /\ ExpireeDoncDetruite
  /\ A("marquer") => ~Present(instances[faucheur.inst].cid)

IInv == TypeOK /\ Forme /\ Reference /\ UnSeulDetenteur /\ Expiration

(* The recovery goes through rows that were running when it listed them:   *)
(* from then on, their user may stop them and nobody else closes them.     *)
RepriseOuverte ==
  /\ faucheur.etape \in {"recreer", "deplacer", "renoncer"} =>
       faucheur.inst \in faucheur.liste
  /\ faucheur.etape \in {"replier", "recreer", "deplacer", "renoncer"} =>
       \A i \in faucheur.liste : instances[i].status \in {"running", "stopped"}

(* Container c is that of row i, or of no row any more: nobody else has    *)
(* it, or can receive it.                                                  *)
Propre(c, i) ==
  /\ conteneurs[c].etat # "jamais"
  /\ \A j \in Ids : instances[j].cid = c => j = i
  /\ \A q \in WebProcs : Tient(q) => requetes[q].cid # c
  /\ A("deplacer") => faucheur.cid # c

(* The machine a request has read before it destroys it is still that one. *)
ArretPropre ==
  \A p \in WebProcs :
    Etape(p) = "detruire" => Propre(requetes[p].cid, requetes[p].inst)

IInvReprise == IInv /\ RepriseOuverte /\ ArretPropre

(* What has been read of a row before its status is written: nothing opens *)
(* it again, so an UPDATE that leaves out the status leaves it closed.     *)
LecturesSuivies ==
  /\ \A p \in WebProcs : requetes[p].vu # Rien =>
       /\ Etape(p) = "clore"
       /\ requetes[p].vu # "running" => ~EnCours(requetes[p].inst)
  /\ faucheur.vu # Rien =>
       /\ \/ A("marquer")
          \/ A("purger") /\ faucheur.inst \in faucheur.disparus
       /\ faucheur.vu # "running" => ~EnCours(faucheur.inst)

(* Without recovery: a request and the Faucheur know the machine of the    *)
(* row they are about to close, and it is gone.                            *)
SansReprise ==
  /\ faucheur.etape \notin {"replier", "recreer", "deplacer", "renoncer"}
  /\ \A p \in WebProcs :
       /\ Etape(p) = "detruire" =>
            /\ requetes[p].cid = instances[requetes[p].inst].cid
            /\ requetes[p].noeud = instances[requetes[p].inst].worker
       /\ Etape(p) = "clore" => ~Present(instances[requetes[p].inst].cid)
  /\ \A i \in faucheur.disparus : ~Present(instances[i].cid)
  /\ \A i \in Ids : instances[i].status \in {"expired", "stopped"} =>
                      ~Present(instances[i].cid)
  /\ \A i \in Ids : instances[i].status # "libre" => (EnCours(i) <=> Prolongeable(i))
  /\ LecturesSuivies

IInvSansReprise == IInv /\ (~AUTO_RECOVERY => SansReprise)
=============================================================================
