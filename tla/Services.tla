------------------------------ MODULE Services ------------------------------
(***************************************************************************)
(* services.py as the Gunicorn workers run it: each process serves one     *)
(* request at a time, and every database transaction or docker call of a   *)
(* request is a step that the steps of the other processes and of the      *)
(* Faucheur may separate from the next one.                                *)
(***************************************************************************)
EXTENDS Database

CONSTANTS
  WebProcs,                \* the Gunicorn worker processes
  Operations,              \* the requests a run submits
  MAX_INSTANCES_PER_USER,
  Durees                   \* the durations, in clock ticks, a run asks for

ASSUME ServicesAssumption ==
  /\ MAX_INSTANCES_PER_USER \in Nat
  /\ Durees \subseteq Nat
  /\ Rien \notin WebProcs
  /\ IsFiniteSet(WebProcs) /\ WebProcs # {}

VARIABLE requetes          \* what each process is doing

Etapes == {"arret", "repos", "choisir", "lancer", "enregistrer", "declarer",
           "nettoyer", "detruire", "clore", "prolonger", "ecrire"}

Requete ==
  [etape : Etapes,
   user  : Utilisateurs \cup {Rien},
   inst  : Ids \cup {Rien},
   cid   : Conteneurs \cup {Rien},
   noeud : Noeuds \cup {Rien},
   vu    : Statuts \cup {"libre", Rien},  \* the status read before a write
   duree : Nat,
   fin   : Nat]

Repos == [etape |-> "repos", user |-> Rien, inst |-> Rien, cid |-> Rien,
          noeud |-> Rien, vu |-> Rien, duree |-> 0, fin |-> 0]

Eteint == [Repos EXCEPT !.etape = "arret"]

ServicesTypeOK == requetes \in [WebProcs -> Requete]

ServicesInit == requetes = [p \in WebProcs |-> Eteint]

Etape(p) == requetes[p].etape

Passer(p, req) == requetes' = [requetes EXCEPT ![p] = req]

Finir(p) == Passer(p, Repos)

-----------------------------------------------------------------------------
(* louer                                                                   *)

(* The processes that have passed the quota and hold no row yet.           *)
EnCreation ==
  {p \in WebProcs : Etape(p) \in {"choisir", "lancer", "enregistrer", "declarer"}}

(* Bound: a rental starts only if a row of Ids will be there for it.       *)
LigneReservable ==
  Cardinality({i \in Ids : instances[i].status = "libre"}) > Cardinality(EnCreation)

(* Variant: off by one.                                                    *)
SousQuota_Inclus(u) == Cardinality(Actives(u)) <= MAX_INSTANCES_PER_USER

SousQuota(u) == Cardinality(Actives(u)) < MAX_INSTANCES_PER_USER

DebutLouer(p, u, duree) ==
  /\ "louer" \in Operations
  /\ Etape(p) = "repos"
  /\ LigneReservable
  /\ SousQuota(u)
  /\ Passer(p, [Repos EXCEPT !.etape = "choisir", !.user = u, !.duree = duree])
  /\ UNCHANGED <<dockerVars, databaseVars>>

(* _choisir_worker: the table of workers, or else the configuration.       *)
ChoixWorker ==
  LET candidats == SelectAvailableWorker(WORKERS)
  IN  IF candidats # {} THEN candidats ELSE MoinsCharges(WORKERS)

ChoisirWorker(p) ==
  /\ Etape(p) = "choisir"
  /\ \E n \in ChoixWorker :
       Passer(p, [requetes[p] EXCEPT !.etape = "lancer", !.noeud = n])
  /\ UNCHANGED <<dockerVars, databaseVars>>

(* _creer_conteneur succeeds, at the first or at a later attempt.          *)
LancerReussi(p) ==
  /\ Etape(p) = "lancer"
  /\ \E c \in Conteneurs :
       /\ RunReussi(c, requetes[p].noeud, c)
       /\ Passer(p, [requetes[p] EXCEPT !.etape = "enregistrer", !.cid = c])
  /\ UNCHANGED databaseVars

(* _creer_conteneur fails: louer returns at once, with a 502.              *)
LancerEchoue(p) ==
  /\ Etape(p) = "lancer"
  /\ \/ RunRefuse(requetes[p].noeud, Rien)
     \/ \E c \in Conteneurs : RunSansReponse(c, requetes[p].noeud, c)
  /\ Finir(p)
  /\ UNCHANGED databaseVars

(* Variant: the clean-up is a finally clause, not an except clause.        *)
Enregistrer_Finally(p) ==
  /\ Etape(p) = "enregistrer"
  /\ \E i \in Ids :
       CreateInstance(i, requetes[p].user, requetes[p].cid,
                      requetes[p].noeud, requetes[p].duree)
  /\ Passer(p, [requetes[p] EXCEPT !.etape = "nettoyer"])
  /\ UNCHANGED dockerVars

Enregistrer(p) ==
  /\ Etape(p) = "enregistrer"
  /\ \E i \in Ids :
       CreateInstance(i, requetes[p].user, requetes[p].cid,
                      requetes[p].noeud, requetes[p].duree)
  /\ Finir(p)
  /\ UNCHANGED dockerVars

(* create_instance does not find the node among the workers ...            *)
ChercherWorker(p) ==
  /\ Etape(p) = "enregistrer"
  /\ parc[requetes[p].noeud].status = "inconnu"
  /\ Passer(p, [requetes[p] EXCEPT !.etape = "declarer"])
  /\ UNCHANGED <<dockerVars, databaseVars>>

(* ... and inserts it, unless another process did so in the meantime.      *)
DeclarerWorker(p) ==
  /\ Etape(p) = "declarer"
  /\ \/ /\ InsererWorker(requetes[p].noeud)
        /\ Passer(p, [requetes[p] EXCEPT !.etape = "enregistrer"])
     \/ /\ parc[requetes[p].noeud].status # "inconnu"
        /\ Passer(p, [requetes[p] EXCEPT !.etape = "nettoyer"])
        /\ UNCHANGED databaseVars
  /\ UNCHANGED dockerVars

(* create_instance raises (database locked or gone, port index).           *)
EnregistrerEchoue(p) ==
  /\ Etape(p) \in {"enregistrer", "declarer"}
  /\ Panne("echec_bdd")
  /\ Passer(p, [requetes[p] EXCEPT !.etape = "nettoyer"])
  /\ UNCHANGED <<conteneurs, joignable, databaseVars>>

(* _supprimer_sans_bruit: the outcome of the removal is ignored.           *)
Nettoyer(p) ==
  /\ Etape(p) = "nettoyer"
  /\ \/ RmReussi(requetes[p].cid, requetes[p].noeud)
     \/ RmEchoue(requetes[p].cid, requetes[p].noeud)
  /\ Finir(p)
  /\ UNCHANGED databaseVars

-----------------------------------------------------------------------------
(* arreter                                                                 *)

(* get_instance: the container and the node are those of this reading.     *)
DebutArreter(p, i) ==
  /\ "arreter" \in Operations
  /\ Etape(p) = "repos"
  /\ EnCours(i)
  /\ Passer(p, [Repos EXCEPT !.etape = "detruire", !.inst = i,
                             !.cid = instances[i].cid,
                             !.noeud = instances[i].worker])
  /\ UNCHANGED <<dockerVars, databaseVars>>

(* Variant: the DockerError of the removal is swallowed.                   *)
Detruire_SansTest(p) ==
  /\ Etape(p) = "detruire"
  /\ \/ RmReussi(requetes[p].cid, requetes[p].noeud)
     \/ RmEchoue(requetes[p].cid, requetes[p].noeud)
  /\ Passer(p, [requetes[p] EXCEPT !.etape = "clore"])
  /\ UNCHANGED databaseVars

Detruire(p) ==
  /\ Etape(p) = "detruire"
  /\ \/ /\ RmReussi(requetes[p].cid, requetes[p].noeud)
        /\ Passer(p, [requetes[p] EXCEPT !.etape = "clore"])
     \/ /\ RmEchoue(requetes[p].cid, requetes[p].noeud)
        /\ Finir(p)
  /\ UNCHANGED databaseVars

(* set_instance_status reads the row ...                                   *)
LireAvantClore(p) ==
  /\ Etape(p) = "clore"
  /\ requetes[p].vu = Rien
  /\ Passer(p, [requetes[p] EXCEPT !.vu = LireStatut(requetes[p].inst)])
  /\ UNCHANGED <<dockerVars, databaseVars>>

(* ... and writes it.                                                      *)
Clore(p) ==
  /\ Etape(p) = "clore"
  /\ requetes[p].vu # Rien
  /\ SetInstanceStatus(requetes[p].inst, requetes[p].vu, "stopped")
  /\ Finir(p)
  /\ UNCHANGED dockerVars

-----------------------------------------------------------------------------
(* prolonger                                                               *)

(* get_instance and the test on the status; the guard on fin is a bound.   *)
DebutProlonger(p, i, duree) ==
  /\ "prolonger" \in Operations
  /\ Etape(p) = "repos"
  /\ EnCours(i)
  /\ instances[i].fin + duree <= MaxFin
  /\ Passer(p, [Repos EXCEPT !.etape = "prolonger", !.inst = i, !.duree = duree])
  /\ UNCHANGED <<dockerVars, databaseVars>>

(* extend_instance reads the rental: nothing happens if it is closed.      *)
LireLocation(p) ==
  /\ Etape(p) = "prolonger"
  /\ LET i == requetes[p].inst
     IN  IF Prolongeable(i)
           THEN Passer(p, [requetes[p] EXCEPT !.etape = "ecrire",
                                              !.fin = LireFin(i, requetes[p].duree)])
           ELSE Finir(p)
  /\ UNCHANGED <<dockerVars, databaseVars>>

(* ... and writes the date it computed.                                    *)
EcrireLocation(p) ==
  /\ Etape(p) = "ecrire"
  /\ EcrireFin(requetes[p].inst, requetes[p].fin)
  /\ Finir(p)
  /\ UNCHANGED dockerVars

-----------------------------------------------------------------------------
(* The server.                                                             *)

(* Gunicorn imports app.py once and forks its processes (--preload).  On a *)
(* single host, ensure_worker then worker_heartbeat make the row "local",  *)
(* whether its daemon answers or not.                                      *)
DemarrerServeur ==
  /\ \A p \in WebProcs : Etape(p) = "arret"
  /\ requetes' = [p \in WebProcs |-> Repos]
  /\ IF WORKERS = {LOCAL_WORKER} THEN Battre(LOCAL_WORKER)
                                 ELSE UNCHANGED databaseVars
  /\ UNCHANGED dockerVars

(* The service is stopped, crashes or is deployed again.                   *)
ArretServeur ==
  /\ \E p \in WebProcs : Etape(p) # "arret"
  /\ Panne("arret_serveur")
  /\ requetes' = [p \in WebProcs |-> Eteint]
  /\ UNCHANGED <<conteneurs, joignable, databaseVars>>

(* A process is killed (gunicorn --timeout, out of memory) and replaced:   *)
(* what it held in memory is lost.                                         *)
MortWeb(p) ==
  /\ Etape(p) \notin {"arret", "repos"}
  /\ Panne("mort_web")
  /\ Finir(p)
  /\ UNCHANGED <<conteneurs, joignable, databaseVars>>

(* A query raises where nothing catches it: the request ends in a 500.     *)
ExceptionRequete(p) ==
  /\ Etape(p) \in {"choisir", "clore", "prolonger", "ecrire"}
  /\ Panne("echec_bdd")
  /\ Finir(p)
  /\ UNCHANGED <<conteneurs, joignable, databaseVars>>

(* The steps a process takes once it has a request to serve.               *)
EtapeWeb(p) ==
  \/ ChoisirWorker(p) \/ LancerReussi(p) \/ LancerEchoue(p)
  \/ Enregistrer(p) \/ ChercherWorker(p) \/ DeclarerWorker(p)
  \/ EnregistrerEchoue(p) \/ Nettoyer(p)
  \/ Detruire(p) \/ LireAvantClore(p) \/ Clore(p)
  \/ LireLocation(p) \/ EcrireLocation(p)

DebutRequete(p) ==
  \/ \E u \in Utilisateurs, d \in Durees : DebutLouer(p, u, d)
  \/ \E i \in Ids : DebutArreter(p, i)
  \/ \E i \in Ids, d \in Durees : DebutProlonger(p, i, d)
=============================================================================
