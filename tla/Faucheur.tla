------------------------------ MODULE Faucheur ------------------------------
(***************************************************************************)
(* faucheur.py, the daemon that ends the expired rentals, watches over the *)
(* workers and reconciles Docker with the database, together with the      *)
(* recovery of services.py it calls.  It is one sequential loop; its       *)
(* database transactions and docker calls are the steps below.             *)
(* It iterates its lists in an order that nothing relies on, so they are   *)
(* sets.  A row read into a list is represented by its identifier: what is *)
(* used of it later (container_id, worker) is written by create_instance   *)
(* and by the Faucheur itself only.                                        *)
(***************************************************************************)
EXTENDS Services

CONSTANTS
  AUTO_RECOVERY,
  RECONCILE_EVERY

ASSUME FaucheurAssumption ==
  /\ AUTO_RECOVERY \in BOOLEAN
  /\ RECONCILE_EVERY \in Nat \ {0}

VARIABLE faucheur

EtapesFaucheur ==
  {"attente", "faucher", "marquer", "battre", "surveiller", "reprendre",
   "replier", "recreer", "deplacer", "renoncer", "lister", "ps", "purger"}

EtatFaucheur ==
  [etape     : EtapesFaucheur,
   cycle     : 0..(RECONCILE_EVERY - 1),  \* cycle % RECONCILE_EVERY
   liste     : SUBSET Ids,                \* the list being iterated
   inst      : Ids \cup {Rien},           \* the row being treated
   noeuds    : SUBSET Noeuds,             \* nodes left to treat
   noeud     : Noeuds \cup {Rien},        \* the node being treated
   repli     : Noeuds \cup {Rien},        \* the node chosen for a recovery
   cid       : Conteneurs \cup {Rien},    \* the container just recreated
   vu        : Statuts \cup {"libre", Rien},  \* the status read before a write
   orphelins : SUBSET Conteneurs,         \* listed by ps, not in the list
   disparus  : SUBSET Ids]                \* in the list, not listed by ps

EnAttente(cycle) ==
  [etape |-> "attente", cycle |-> cycle, liste |-> {}, inst |-> Rien,
   noeuds |-> {}, noeud |-> Rien, repli |-> Rien, cid |-> Rien, vu |-> Rien,
   orphelins |-> {}, disparus |-> {}]

FaucheurTypeOK == faucheur \in EtatFaucheur

FaucheurInit == faucheur = EnAttente(0)

A(etape) == faucheur.etape = etape

Aller(etape) == faucheur' = [faucheur EXCEPT !.etape = etape]

(* set_instance_status or move_instance reads the row it is about to write *)
(* (Constater has a reading of its own).                                   *)
LireAvantEcrire ==
  /\ faucheur.etape \in {"marquer", "deplacer", "renoncer"}
  /\ faucheur.vu = Rien
  /\ faucheur' = [faucheur EXCEPT !.vu = LireStatut(faucheur.inst)]
  /\ UNCHANGED <<dockerVars, databaseVars, requetes>>

-----------------------------------------------------------------------------
(* reap_expired                                                            *)

(* Variant: the query filters on the rental instead of the instance.       *)
DebutCycle_LocationsCloses ==
  /\ A("attente")
  /\ faucheur' = [faucheur EXCEPT !.etape = "faucher",
                                  !.cycle = (@ + 1) % RECONCILE_EVERY,
                                  !.liste = {i \in Ids : Echue(i) /\ ~Prolongeable(i)}]
  /\ UNCHANGED <<dockerVars, databaseVars, requetes>>

(* A new cycle starts with the query of the expired instances.             *)
DebutCycle ==
  /\ A("attente")
  /\ faucheur' = [faucheur EXCEPT !.etape = "faucher",
                                  !.cycle = (@ + 1) % RECONCILE_EVERY,
                                  !.liste = {i \in Ids : Echue(i)}]
  /\ UNCHANGED <<dockerVars, databaseVars, requetes>>

(* Variant: the result of remove_container is not tested.                  *)
Faucher_SansTest(i) ==
  /\ A("faucher")
  /\ i \in faucheur.liste
  /\ \/ RmReussi(instances[i].cid, instances[i].worker)
     \/ RmEchoue(instances[i].cid, instances[i].worker)
  /\ faucheur' = [faucheur EXCEPT !.etape = "marquer", !.inst = i]
  /\ UNCHANGED <<databaseVars, requetes>>

(* remove_container succeeds.                                              *)
Faucher(i) ==
  /\ A("faucher")
  /\ i \in faucheur.liste
  /\ RmReussi(instances[i].cid, instances[i].worker)
  /\ faucheur' = [faucheur EXCEPT !.etape = "marquer", !.inst = i]
  /\ UNCHANGED <<databaseVars, requetes>>

(* It fails: the row stays, the next cycle will try again.                 *)
FaucherEchoue(i) ==
  /\ A("faucher")
  /\ i \in faucheur.liste
  /\ RmEchoue(instances[i].cid, instances[i].worker)
  /\ faucheur' = [faucheur EXCEPT !.liste = @ \ {i}]
  /\ UNCHANGED <<databaseVars, requetes>>

Marquer ==
  /\ A("marquer")
  /\ faucheur.vu # Rien
  /\ SetInstanceStatus(faucheur.inst, faucheur.vu, "expired")
  /\ faucheur' = [faucheur EXCEPT !.etape = "faucher", !.liste = @ \ {faucheur.inst},
                                  !.inst = Rien, !.vu = Rien]
  /\ UNCHANGED <<dockerVars, requetes>>

FinFauche ==
  /\ A("faucher")
  /\ faucheur.liste = {}
  /\ Aller("battre")
  /\ UNCHANGED <<dockerVars, databaseVars, requetes>>

-----------------------------------------------------------------------------
(* battre_pour_le_noeud_local                                              *)

BattreLocal ==
  /\ A("battre")
  /\ IF /\ WORKERS = {LOCAL_WORKER}
        /\ parc[LOCAL_WORKER].status # "inconnu"
        /\ joignable[LOCAL_WORKER]
       THEN Battre(LOCAL_WORKER)
       ELSE UNCHANGED databaseVars
  /\ Aller("surveiller")
  /\ UNCHANGED <<dockerVars, requetes>>

-----------------------------------------------------------------------------
(* surveiller_workers, reprendre_worker, recreer_ailleurs                  *)

(* What follows the watch over the workers in run_forever.                 *)
ApresSurveillance ==
  faucheur' = IF faucheur.cycle = 0
                THEN [EnAttente(0) EXCEPT !.etape = "lister"]
                ELSE EnAttente(faucheur.cycle)

Surveiller ==
  /\ A("surveiller")
  /\ MarkStaleWorkersOffline
  /\ IF Muets = {}
       THEN ApresSurveillance
       ELSE faucheur' = [faucheur EXCEPT !.etape = "reprendre", !.noeuds = Muets]
  /\ UNCHANGED <<dockerVars, requetes>>

(* Variant: return instead of continue for a worker without instances.     *)
ReprendreWorker_Return(n) ==
  /\ A("reprendre")
  /\ n \in faucheur.noeuds
  /\ faucheur' = IF AUTO_RECOVERY /\ ActivesSur(n) # {}
                   THEN [faucheur EXCEPT !.etape = "replier", !.noeud = n,
                                         !.noeuds = @ \ {n}, !.liste = ActivesSur(n)]
                   ELSE [faucheur EXCEPT !.noeuds = {}]
  /\ UNCHANGED <<dockerVars, databaseVars, requetes>>

ReprendreWorker(n) ==
  /\ A("reprendre")
  /\ n \in faucheur.noeuds
  /\ faucheur' = IF AUTO_RECOVERY /\ ActivesSur(n) # {}
                   THEN [faucheur EXCEPT !.etape = "replier", !.noeud = n,
                                         !.noeuds = @ \ {n}, !.liste = ActivesSur(n)]
                   ELSE [faucheur EXCEPT !.noeuds = @ \ {n}]
  /\ UNCHANGED <<dockerVars, databaseVars, requetes>>

(* select_available_worker(): no candidate, or the old node itself, is a   *)
(* failure of the recovery.                                                *)
ChoisirRepli(i) ==
  /\ A("replier")
  /\ i \in faucheur.liste
  /\ LET replis == SelectAvailableWorker({}) \ {faucheur.noeud}
     IN  \/ /\ replis = {}
            /\ faucheur' = [faucheur EXCEPT !.etape = "renoncer", !.inst = i]
         \/ \E r \in replis :
              faucheur' = [faucheur EXCEPT !.etape = "recreer", !.inst = i, !.repli = r]
  /\ UNCHANGED <<dockerVars, databaseVars, requetes>>

Recreer ==
  /\ A("recreer")
  /\ \E c \in Conteneurs :
       /\ RunReussi(c, faucheur.repli, instances[faucheur.inst].nom)
       /\ faucheur' = [faucheur EXCEPT !.etape = "deplacer", !.cid = c]
  /\ UNCHANGED <<databaseVars, requetes>>

RecreerEchoue ==
  /\ A("recreer")
  /\ LET nom == instances[faucheur.inst].nom
     IN  \/ RunRefuse(faucheur.repli, nom)
         \/ \E c \in Conteneurs : RunSansReponse(c, faucheur.repli, nom)
  /\ faucheur' = [faucheur EXCEPT !.etape = "renoncer", !.repli = Rien]
  /\ UNCHANGED <<databaseVars, requetes>>

InstanceSuivante ==
  faucheur' = [faucheur EXCEPT !.etape = "replier", !.liste = @ \ {faucheur.inst},
                               !.inst = Rien, !.repli = Rien, !.cid = Rien, !.vu = Rien]

Deplacer ==
  /\ A("deplacer")
  /\ faucheur.vu # Rien
  /\ MoveInstance(faucheur.inst, faucheur.vu, faucheur.cid, faucheur.repli)
  /\ InstanceSuivante
  /\ UNCHANGED <<dockerVars, requetes>>

Renoncer ==
  /\ A("renoncer")
  /\ faucheur.vu # Rien
  /\ SetInstanceStatus(faucheur.inst, faucheur.vu, "stopped")
  /\ InstanceSuivante
  /\ UNCHANGED <<dockerVars, requetes>>

FinReprise ==
  /\ \/ /\ A("replier")
        /\ faucheur.liste = {}
        /\ faucheur' = [faucheur EXCEPT !.etape = "reprendre", !.noeud = Rien]
     \/ /\ A("reprendre")
        /\ faucheur.noeuds = {}
        /\ ApresSurveillance
  /\ UNCHANGED <<dockerVars, databaseVars, requetes>>

-----------------------------------------------------------------------------
(* reconcile                                                               *)

(* all_active, read once, before the first docker ps.                      *)
ListerActives ==
  /\ A("lister")
  /\ faucheur' = [faucheur EXCEPT !.etape = "ps", !.noeuds = WORKERS,
                                  !.liste = {i \in Ids : EnCours(i)}]
  /\ UNCHANGED <<dockerVars, databaseVars, requetes>>

(* The part of the snapshot that concerns node n.                          *)
ListeDe(n) == {i \in faucheur.liste : instances[i].worker = n}

(* Variants: an identifier compared with the names of the machines; a node *)
(* without an active row is not looked at.                                 *)
Orphelins_IdContreNom(n) == PresentsSur(n) \ {instances[i].nom : i \in ListeDe(n)}

Orphelins_NoeudsOccupes(n) ==
  {c \in PresentsSur(n) : /\ ListeDe(n) # {}
                          /\ \A i \in ListeDe(n) : instances[i].cid # c}

Orphelins(n) == PresentsSur(n) \ {instances[i].cid : i \in ListeDe(n)}

Disparus(n) == {i \in ListeDe(n) : instances[i].cid \notin PresentsSur(n)}

Ps(n) ==
  /\ A("ps")
  /\ n \in faucheur.noeuds
  /\ joignable[Demon(n)]
  /\ faucheur' = [faucheur EXCEPT !.etape = "purger", !.noeud = n,
                                  !.noeuds = @ \ {n},
                                  !.orphelins = Orphelins(n),
                                  !.disparus = Disparus(n)]
  /\ UNCHANGED <<dockerVars, databaseVars, requetes>>

(* An unreachable node is skipped.                                         *)
PsEchoue(n) ==
  /\ A("ps")
  /\ n \in faucheur.noeuds
  /\ \/ ~joignable[Demon(n)] /\ UNCHANGED pannes
     \/ Panne("ps_echec")
  /\ faucheur' = [faucheur EXCEPT !.noeuds = @ \ {n}]
  /\ UNCHANGED <<conteneurs, joignable, databaseVars, requetes>>

(* remove_container on an orphan, whose answer is ignored.                 *)
Purger(c) ==
  /\ A("purger")
  /\ c \in faucheur.orphelins
  /\ \/ RmReussi(c, faucheur.noeud)
     \/ RmEchoue(c, faucheur.noeud)
  /\ faucheur' = [faucheur EXCEPT !.orphelins = @ \ {c}]
  /\ UNCHANGED <<databaseVars, requetes>>

(* The orphans of the node come first, then the instances whose container  *)
(* was not listed.                                                         *)
LireDisparu(i) ==
  /\ A("purger")
  /\ faucheur.orphelins = {}
  /\ i \in faucheur.disparus
  /\ faucheur.inst = Rien
  /\ faucheur' = [faucheur EXCEPT !.inst = i, !.vu = LireStatut(i)]
  /\ UNCHANGED <<dockerVars, databaseVars, requetes>>

Constater(i) ==
  /\ A("purger")
  /\ i \in faucheur.disparus
  /\ faucheur.inst = i
  /\ faucheur.vu # Rien
  /\ SetInstanceStatus(i, faucheur.vu, "stopped")
  /\ faucheur' = [faucheur EXCEPT !.disparus = @ \ {i}, !.inst = Rien, !.vu = Rien]
  /\ UNCHANGED <<dockerVars, requetes>>

(* Variant: the node is left once its orphans are removed.                 *)
FinReconciliation_SansDisparus ==
  /\ \/ /\ A("purger")
        /\ faucheur.orphelins = {}
        /\ faucheur' = [faucheur EXCEPT !.etape = "ps", !.noeud = Rien, !.disparus = {}]
     \/ /\ A("ps")
        /\ faucheur.noeuds = {}
        /\ faucheur' = EnAttente(faucheur.cycle)
  /\ UNCHANGED <<dockerVars, databaseVars, requetes>>

FinReconciliation ==
  /\ \/ /\ A("purger")
        /\ faucheur.orphelins = {}
        /\ faucheur.disparus = {}
        /\ faucheur' = [faucheur EXCEPT !.etape = "ps", !.noeud = Rien]
     \/ /\ A("ps")
        /\ faucheur.noeuds = {}
        /\ faucheur' = EnAttente(faucheur.cycle)
  /\ UNCHANGED <<dockerVars, databaseVars, requetes>>

-----------------------------------------------------------------------------
(* Between the OFFLINE marks and the end of the recovery, the list of the  *)
(* nodes to recover only exists in memory.                                 *)
SignalEnCours ==
  faucheur.etape \in {"reprendre", "replier", "recreer", "deplacer", "renoncer"}

(* An exception ends the cycle, and the next one starts afresh; a crash    *)
(* also resets the count of cycles.                                        *)
ExceptionFaucheur ==
  /\ ~A("attente")
  /\ Panne(IF SignalEnCours THEN "exception_reprise" ELSE "exception_faucheur")
  /\ faucheur' = EnAttente(faucheur.cycle)
  /\ UNCHANGED <<conteneurs, joignable, databaseVars, requetes>>

CrashFaucheur ==
  /\ ~A("attente")
  /\ Panne(IF SignalEnCours THEN "crash_reprise" ELSE "crash_faucheur")
  /\ faucheur' = EnAttente(0)
  /\ UNCHANGED <<conteneurs, joignable, databaseVars, requetes>>

EtapeFaucheur ==
  \/ DebutCycle \/ LireAvantEcrire \/ Marquer \/ FinFauche \/ BattreLocal \/ Surveiller
  \/ Recreer \/ RecreerEchoue \/ Deplacer \/ Renoncer \/ FinReprise
  \/ ListerActives \/ FinReconciliation
  \/ \E i \in Ids : Faucher(i) \/ FaucherEchoue(i) \/ ChoisirRepli(i)
                   \/ LireDisparu(i) \/ Constater(i)
  \/ \E n \in Noeuds : ReprendreWorker(n) \/ Ps(n) \/ PsEchoue(n)
  \/ \E c \in Conteneurs : Purger(c)
=============================================================================
