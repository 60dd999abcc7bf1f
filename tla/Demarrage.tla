------------------------------ MODULE Demarrage ------------------------------
(***************************************************************************)
(* The start of the processes that share one SQLite database and one key   *)
(* file: importing crypto.py reads or creates the key of the vault, then   *)
(* init_db (database.py) creates the schema, marks it for Alembic and      *)
(* fills the catalogue of distributions.  SQLite commits each CREATE as it *)
(* runs it, so that every statement is a step.                             *)
(***************************************************************************)
EXTENDS Naturals, FiniteSets

CONSTANTS
  Processus,          \* the processes that start: web, Faucheur, ...
  NbObjets,           \* tables and indexes, numbered in creation order
  TableDe,            \* the table of each object; a table is its own
  TableDistributions, \* the number of the table "distributions"
  NbDistributions,
  Cles,               \* the keys a process may draw
  TENTATIVES,         \* attempts at create_all (5 in the code)
  Fautes,             \* the kinds of fault a run allows
  MaxPannes           \* bound: how many faults of each kind

Objets == 1..NbObjets
Distributions == 1..NbDistributions
Tables == {o \in Objets : TableDe[o] = o}
ObjetsDe(t) == {o \in Objets : TableDe[o] = t}

ASSUME DemarrageAssumption ==
  /\ NbObjets \in Nat
  /\ TableDe \in [Objets -> Objets]
  /\ \A o \in Objets : TableDe[TableDe[o]] = TableDe[o] /\ TableDe[o] <= o
  /\ \A o, x \in Objets : o <= x => TableDe[o] <= TableDe[x]
  /\ TableDistributions \in Tables
  /\ NbDistributions \in Nat \ {0}
  /\ Cles \subseteq Nat \ {0}
  /\ TENTATIVES \in Nat \ {0}
  /\ MaxPannes \in [Fautes -> Nat]

VARIABLES
  schema,     \* the tables and indexes that exist
  version,    \* the table alembic_version: absent, empty, or with the head
  catalogue,  \* the rows of distributions
  fichier,    \* the content of .vault_key; 0: no file, or an empty one
  procs,      \* what each process is doing
  pannes      \* how many faults of each kind have happened

baseVars == <<schema, version, catalogue>>
demarrageVars == <<baseVars, fichier, procs, pannes>>

EtapesDemarrage ==
  {"arret", "mort", "cle", "ouvrir", "ecrire", "examiner", "creer", "suivre",
   "tabler", "inscrire", "garnir", "ajouter", "pret"}

Demarrant ==
  [etape     : EtapesDemarrage,
   cle       : Cles \cup {0},
   tentative : 0..(TENTATIVES - 1),
   reste     : SUBSET (Objets \cup Distributions), \* left to look at, in order
   plan      : SUBSET Objets]                      \* left to create

AZero == [etape |-> "arret", cle |-> 0, tentative |-> 0, reste |-> {}, plan |-> {}]

DemarrageTypeOK ==
  /\ schema \subseteq Objets
  /\ version \in {"absente", "vide", "marquee"}
  /\ catalogue \subseteq Distributions
  /\ fichier \in Cles \cup {0}
  /\ procs \in [Processus -> Demarrant]
  /\ \A f \in Fautes : pannes[f] <= MaxPannes[f]
  /\ pannes \in [Fautes -> Nat]

DemarrageInit ==
  /\ schema = {}
  /\ version = "absente"
  /\ catalogue = {}
  /\ fichier = 0
  /\ procs = [p \in Processus |-> AZero]
  /\ pannes = [f \in Fautes |-> 0]

En(p, etape) == procs[p].etape = etape

Devenir(p, proc) == procs' = [procs EXCEPT ![p] = proc]

Aller(p, etape) == Devenir(p, [procs[p] EXCEPT !.etape = etape])

Mourir(p) == Devenir(p, [AZero EXCEPT !.etape = "mort"])

Premier(o, S) == o \in S /\ \A x \in S : o <= x

PanneDemarrage(f) ==
  /\ f \in Fautes
  /\ pannes[f] < MaxPannes[f]
  /\ pannes' = [pannes EXCEPT ![f] = @ + 1]

-----------------------------------------------------------------------------
(* load_or_create_key, without INSACLOUD_VAULT_KEY in the environment.     *)

(* systemd starts a service, and starts it again whenever it exits.        *)
Lancer(p) ==
  /\ En(p, "arret") \/ En(p, "mort")
  /\ Aller(p, "cle")
  /\ UNCHANGED <<baseVars, fichier, pannes>>

(* The schema is examined from the first table, at each attempt.           *)
Examen(cle, tentative) ==
  [etape |-> "examiner", cle |-> cle, tentative |-> tentative, reste |-> Tables, plan |-> {}]

(* A key that nobody holds: generate() never draws the same one twice.     *)
CleNeuve(k) == k # fichier /\ \A q \in Processus : procs[q].cle # k

LireCle(p) ==
  /\ En(p, "cle")
  /\ IF fichier # 0
       THEN Devenir(p, Examen(fichier, 0))
       ELSE \E k \in Cles :
              /\ CleNeuve(k)
              /\ \A j \in Cles : j < k => ~CleNeuve(j)
              /\ Devenir(p, [procs[p] EXCEPT !.etape = "ouvrir", !.cle = k])
  /\ UNCHANGED <<baseVars, fichier, pannes>>

(* open(path, "w") empties the file; what is written goes in at the close. *)
OuvrirCle(p) ==
  /\ En(p, "ouvrir")
  /\ fichier' = 0
  /\ Aller(p, "ecrire")
  /\ UNCHANGED <<baseVars, pannes>>

EcrireCle(p) ==
  /\ En(p, "ecrire")
  /\ fichier' = procs[p].cle
  /\ Devenir(p, Examen(procs[p].cle, 0))
  /\ UNCHANGED <<baseVars, pannes>>

-----------------------------------------------------------------------------
(* create_all: which tables exist, one query per table, then one CREATE    *)
(* per missing table, followed by those of its indexes.                    *)

(* Variant: the schema is taken for whole as soon as its first table is    *)
(* there.                                                                  *)
Examiner_PremiereTable(p) ==
  /\ En(p, "examiner")
  /\ \E t \in Objets :
       /\ Premier(t, procs[p].reste)
       /\ Devenir(p, [procs[p] EXCEPT !.etape = "creer", !.reste = {},
                                      !.plan = IF t \in schema THEN {} ELSE Objets])
  /\ UNCHANGED <<baseVars, fichier, pannes>>

(* Variant: the indexes of the table are forgotten.                        *)
Examiner_SansIndex(p) ==
  /\ En(p, "examiner")
  /\ \E t \in Objets :
       /\ Premier(t, procs[p].reste)
       /\ Devenir(p, [procs[p] EXCEPT
                        !.etape = IF procs[p].reste = {t} THEN "creer" ELSE "examiner",
                        !.reste = @ \ {t},
                        !.plan = IF t \in schema THEN @ ELSE @ \cup {t}])
  /\ UNCHANGED <<baseVars, fichier, pannes>>

Examiner(p) ==
  /\ En(p, "examiner")
  /\ \E t \in Objets :
       /\ Premier(t, procs[p].reste)
       /\ Devenir(p, [procs[p] EXCEPT
                        !.etape = IF procs[p].reste = {t} THEN "creer" ELSE "examiner",
                        !.reste = @ \ {t},
                        !.plan = IF t \in schema THEN @ ELSE @ \cup ObjetsDe(t)])
  /\ UNCHANGED <<baseVars, fichier, pannes>>

Creer(p) ==
  /\ En(p, "creer")
  /\ \E o \in Objets \ schema :
       /\ Premier(o, procs[p].plan)
       /\ schema' = schema \cup {o}
       /\ Devenir(p, [procs[p] EXCEPT !.plan = @ \ {o}])
  /\ UNCHANGED <<version, catalogue, fichier, pannes>>

(* "already exists" ends the loop: the rest of the plan is left to others. *)
FinCreation(p) ==
  /\ En(p, "creer")
  /\ procs[p].plan = {} \/ \E o \in schema : Premier(o, procs[p].plan)
  /\ Devenir(p, [procs[p] EXCEPT !.etape = "suivre", !.plan = {}])
  /\ UNCHANGED <<baseVars, fichier, pannes>>

(* Variants: a lock ends the loop as an existing table does; the attempts  *)
(* are counted to one too many.                                            *)
CreationVerrouillee_Break(p) ==
  /\ En(p, "examiner") \/ En(p, "creer")
  /\ PanneDemarrage("verrou")
  /\ Devenir(p, [procs[p] EXCEPT !.etape = "suivre", !.reste = {}, !.plan = {}])
  /\ UNCHANGED <<baseVars, fichier>>

CreationVerrouillee_UneDeTrop(p) ==
  /\ En(p, "examiner") \/ En(p, "creer")
  /\ PanneDemarrage("verrou")
  /\ IF procs[p].tentative < TENTATIVES
       THEN Devenir(p, Examen(procs[p].cle, procs[p].tentative + 1))
       ELSE Mourir(p)
  /\ UNCHANGED <<baseVars, fichier>>

(* "database is locked": create_all starts again, five times at most.      *)
CreationVerrouillee(p) ==
  /\ En(p, "examiner") \/ En(p, "creer")
  /\ PanneDemarrage("verrou")
  /\ IF procs[p].tentative < TENTATIVES - 1
       THEN Devenir(p, Examen(procs[p].cle, procs[p].tentative + 1))
       ELSE Mourir(p)
  /\ UNCHANGED <<baseVars, fichier>>

-----------------------------------------------------------------------------
(* _marquer_schema_a_jour                                                  *)

AGarnir(p) == Devenir(p, [procs[p] EXCEPT !.etape = "garnir", !.reste = Distributions])

(* Variant: the table is enough, whatever it contains.                     *)
Suivre_SansRevision(p) ==
  /\ En(p, "suivre")
  /\ IF version = "absente" THEN Aller(p, "tabler") ELSE AGarnir(p)
  /\ UNCHANGED <<baseVars, fichier, pannes>>

(* Nothing to do with a revision; stamp otherwise, which finds the table   *)
(* or creates it.                                                          *)
Suivre(p) ==
  /\ En(p, "suivre")
  /\ CASE version = "marquee" -> AGarnir(p)
       [] version = "vide"    -> Aller(p, "inscrire")
       [] version = "absente" -> Aller(p, "tabler")
  /\ UNCHANGED <<baseVars, fichier, pannes>>

(* CREATE TABLE alembic_version: the error that it exists is swallowed.    *)
CreerVersion(p) ==
  /\ En(p, "tabler")
  /\ IF version = "absente"
       THEN version' = "vide" /\ Aller(p, "inscrire")
       ELSE UNCHANGED version /\ AGarnir(p)
  /\ UNCHANGED <<schema, catalogue, fichier, pannes>>

(* INSERT of the head: done, or done by another (the error is swallowed).  *)
Inscrire(p) ==
  /\ En(p, "inscrire")
  /\ version' = "marquee"
  /\ AGarnir(p)
  /\ UNCHANGED <<schema, catalogue, fichier, pannes>>

(* A lock is swallowed too, whoever holds it.                              *)
MarquageVerrouille(p) ==
  /\ En(p, "tabler") \/ En(p, "inscrire")
  /\ PanneDemarrage("verrou_marquage")
  /\ AGarnir(p)
  /\ UNCHANGED <<baseVars, fichier>>

-----------------------------------------------------------------------------
(* The catalogue: one transaction per distribution.                        *)

(* The next distribution, or the end of init_db.                           *)
Suite(p, d) ==
  LET reste == procs[p].reste \ {d}
  IN  Devenir(p, [procs[p] EXCEPT !.reste = reste,
                                  !.etape = IF reste = {} THEN "pret" ELSE "garnir"])

(* SELECT: on a missing table, "no such table" ends the process.           *)
LireDistribution(p) ==
  /\ En(p, "garnir")
  /\ \/ /\ TableDistributions \notin schema
        /\ Mourir(p)
     \/ /\ TableDistributions \in schema
        /\ \E d \in Distributions :
             /\ Premier(d, procs[p].reste)
             /\ IF d \in catalogue THEN Suite(p, d) ELSE Aller(p, "ajouter")
  /\ UNCHANGED <<baseVars, fichier, pannes>>

(* Variant: a conflict ends the loop.                                      *)
Ajouter_Break(p) ==
  /\ En(p, "ajouter")
  /\ \E d \in Distributions :
       /\ Premier(d, procs[p].reste)
       /\ catalogue' = catalogue \cup {d}
       /\ IF d \in catalogue
            THEN Devenir(p, [procs[p] EXCEPT !.reste = {}, !.etape = "pret"])
            ELSE Suite(p, d)
  /\ UNCHANGED <<schema, version, fichier, pannes>>

(* INSERT: done, or a conflict with the same row, which is rolled back.    *)
Ajouter(p) ==
  /\ En(p, "ajouter")
  /\ \E d \in Distributions :
       /\ Premier(d, procs[p].reste)
       /\ catalogue' = catalogue \cup {d}
       /\ Suite(p, d)
  /\ UNCHANGED <<schema, version, fichier, pannes>>

(* A lock here is not caught.                                              *)
AjoutVerrouille(p) ==
  /\ En(p, "ajouter")
  /\ PanneDemarrage("verrou")
  /\ Mourir(p)
  /\ UNCHANGED <<baseVars, fichier>>

(* The process is killed, at any moment of its start or later.             *)
Tuer(p) ==
  /\ ~En(p, "arret") /\ ~En(p, "mort")
  /\ PanneDemarrage("mort")
  /\ Mourir(p)
  /\ UNCHANGED <<baseVars, fichier>>

-----------------------------------------------------------------------------
EtapeDemarrage(p) ==
  \/ Lancer(p) \/ LireCle(p) \/ OuvrirCle(p) \/ EcrireCle(p)
  \/ Examiner(p) \/ Creer(p) \/ FinCreation(p)
  \/ Suivre(p) \/ CreerVersion(p) \/ Inscrire(p)
  \/ LireDistribution(p) \/ Ajouter(p)

PanneDe(p) ==
  CreationVerrouillee(p) \/ MarquageVerrouille(p) \/ AjoutVerrouille(p) \/ Tuer(p)

DemarrageNext == \E p \in Processus : EtapeDemarrage(p) \/ PanneDe(p)

(* systemd starts every service and starts it again (Restart=always), and  *)
(* each process goes on with its start.                                    *)
DemarrageSpec ==
  /\ DemarrageInit
  /\ [][DemarrageNext]_demarrageVars
  /\ \A p \in Processus : WF_demarrageVars(EtapeDemarrage(p))

Pret(p) == En(p, "pret")

SansPanne == \A f \in Fautes : pannes[f] = 0

-----------------------------------------------------------------------------
(* A process whose init_db has returned finds every distribution, whatever *)
(* conflicts, locks and deaths its own insertions and others' met.         *)
CatalogueComplet == \A p \in Processus : Pret(p) => catalogue = Distributions

(* Without a fault, once a process is ready and none is creating, the      *)
(* schema is whole, indexes included: each process leaves the rest to the  *)
(* others at the first table it finds created, yet never do they all.      *)
SchemaSansPanne ==
  /\ SansPanne
  /\ \E p \in Processus : Pret(p)
  /\ \A p \in Processus : ~En(p, "creer")
  => schema = Objets

(* The tables all end up existing, although some processes give up and     *)
(* some die; so do the indexes, unless a process was stopped between a     *)
(* table and its indexes, which no later start repairs.                    *)
SchemaEtabli == <>[](Tables \subseteq schema /\ (SansPanne => schema = Objets))

(* The base ends up marked for Alembic, even when a process dies between   *)
(* the table and its row, unless a lock was taken for another's success.   *)
BaseSuivie ==
  <>[]( \/ version = "marquee"
        \/ "verrou_marquage" \in Fautes /\ pannes["verrou_marquage"] > 0)

(* No start fails for ever: every process ends up ready.                   *)
TousPrets == <>[](\A p \in Processus : Pret(p))
=============================================================================
