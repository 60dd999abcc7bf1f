------------------------- MODULE DemarrageInvariant --------------------------
(***************************************************************************)
(* The inductive strengthening of CatalogueComplet and SchemaSansPanne.    *)
(***************************************************************************)
EXTENDS Demarrage

Plan(p) == procs[p].plan

(* The distributions a process has left behind it are in the catalogue.    *)
Catalogage ==
  \A p \in Processus :
    /\ En(p, "garnir") \/ En(p, "ajouter") => Distributions \ procs[p].reste \subseteq catalogue
    /\ Pret(p) => catalogue = Distributions

(* An index whose table process p has just created.                        *)
IndexDu(p, o) == o \in Plan(p) /\ TableDe[o] \notin Plan(p)

(* A process plans whole tables, and creates them in order; the indexes of *)
(* a table it has created come first, and are its own to create.           *)
Plans ==
  \A p \in Processus :
    /\ ~En(p, "examiner") /\ ~En(p, "creer") => Plan(p) = {}
    /\ \A o \in Plan(p) : o \in Tables => ObjetsDe(o) \subseteq Plan(p)
    /\ \A o \in Objets : IndexDu(p, o) =>
         /\ En(p, "creer")
         /\ o \notin schema
         /\ TableDe[o] \in schema
         /\ \A x \in Plan(p) : TableDe[o] <= x
         /\ \A q \in Processus \ {p} : ~IndexDu(q, o)

(* A missing table is in every plan, or still to be examined; a missing    *)
(* index of a table that exists is in the plan of the table's creator.     *)
Manques ==
  /\ \A p \in Processus, t \in Tables \ schema :
       /\ En(p, "creer") => t \in Plan(p)
       /\ En(p, "examiner") => t \in Plan(p) \/ t \in procs[p].reste
  /\ \A o \in Objets \ schema :
       TableDe[o] \in schema => \E p \in Processus : IndexDu(p, o)

(* The tables appear in order, each before its indexes.                    *)
Ordre ==
  /\ \A o \in schema : TableDe[o] \in schema
  /\ \A s, t \in Tables : s <= t /\ t \in schema => s \in schema

(* While a table is missing, the process that created the last one goes on *)
(* and meets nothing that exists: no other can have overtaken it.          *)
EnTete(p) == En(p, "creer") /\ Plan(p) \cap schema = {}

Releve ==
  /\ schema # {} /\ ~(Tables \subseteq schema) => \E p \in Processus : EnTete(p)
  /\ \A p \in Processus :
       procs[p].etape \in {"suivre", "tabler", "inscrire", "garnir", "ajouter", "pret"}
         => schema # {}

IInvDemarrage ==
  /\ DemarrageTypeOK
  /\ Catalogage
  /\ SansPanne => Plans /\ Manques /\ Ordre /\ Releve
=============================================================================
