--------------------------- MODULE DemarrageProofs ---------------------------
(***************************************************************************)
(* Theorems about Demarrage for any number of processes, tables, indexes   *)
(* and distributions.                                                      *)
(***************************************************************************)
EXTENDS DemarrageInvariant, TLAPS

Creation == Plans /\ Manques /\ Ordre /\ Releve

Apres == {"suivre", "tabler", "inscrire", "garnir", "ajouter", "pret"}

-----------------------------------------------------------------------------
(* Types.                                                                  *)

LEMMA DevenirType ==
  ASSUME NEW p \in Processus, procs \in [Processus -> Demarrant],
         NEW proc \in Demarrant, Devenir(p, proc)
  PROVE  procs' \in [Processus -> Demarrant]
  BY DEF Devenir

LEMMA AZeroType ==
  /\ AZero \in Demarrant
  /\ [AZero EXCEPT !.etape = "mort"] \in Demarrant
  /\ \A k \in Cles \cup {0}, n \in 0..(TENTATIVES - 1) : Examen(k, n) \in Demarrant
  BY DemarrageAssumption DEF AZero, Demarrant, EtapesDemarrage, Examen, Tables, Objets

LEMMA PanneEffet ==
  ASSUME DemarrageTypeOK, NEW f, PanneDemarrage(f)
  PROVE  /\ pannes' \in [Fautes -> Nat]
         /\ \A g \in Fautes : pannes'[g] <= MaxPannes[g]
         /\ ~SansPanne'
<1>1. /\ f \in Fautes
      /\ pannes \in [Fautes -> Nat]
      /\ pannes[f] < MaxPannes[f]
      /\ pannes[f] \in Nat /\ MaxPannes[f] \in Nat
      /\ pannes' = [pannes EXCEPT ![f] = pannes[f] + 1]
  BY DemarrageAssumption DEF DemarrageTypeOK, PanneDemarrage
<1>2. pannes' \in [Fautes -> Nat] /\ pannes'[f] = pannes[f] + 1
  BY <1>1
<1>3. \A g \in Fautes : pannes'[g] <= MaxPannes[g]
  BY <1>1, <1>2 DEF DemarrageTypeOK
<1>4. ~SansPanne'
  BY <1>1, <1>2 DEF SansPanne
<1>5. QED BY <1>2, <1>3, <1>4

LEMMA PasType ==
  ASSUME NEW p \in Processus, procs \in [Processus -> Demarrant]
  PROVE  /\ \A e \in EtapesDemarrage : Aller(p, e) => procs' \in [Processus -> Demarrant]
         /\ AGarnir(p) => procs' \in [Processus -> Demarrant]
         /\ \A d : Suite(p, d) => procs' \in [Processus -> Demarrant]
         /\ Mourir(p) => procs' \in [Processus -> Demarrant]
<1>0. procs[p] \in Demarrant
  OBVIOUS
<1>1. \A e \in EtapesDemarrage : [procs[p] EXCEPT !.etape = e] \in Demarrant
  BY <1>0 DEF Demarrant
<1>2. [procs[p] EXCEPT !.etape = "garnir", !.reste = Distributions] \in Demarrant
  BY <1>0 DEF Demarrant, EtapesDemarrage
<1>3. \A d : [procs[p] EXCEPT !.reste = procs[p].reste \ {d},
                             !.etape = IF procs[p].reste \ {d} = {} THEN "pret" ELSE "garnir"]
              \in Demarrant
  BY <1>0 DEF Demarrant, EtapesDemarrage
<1>4. \A d : Suite(p, d) => procs' \in [Processus -> Demarrant]
  BY <1>3, DevenirType DEF Suite
<1>5. QED BY <1>1, <1>2, <1>4, AZeroType, DevenirType DEF Aller, AGarnir, Mourir

LEMMA EtapeType ==
  ASSUME DemarrageTypeOK, NEW p \in Processus, EtapeDemarrage(p)
  PROVE  DemarrageTypeOK'
<1> USE DEF DemarrageTypeOK, En
<1>0. procs[p] \in Demarrant
  OBVIOUS
<1>1. CASE Lancer(p)
  BY <1>0, <1>1 DEF Lancer, Aller, Devenir, baseVars, Demarrant, EtapesDemarrage
<1>2. CASE LireCle(p)
  <2>1. 0 \in 0..(TENTATIVES - 1)
    BY DemarrageAssumption
  <2>2. CASE fichier # 0
    BY <1>2, <2>1, <2>2, AZeroType, DevenirType DEF LireCle, baseVars
  <2>3. CASE fichier = 0
    <3>1. PICK k \in Cles : Devenir(p, [procs[p] EXCEPT !.etape = "ouvrir", !.cle = k])
      BY <1>2, <2>3 DEF LireCle
    <3>2. QED BY <1>0, <1>2, <3>1 DEF LireCle, Devenir, baseVars, Demarrant, EtapesDemarrage
  <2>4. QED BY <2>2, <2>3
<1>3. CASE OuvrirCle(p)
  BY <1>0, <1>3 DEF OuvrirCle, Aller, Devenir, baseVars, Demarrant, EtapesDemarrage
<1>4. CASE EcrireCle(p)
  <2>1. procs[p].cle \in Cles \cup {0} /\ 0 \in 0..(TENTATIVES - 1)
    BY <1>0, DemarrageAssumption DEF Demarrant
  <2>2. QED BY <1>4, <2>1, AZeroType, DevenirType DEF EcrireCle, baseVars
<1>5. CASE Examiner(p)
  <2>1. PICK t \in Objets :
          Devenir(p, [procs[p] EXCEPT
                        !.etape = IF procs[p].reste = {t} THEN "creer" ELSE "examiner",
                        !.reste = @ \ {t},
                        !.plan = IF t \in schema THEN @ ELSE @ \cup ObjetsDe(t)])
    BY <1>5 DEF Examiner
  <2>2. ObjetsDe(t) \subseteq Objets
    BY DEF ObjetsDe
  <2>3. QED BY <1>0, <1>5, <2>1, <2>2
            DEF Examiner, Devenir, baseVars, Demarrant, EtapesDemarrage
<1>6. CASE Creer(p)
  BY <1>0, <1>6 DEF Creer, Devenir, Demarrant
<1>7. CASE FinCreation(p)
  BY <1>0, <1>7 DEF FinCreation, Devenir, baseVars, Demarrant, EtapesDemarrage
<1>8. CASE Suivre(p)
  BY <1>8, PasType DEF Suivre, baseVars, EtapesDemarrage
<1>9. CASE CreerVersion(p)
  BY <1>9, PasType DEF CreerVersion, EtapesDemarrage
<1>10. CASE Inscrire(p)
  BY <1>10, PasType DEF Inscrire
<1>11. CASE LireDistribution(p)
  BY <1>11, PasType DEF LireDistribution, baseVars, EtapesDemarrage
<1>12. CASE Ajouter(p)
  BY <1>12, PasType DEF Ajouter
<1>13. QED
  BY <1>1, <1>2, <1>3, <1>4, <1>5, <1>6, <1>7, <1>8, <1>9, <1>10, <1>11, <1>12
  DEF EtapeDemarrage

LEMMA PanneDeEffet ==
  ASSUME DemarrageTypeOK, NEW p \in Processus, PanneDe(p)
  PROVE  DemarrageTypeOK' /\ ~SansPanne' /\ UNCHANGED <<baseVars, fichier>>
<1> USE DEF DemarrageTypeOK, En
<1>0. procs[p] \in Demarrant /\ procs[p].tentative \in 0..(TENTATIVES - 1)
      /\ procs[p].cle \in Cles \cup {0}
  BY DEF Demarrant
<1>1. CASE CreationVerrouillee(p)
  <2>1. procs[p].tentative < TENTATIVES - 1 =>
          Examen(procs[p].cle, procs[p].tentative + 1) \in Demarrant
    BY <1>0, AZeroType, DemarrageAssumption
  <2>2. procs' \in [Processus -> Demarrant]
    BY <1>1, <2>1, AZeroType, DevenirType DEF CreationVerrouillee, Mourir
  <2>3. QED BY <1>1, <2>2, PanneEffet DEF CreationVerrouillee, baseVars
<1>2. CASE MarquageVerrouille(p)
  <2>1. procs' \in [Processus -> Demarrant]
    BY <1>0, <1>2 DEF MarquageVerrouille, AGarnir, Devenir, Demarrant, EtapesDemarrage
  <2>2. QED BY <1>2, <2>1, PanneEffet DEF MarquageVerrouille, baseVars
<1>3. CASE AjoutVerrouille(p)
  BY <1>3, AZeroType, DevenirType, PanneEffet DEF AjoutVerrouille, Mourir, baseVars
<1>4. CASE Tuer(p)
  BY <1>4, AZeroType, DevenirType, PanneEffet DEF Tuer, Mourir, baseVars
<1>5. QED BY <1>1, <1>2, <1>3, <1>4 DEF PanneDe

-----------------------------------------------------------------------------
(* The catalogue.                                                          *)

LEMMA CatalogagePas ==
  ASSUME DemarrageTypeOK, Catalogage, NEW p \in Processus, NEW proc, Devenir(p, proc),
         catalogue \subseteq catalogue', catalogue' \subseteq Distributions,
         proc.etape \in {"garnir", "ajouter"} =>
           Distributions \ proc.reste \subseteq catalogue',
         proc.etape = "pret" => Distributions \subseteq catalogue'
  PROVE  Catalogage'
<1>1. procs'[p] = proc /\ \A q \in Processus \ {p} : procs'[q] = procs[q]
  BY DEF Devenir, DemarrageTypeOK
<1>2. QED BY <1>1 DEF Catalogage, En, Pret

LEMMA CatalogageInv ==
  ASSUME DemarrageTypeOK, DemarrageTypeOK', Catalogage, NEW p \in Processus, EtapeDemarrage(p)
  PROVE  Catalogage'
<1>0. procs[p] \in Demarrant
  BY DEF DemarrageTypeOK
<1>a. catalogue' \subseteq Distributions
  BY DEF DemarrageTypeOK
<1>b. ASSUME NEW e, e \notin {"garnir", "ajouter", "pret"}, Aller(p, e), UNCHANGED catalogue
      PROVE  Catalogage'
  BY <1>0, <1>a, <1>b, CatalogagePas DEF Aller, Demarrant
<1>c. ASSUME AGarnir(p), UNCHANGED catalogue
      PROVE  Catalogage'
  BY <1>0, <1>a, <1>c, CatalogagePas DEF AGarnir, Demarrant
<1>d. ASSUME NEW k, NEW n, Devenir(p, Examen(k, n)), UNCHANGED catalogue
      PROVE  Catalogage'
  BY <1>a, <1>d, CatalogagePas DEF Examen
<1>e. ASSUME NEW d \in Distributions, En(p, "garnir") \/ En(p, "ajouter"),
             catalogue' = catalogue \cup {d}, Suite(p, d)
      PROVE  Catalogage'
  <2> DEFINE proc == [procs[p] EXCEPT
                        !.reste = procs[p].reste \ {d},
                        !.etape = IF procs[p].reste \ {d} = {} THEN "pret" ELSE "garnir"]
  <2>1. Devenir(p, proc)
    BY <1>e DEF Suite
  <2>2. Distributions \ procs[p].reste \subseteq catalogue
    BY <1>e DEF Catalogage
  <2>3. /\ proc.reste = procs[p].reste \ {d}
        /\ proc.etape = "pret" => procs[p].reste \ {d} = {}
    BY <1>0 DEF Demarrant
  <2>4. Distributions \ proc.reste \subseteq catalogue'
    BY <1>e, <2>2, <2>3
  <2>5. proc.etape = "pret" => Distributions \subseteq catalogue'
    BY <1>e, <2>2, <2>3
  <2>6. catalogue \subseteq catalogue'
    BY <1>e
  <2>7. QED BY <1>a, <2>1, <2>4, <2>5, <2>6, CatalogagePas
<1>1. CASE Lancer(p)
  BY <1>1, <1>b DEF Lancer, baseVars
<1>2. CASE LireCle(p)
  <2>1. CASE fichier # 0
    BY <1>2, <2>1, <1>d DEF LireCle, baseVars
  <2>2. CASE fichier = 0
    <3>1. PICK k \in Cles : Devenir(p, [procs[p] EXCEPT !.etape = "ouvrir", !.cle = k])
      BY <1>2, <2>2 DEF LireCle
    <3>2. [procs[p] EXCEPT !.etape = "ouvrir", !.cle = k].etape = "ouvrir"
      BY <1>0 DEF Demarrant
    <3>3. QED BY <1>2, <1>a, <3>1, <3>2, CatalogagePas DEF LireCle, baseVars
  <2>3. QED BY <2>1, <2>2
<1>3. CASE OuvrirCle(p)
  BY <1>3, <1>b DEF OuvrirCle, baseVars
<1>4. CASE EcrireCle(p)
  BY <1>4, <1>d DEF EcrireCle, baseVars
<1>5. CASE Examiner(p)
  <2>1. PICK t \in Objets :
          Devenir(p, [procs[p] EXCEPT
                        !.etape = IF procs[p].reste = {t} THEN "creer" ELSE "examiner",
                        !.reste = @ \ {t},
                        !.plan = IF t \in schema THEN @ ELSE @ \cup ObjetsDe(t)])
    BY <1>5 DEF Examiner
  <2>2. procs'[p].etape \in {"creer", "examiner"} /\ Devenir(p, procs'[p])
    BY <1>0, <2>1 DEF Devenir, DemarrageTypeOK, Demarrant
  <2>3. QED BY <1>5, <1>a, <2>2, CatalogagePas DEF Examiner, baseVars
<1>6. CASE Creer(p)
  <2>1. procs'[p].etape = "creer" /\ Devenir(p, procs'[p])
    BY <1>0, <1>6 DEF Creer, En, Devenir, DemarrageTypeOK, Demarrant
  <2>2. QED BY <1>6, <1>a, <2>1, CatalogagePas DEF Creer
<1>7. CASE FinCreation(p)
  <2>1. procs'[p].etape = "suivre" /\ Devenir(p, procs'[p])
    BY <1>0, <1>7 DEF FinCreation, En, Devenir, DemarrageTypeOK, Demarrant
  <2>2. QED BY <1>7, <1>a, <2>1, CatalogagePas DEF FinCreation, baseVars
<1>8. CASE Suivre(p)
  BY <1>8, <1>b, <1>c DEF Suivre, baseVars, DemarrageTypeOK
<1>9. CASE CreerVersion(p)
  BY <1>9, <1>b, <1>c DEF CreerVersion
<1>10. CASE Inscrire(p)
  BY <1>10, <1>c DEF Inscrire
<1>11. CASE LireDistribution(p)
  <2>1. CASE Mourir(p)
    BY <1>11, <1>a, <2>1, CatalogagePas DEF LireDistribution, Mourir, AZero, baseVars
  <2>2. CASE \E d \in Distributions : d \in catalogue /\ Suite(p, d)
    BY <1>11, <1>e, <2>2 DEF LireDistribution, baseVars
  <2>3. CASE Aller(p, "ajouter")
    <3>1. Distributions \ procs[p].reste \subseteq catalogue
      BY <1>11 DEF LireDistribution, Catalogage
    <3>2. /\ procs'[p].etape = "ajouter" /\ procs'[p].reste = procs[p].reste
          /\ Devenir(p, procs'[p])
      BY <1>0, <2>3 DEF Aller, Devenir, DemarrageTypeOK, Demarrant
    <3>3. QED BY <1>11, <1>a, <3>1, <3>2, CatalogagePas DEF LireDistribution, baseVars
  <2>4. QED BY <1>11, <2>1, <2>2, <2>3 DEF LireDistribution
<1>12. CASE Ajouter(p)
  BY <1>12, <1>e DEF Ajouter
<1>13. QED
  BY <1>1, <1>2, <1>3, <1>4, <1>5, <1>6, <1>7, <1>8, <1>9, <1>10, <1>11, <1>12
  DEF EtapeDemarrage

LEMMA CatalogagePanne ==
  ASSUME DemarrageTypeOK, Catalogage, NEW p \in Processus, PanneDe(p),
         catalogue' = catalogue
  PROVE  Catalogage'
<1>0. procs[p] \in Demarrant /\ catalogue \subseteq Distributions
  BY DEF DemarrageTypeOK
<1>1. CASE Mourir(p)
  BY <1>0, <1>1, CatalogagePas DEF Mourir, AZero
<1>2. CASE \E k, n : Devenir(p, Examen(k, n))
  BY <1>0, <1>2, CatalogagePas DEF Examen
<1>3. CASE AGarnir(p)
  BY <1>0, <1>3, CatalogagePas DEF AGarnir, Demarrant
<1>4. QED
  BY <1>1, <1>2, <1>3
  DEF PanneDe, CreationVerrouillee, MarquageVerrouille, AjoutVerrouille, Tuer

-----------------------------------------------------------------------------
(* The schema, without faults.                                             *)

LEMMA TablesObjets ==
  /\ Tables \subseteq Objets /\ Tables # {}
  /\ \A o \in Objets : TableDe[o] \in Tables /\ TableDe[o] <= o /\ o \in ObjetsDe(TableDe[o])
  /\ \A t : ObjetsDe(t) \subseteq Objets
  BY DemarrageAssumption DEF Tables, ObjetsDe, Objets

(* A step of a process that is outside create_all, before and after or     *)
(* about to begin it.                                                      *)
LEMMA CreationNeutre ==
  ASSUME DemarrageTypeOK, Creation, NEW p \in Processus, NEW proc, Devenir(p, proc),
         schema' = schema, ~En(p, "examiner"), ~En(p, "creer"),
         proc.plan = {}, proc.etape # "creer",
         proc.etape = "examiner" => proc.reste = Tables,
         proc.etape \in Apres => procs[p].etape \in Apres
  PROVE  Creation'
<1>1. procs'[p] = proc /\ \A q \in Processus \ {p} : procs'[q] = procs[q]
  BY DEF Devenir, DemarrageTypeOK
<1>2. \A q \in Processus : Plan(q)' = Plan(q)
  BY <1>1 DEF Creation, Plans, Plan
<1>3. \A q \in Processus : \A o : IndexDu(q, o)' <=> IndexDu(q, o)
  BY <1>2 DEF IndexDu
<1>4. \A q \in Processus : /\ En(q, "creer")' <=> En(q, "creer")
                           /\ En(q, "examiner")' /\ q # p => En(q, "examiner")
                           /\ EnTete(q)' <=> EnTete(q)
  BY <1>1, <1>2 DEF En, EnTete
<1>5. Plans'
  <2>1. \A q \in Processus : ~En(q, "examiner")' /\ ~En(q, "creer")' => Plan(q)' = {}
    BY <1>1, <1>2 DEF Creation, Plans, En
  <2>2. QED BY <1>2, <1>3, <1>4, <2>1 DEF Creation, Plans
<1>6. Manques'
  <2>1. \A q \in Processus, t \in Tables \ schema' :
          En(q, "examiner")' => t \in Plan(q)' \/ t \in procs'[q].reste
    BY <1>1, <1>2 DEF Creation, Manques, En
  <2>2. QED BY <1>2, <1>3, <1>4, <2>1 DEF Creation, Manques
<1>7. Ordre'
  BY DEF Creation, Ordre
<1>8. Releve'
  <2>1. \A q \in Processus : procs'[q].etape \in Apres => procs[q].etape \in Apres
    BY <1>1
  <2>2. QED BY <1>4, <2>1 DEF Creation, Releve, Apres
<1>9. QED BY <1>5, <1>6, <1>7, <1>8 DEF Creation

LEMMA CreationExaminer ==
  ASSUME DemarrageTypeOK, Creation, NEW p \in Processus, Examiner(p)
  PROVE  Creation'
<1>0. procs[p] \in Demarrant
  BY DEF DemarrageTypeOK
<1>a. En(p, "examiner") /\ schema' = schema
  BY DEF Examiner, baseVars
<1>t. PICK t \in Objets :
        /\ t \in procs[p].reste
        /\ Devenir(p, [procs[p] EXCEPT
                        !.etape = IF procs[p].reste = {t} THEN "creer" ELSE "examiner",
                        !.reste = @ \ {t},
                        !.plan = IF t \in schema THEN @ ELSE @ \cup ObjetsDe(t)])
  BY DEF Examiner, Premier
<1>1. /\ procs'[p].etape \in {"creer", "examiner"}
      /\ procs'[p].etape = "creer" => procs[p].reste = {t}
      /\ procs'[p].reste = procs[p].reste \ {t}
      /\ Plan(p)' = IF t \in schema THEN Plan(p) ELSE Plan(p) \cup ObjetsDe(t)
      /\ \A q \in Processus \ {p} : procs'[q] = procs[q] /\ Plan(q)' = Plan(q)
  BY <1>0, <1>t DEF Devenir, DemarrageTypeOK, Demarrant, Plan
<1>2. \A o \in Objets : ~IndexDu(p, o)
  BY <1>a DEF Creation, Plans, En
<1>3. \A o \in Objets : ~IndexDu(p, o)'
  <2> SUFFICES ASSUME NEW o \in Objets, o \in Plan(p)'
               PROVE  TableDe[o] \in Plan(p)'
    BY DEF IndexDu
  <2>1. CASE o \in Plan(p)
    BY <1>1, <1>2, <2>1 DEF IndexDu
  <2>2. CASE o \in ObjetsDe(t) /\ t \notin schema
    <3>1. TableDe[o] = t /\ TableDe[t] = t
      BY <2>2, DemarrageAssumption DEF ObjetsDe
    <3>2. QED BY <1>1, <2>2, <3>1 DEF ObjetsDe
  <2>3. QED BY <1>1, <2>1, <2>2
<1>4. \A q \in Processus \ {p} : \A o : IndexDu(q, o)' <=> IndexDu(q, o)
  BY <1>1 DEF IndexDu
<1>5. \A q \in Processus \ {p} : \A e : En(q, e)' <=> En(q, e)
  BY <1>1 DEF En
<1>6. Plans'
  <2>1. \A o \in Plan(p)' : o \in Tables => ObjetsDe(o) \subseteq Plan(p)'
    <3> SUFFICES ASSUME NEW o \in Plan(p)', o \in Tables
                 PROVE  ObjetsDe(o) \subseteq Plan(p)'
      OBVIOUS
    <3>1. CASE o \in Plan(p)
      BY <1>1, <3>1 DEF Creation, Plans
    <3>2. CASE o \in ObjetsDe(t) /\ t \notin schema
      <4>1. o = t
        BY <3>2 DEF Tables, ObjetsDe
      <4>2. QED BY <1>1, <3>2, <4>1
    <3>3. QED BY <1>1, <3>1, <3>2
  <2>2. ~(~En(p, "examiner")' /\ ~En(p, "creer")')
    BY <1>1 DEF En
  <2>3. \A q \in Processus \ {p} :
          /\ ~En(q, "examiner")' /\ ~En(q, "creer")' => Plan(q)' = {}
          /\ \A o \in Plan(q)' : o \in Tables => ObjetsDe(o) \subseteq Plan(q)'
    BY <1>1, <1>5 DEF Creation, Plans
  <2>4. \A q \in Processus \ {p}, o \in Objets : IndexDu(q, o)' =>
          /\ En(q, "creer")'
          /\ o \notin schema'
          /\ TableDe[o] \in schema'
          /\ \A x \in Plan(q)' : TableDe[o] <= x
          /\ \A r \in Processus \ {q} : ~IndexDu(r, o)'
    BY <1>a, <1>1, <1>3, <1>4, <1>5 DEF Creation, Plans
  <2>5. QED BY <1>3, <2>1, <2>2, <2>3, <2>4 DEF Plans
<1>7. Manques'
  <2>1. ASSUME NEW x \in Tables \ schema
        PROVE  x \in Plan(p)' \/ x \in procs'[p].reste
    <3>1. x \in Plan(p) \/ x \in procs[p].reste
      BY <1>a, <2>1 DEF Creation, Manques
    <3>2. x = t => x \in Plan(p)'
      BY <1>1, <2>1, TablesObjets DEF Tables, ObjetsDe
    <3>3. QED BY <1>1, <3>1, <3>2
  <2>2. procs'[p].etape = "creer" => procs'[p].reste = {}
    BY <1>1
  <2>3. \A q \in Processus, x \in Tables \ schema' :
          /\ En(q, "creer")' => x \in Plan(q)'
          /\ En(q, "examiner")' => x \in Plan(q)' \/ x \in procs'[q].reste
    BY <1>a, <1>1, <1>5, <2>1, <2>2 DEF Creation, Manques, En
  <2>4. \A o \in Objets \ schema' :
          TableDe[o] \in schema' => \E q \in Processus : IndexDu(q, o)'
    BY <1>a, <1>2, <1>4 DEF Creation, Manques
  <2>5. QED BY <2>3, <2>4 DEF Manques
<1>8. Ordre'
  BY <1>a DEF Creation, Ordre
<1>9. Releve'
  <2>1. \A q \in Processus : EnTete(q) => EnTete(q)'
    BY <1>a, <1>1, <1>5 DEF EnTete, En
  <2>2. \A q \in Processus : procs'[q].etape \in Apres => procs[q].etape \in Apres
    BY <1>1 DEF Apres
  <2>3. QED BY <1>a, <2>1, <2>2 DEF Creation, Releve, Apres
<1>10. QED BY <1>6, <1>7, <1>8, <1>9 DEF Creation

LEMMA CreationFin ==
  ASSUME DemarrageTypeOK, Creation, NEW p \in Processus, FinCreation(p)
  PROVE  Creation'
<1>a. En(p, "creer") /\ schema' = schema /\ schema \subseteq Objets
  BY DEF FinCreation, baseVars, DemarrageTypeOK
<1>1. /\ procs'[p].etape = "suivre" /\ Plan(p)' = {}
      /\ \A q \in Processus \ {p} : procs'[q] = procs[q] /\ Plan(q)' = Plan(q)
  BY DEF FinCreation, Devenir, DemarrageTypeOK, Demarrant, Plan
<1>2. Plan(p) \subseteq Objets
  BY DEF DemarrageTypeOK, Demarrant, Plan
<1>3. \A i \in Objets : ~IndexDu(p, i)
  <2> SUFFICES ASSUME NEW i \in Objets, IndexDu(p, i)
               PROVE  FALSE
    OBVIOUS
  <2>1. PICK o \in schema : Premier(o, Plan(p))
    BY DEF FinCreation, IndexDu, Plan
  <2>2. o <= i /\ TableDe[i] <= o /\ o \in Objets /\ TableDe[i] \in Objets
    BY <1>a, <2>1, DemarrageAssumption DEF Premier, IndexDu, Creation, Plans
  <2>3. TableDe[o] <= TableDe[i] /\ TableDe[i] <= TableDe[o]
    BY <2>2, DemarrageAssumption
  <2>4. TableDe[o] = TableDe[i]
    BY <2>2, <2>3, DemarrageAssumption DEF Objets
  <2>5. IndexDu(p, o)
    BY <2>1, <2>4 DEF IndexDu, Premier
  <2>6. QED BY <2>1, <2>2, <2>5 DEF Creation, Plans
<1>4. \A q \in Processus, i \in Objets : IndexDu(q, i)' <=> IndexDu(q, i)
  BY <1>1, <1>3 DEF IndexDu
<1>5. \A q \in Processus \ {p} : \A e : En(q, e)' <=> En(q, e)
  BY <1>1 DEF En
<1>6. ~En(p, "creer")' /\ ~En(p, "examiner")'
  BY <1>1 DEF En
<1>7. Plan(p) = {} => Tables \subseteq schema
  BY <1>a DEF Creation, Manques
<1>8. Plans'
  <2>1. \A i \in Objets : ~IndexDu(p, i)'
    BY <1>3, <1>4
  <2>2. \A q \in Processus \ {p}, i \in Objets : IndexDu(q, i)' =>
          /\ En(q, "creer")'
          /\ i \notin schema'
          /\ TableDe[i] \in schema'
          /\ \A x \in Plan(q)' : TableDe[i] <= x
          /\ \A r \in Processus \ {q} : ~IndexDu(r, i)'
    BY <1>a, <1>1, <1>4, <1>5 DEF Creation, Plans
  <2>3. \A q \in Processus :
          /\ ~En(q, "examiner")' /\ ~En(q, "creer")' => Plan(q)' = {}
          /\ \A o \in Plan(q)' : o \in Tables => ObjetsDe(o) \subseteq Plan(q)'
    BY <1>1, <1>5 DEF Creation, Plans
  <2>4. QED BY <2>1, <2>2, <2>3 DEF Plans
<1>9. Manques'
  BY <1>a, <1>1, <1>4, <1>5, <1>6 DEF Creation, Manques
<1>10. Ordre'
  BY <1>a DEF Creation, Ordre
<1>11. schema # {}
  BY <1>7, TablesObjets DEF FinCreation, Plan
<1>12. Releve'
  <2>1. ASSUME ~(Tables \subseteq schema)
        PROVE  \E q \in Processus : EnTete(q)'
    <3>1. PICK q \in Processus : EnTete(q)
      BY <1>11, <2>1 DEF Creation, Releve
    <3>2. q # p
      BY <1>7, <2>1, <3>1 DEF FinCreation, EnTete, Premier, Plan
    <3>3. QED BY <1>a, <1>1, <1>5, <3>1, <3>2 DEF EnTete
  <2>2. QED BY <1>a, <1>11, <2>1 DEF Releve
<1>13. QED BY <1>8, <1>9, <1>10, <1>12 DEF Creation

(* The creation of a table.                                                *)
LEMMA CreationTable ==
  ASSUME DemarrageTypeOK, Creation, NEW p \in Processus, En(p, "creer"),
         NEW o \in Tables \ schema, Premier(o, Plan(p)), schema' = schema \cup {o},
         Devenir(p, [procs[p] EXCEPT !.plan = @ \ {o}])
  PROVE  Creation'
<1>a. schema \subseteq Objets /\ o \in Objets /\ TableDe[o] = o /\ o \in Plan(p)
      /\ Plan(p) \subseteq Objets
  BY DEF DemarrageTypeOK, Demarrant, Plan, Tables, Premier
<1>1. /\ procs'[p].etape = "creer" /\ Plan(p)' = Plan(p) \ {o}
      /\ \A q \in Processus \ {p} : procs'[q] = procs[q] /\ Plan(q)' = Plan(q)
  BY DEF En, Devenir, DemarrageTypeOK, Demarrant, Plan
<1>2. \A q \in Processus : \A e : En(q, e)' <=> En(q, e)
  BY <1>1 DEF En
<1>3. \A x \in Tables \ schema : o <= x
  BY DEF Creation, Manques, Premier
<1>4. \A i \in Objets : ~IndexDu(p, i)
  <2> SUFFICES ASSUME NEW i \in Objets, IndexDu(p, i)
               PROVE  FALSE
    OBVIOUS
  <2>1. o <= i /\ TableDe[i] <= o /\ TableDe[i] \in schema
    BY <1>a DEF Premier, IndexDu, Creation, Plans
  <2>2. o <= TableDe[i] /\ TableDe[i] \in Objets
    BY <1>a, <2>1, DemarrageAssumption
  <2>3. o = TableDe[i]
    BY <1>a, <2>1, <2>2 DEF Objets
  <2>4. QED BY <2>1, <2>3
<1>5. \A i \in Objets : IndexDu(p, i)' <=> i \in Plan(p) /\ i # o /\ TableDe[i] = o
  BY <1>1, <1>4, <1>a DEF IndexDu
<1>6. \A q \in Processus \ {p}, i \in Objets :
        /\ IndexDu(q, i)' <=> IndexDu(q, i)
        /\ IndexDu(q, i) => i # o /\ TableDe[i] # o
  BY <1>1, <1>a DEF IndexDu, Creation, Plans
<1>7. Plans'
  <2>1. \A q \in Processus :
          /\ ~En(q, "examiner")' /\ ~En(q, "creer")' => Plan(q)' = {}
          /\ \A x \in Plan(q)' : x \in Tables => ObjetsDe(x) \subseteq Plan(q)'
    <3>1. \A x \in Tables : x # o => o \notin ObjetsDe(x)
      BY <1>a DEF ObjetsDe
    <3>2. ASSUME NEW x \in Plan(p)', x \in Tables
          PROVE  ObjetsDe(x) \subseteq Plan(p)'
      BY <1>1, <3>1, <3>2 DEF Creation, Plans
    <3>3. QED BY <1>1, <1>2, <3>2 DEF Creation, Plans, En
  <2>2. ASSUME NEW i \in Objets, IndexDu(p, i)'
        PROVE  /\ En(p, "creer")'
               /\ i \notin schema'
               /\ TableDe[i] \in schema'
               /\ \A x \in Plan(p)' : TableDe[i] <= x
               /\ \A r \in Processus \ {p} : ~IndexDu(r, i)'
    <3>1. TableDe[i] = o /\ i # o
      BY <1>5, <2>2
    <3>2. i \notin schema
      BY <3>1 DEF Creation, Ordre
    <3>3. QED BY <1>1, <1>2, <1>6, <3>1, <3>2 DEF Premier
  <2>3. ASSUME NEW q \in Processus \ {p}, NEW i \in Objets, IndexDu(q, i)'
        PROVE  /\ En(q, "creer")'
               /\ i \notin schema'
               /\ TableDe[i] \in schema'
               /\ \A x \in Plan(q)' : TableDe[i] <= x
               /\ \A r \in Processus \ {q} : ~IndexDu(r, i)'
    <3>1. IndexDu(q, i) /\ i # o /\ TableDe[i] # o
      BY <1>6, <2>3
    <3>2. ~IndexDu(p, i)'
      BY <1>5, <3>1
    <3>3. \A r \in Processus \ {q} : ~IndexDu(r, i)'
      BY <1>6, <3>1, <3>2 DEF Creation, Plans
    <3>4. QED BY <1>1, <1>2, <3>1, <3>3 DEF Creation, Plans
  <2>4. QED BY <2>1, <2>2, <2>3 DEF Plans
<1>8. Manques'
  <2>1. \A q \in Processus, t \in Tables \ schema' :
          /\ En(q, "creer")' => t \in Plan(q)'
          /\ En(q, "examiner")' => t \in Plan(q)' \/ t \in procs'[q].reste
    BY <1>1, <1>2 DEF Creation, Manques, En
  <2>2. ASSUME NEW i \in Objets \ schema', TableDe[i] \in schema'
        PROVE  \E q \in Processus : IndexDu(q, i)'
    <3>1. CASE TableDe[i] = o
      <4>1. i \in Plan(p) /\ i # o
        BY <1>a, <2>2, <3>1 DEF Creation, Plans, ObjetsDe
      <4>2. QED BY <1>5, <3>1, <4>1
    <3>2. CASE TableDe[i] # o
      BY <1>4, <1>6, <2>2, <3>2 DEF Creation, Manques
    <3>3. QED BY <3>1, <3>2
  <2>3. QED BY <2>1, <2>2 DEF Manques
<1>9. Ordre'
  <2>1. ASSUME NEW s \in Tables, NEW t \in Tables, s <= t, t \in schema'
        PROVE  s \in schema'
    <3>1. CASE t = o
      <4>1. s \notin schema => s = o
        BY <1>3, <2>1, <3>1, TablesObjets DEF Objets
      <4>2. QED BY <4>1
    <3>2. CASE t # o
      BY <2>1, <3>2 DEF Creation, Ordre
    <3>3. QED BY <3>1, <3>2
  <2>2. QED BY <1>a, <2>1 DEF Creation, Ordre
<1>10. Releve'
  <2>1. ASSUME NEW x \in Plan(p)'
        PROVE  x \notin schema'
    <3>1. x \in Plan(p) /\ x # o /\ o <= x /\ x \in Objets
      BY <1>a, <1>1 DEF Premier
    <3>2. o <= TableDe[x] /\ TableDe[x] \in Tables
      BY <1>a, <3>1, DemarrageAssumption, TablesObjets
    <3>3. TableDe[x] \notin schema
      BY <3>2 DEF Creation, Ordre
    <3>4. QED BY <3>1, <3>3 DEF Creation, Ordre
  <2>2. EnTete(p)'
    BY <1>2, <2>1 DEF EnTete
  <2>3. QED BY <2>2 DEF Releve
<1>11. QED BY <1>7, <1>8, <1>9, <1>10 DEF Creation

(* The creation of an index.                                               *)
LEMMA CreationIndex ==
  ASSUME DemarrageTypeOK, Creation, NEW p \in Processus, En(p, "creer"),
         NEW o \in Objets \ schema, o \notin Tables, Premier(o, Plan(p)),
         schema' = schema \cup {o}, Devenir(p, [procs[p] EXCEPT !.plan = @ \ {o}])
  PROVE  Creation'
<1>1. /\ procs'[p].etape = "creer" /\ Plan(p)' = Plan(p) \ {o}
      /\ \A q \in Processus \ {p} : procs'[q] = procs[q] /\ Plan(q)' = Plan(q)
  BY DEF En, Devenir, DemarrageTypeOK, Demarrant, Plan
<1>2. \A q \in Processus : \A e : En(q, e)' <=> En(q, e)
  BY <1>1 DEF En
<1>3. \A i \in Objets : TableDe[i] # o
  BY TablesObjets
<1>4. IndexDu(p, o)
  <2>1. TableDe[o] <= o /\ TableDe[o] # o /\ TableDe[o] \in Objets
    BY <1>3, DemarrageAssumption
  <2>2. TableDe[o] \notin Plan(p)
    BY <2>1 DEF Premier, Objets
  <2>3. QED BY <2>2 DEF IndexDu, Premier
<1>5. TableDe[o] \in schema /\ \A q \in Processus \ {p} : ~IndexDu(q, o)
  BY <1>4 DEF Creation, Plans
<1>6. \A q \in Processus, i \in Objets : IndexDu(q, i)' <=> IndexDu(q, i) /\ i # o
  <2>1. \A i \in Objets : IndexDu(p, i)' <=> IndexDu(p, i) /\ i # o
    BY <1>1, <1>3 DEF IndexDu
  <2>2. \A q \in Processus \ {p}, i \in Objets : IndexDu(q, i)' <=> IndexDu(q, i)
    BY <1>1 DEF IndexDu
  <2>3. QED BY <1>5, <2>1, <2>2
<1>7. Plans'
  <2>1. \A x \in Plan(p)' : x \in Tables => ObjetsDe(x) \subseteq Plan(p)'
    <3> SUFFICES ASSUME NEW x \in Plan(p)', x \in Tables
                 PROVE  ObjetsDe(x) \subseteq Plan(p)'
      OBVIOUS
    <3>1. ObjetsDe(x) \subseteq Plan(p)
      BY <1>1 DEF Creation, Plans
    <3>2. o \notin ObjetsDe(x)
      BY <1>1, <1>4 DEF ObjetsDe, IndexDu
    <3>3. QED BY <1>1, <3>1, <3>2
  <2>2. \A q \in Processus :
          /\ ~En(q, "examiner")' /\ ~En(q, "creer")' => Plan(q)' = {}
          /\ \A x \in Plan(q)' : x \in Tables => ObjetsDe(x) \subseteq Plan(q)'
    BY <1>1, <1>2, <2>1 DEF Creation, Plans, En
  <2>3. \A q \in Processus, i \in Objets : IndexDu(q, i)' =>
          /\ En(q, "creer")'
          /\ i \notin schema'
          /\ TableDe[i] \in schema'
          /\ \A x \in Plan(q)' : TableDe[i] <= x
          /\ \A r \in Processus \ {q} : ~IndexDu(r, i)'
    BY <1>1, <1>2, <1>6 DEF Creation, Plans
  <2>4. QED BY <2>2, <2>3 DEF Plans
<1>8. Manques'
  <2>1. \A q \in Processus, t \in Tables \ schema' :
          /\ En(q, "creer")' => t \in Plan(q)'
          /\ En(q, "examiner")' => t \in Plan(q)' \/ t \in procs'[q].reste
    BY <1>1, <1>2 DEF Creation, Manques, En
  <2>2. \A i \in Objets \ schema' :
          TableDe[i] \in schema' => \E q \in Processus : IndexDu(q, i)'
    BY <1>3, <1>6 DEF Creation, Manques
  <2>3. QED BY <2>1, <2>2 DEF Manques
<1>9. Ordre'
  BY <1>5 DEF Creation, Ordre
<1>10. Releve'
  <2>1. ASSUME ~(Tables \subseteq schema')
        PROVE  \E q \in Processus : EnTete(q)'
    <3>1. PICK q \in Processus : EnTete(q)
      BY <1>5, <2>1 DEF Creation, Releve
    <3>2. o \notin Plan(q)'
      BY <1>1, <1>5, <3>1 DEF EnTete, IndexDu
    <3>3. Plan(q)' \subseteq Plan(q)
      BY <1>1
    <3>4. EnTete(q)'
      BY <1>2, <3>1, <3>2, <3>3 DEF EnTete
    <3>5. QED BY <3>4
  <2>2. QED BY <2>1 DEF Releve
<1>11. QED BY <1>7, <1>8, <1>9, <1>10 DEF Creation

LEMMA CreationInv ==
  ASSUME DemarrageTypeOK, Creation, NEW p \in Processus, EtapeDemarrage(p)
  PROVE  Creation'
<1>0. procs[p] \in Demarrant /\ procs[p].etape # "creer" =>
        (procs[p].etape # "examiner" => Plan(p) = {})
  BY DEF Creation, Plans, En
<1>t. procs[p] \in Demarrant
  BY DEF DemarrageTypeOK
<1>a. ASSUME NEW e, e \notin {"creer", "examiner"}, e \in Apres => procs[p].etape \in Apres,
             ~En(p, "creer"), ~En(p, "examiner"), Aller(p, e), schema' = schema
      PROVE  Creation'
  <2> DEFINE proc == [procs[p] EXCEPT !.etape = e]
  <2>1. proc.etape = e /\ proc.plan = {}
    BY <1>0, <1>t, <1>a DEF Demarrant, Plan, En
  <2>2. Devenir(p, proc)
    BY <1>a DEF Aller
  <2>3. QED BY <1>a, <2>1, <2>2, CreationNeutre
<1>b. ASSUME procs[p].etape \in Apres, AGarnir(p), schema' = schema
      PROVE  Creation'
  <2> DEFINE proc == [procs[p] EXCEPT !.etape = "garnir", !.reste = Distributions]
  <2>1. ~En(p, "creer") /\ ~En(p, "examiner")
    BY <1>b DEF En, Apres
  <2>2. proc.etape = "garnir" /\ proc.plan = {}
    BY <1>0, <1>t, <2>1 DEF Demarrant, Plan, En
  <2>3. Devenir(p, proc)
    BY <1>b DEF AGarnir
  <2>4. QED BY <1>b, <2>1, <2>2, <2>3, CreationNeutre
<1>c. ASSUME NEW k, NEW n, ~En(p, "creer"), ~En(p, "examiner"),
             Devenir(p, Examen(k, n)), schema' = schema
      PROVE  Creation'
  BY <1>c, CreationNeutre DEF Examen, Apres
<1>d. ASSUME NEW d, procs[p].etape \in Apres, Suite(p, d), schema' = schema
      PROVE  Creation'
  <2> DEFINE proc == [procs[p] EXCEPT
                        !.reste = procs[p].reste \ {d},
                        !.etape = IF procs[p].reste \ {d} = {} THEN "pret" ELSE "garnir"]
  <2>1. ~En(p, "creer") /\ ~En(p, "examiner")
    BY <1>d DEF En, Apres
  <2>2. proc.etape \in {"pret", "garnir"} /\ proc.plan = {}
    BY <1>0, <1>t, <2>1 DEF Demarrant, Plan, En
  <2>3. Devenir(p, proc)
    BY <1>d DEF Suite
  <2>4. QED BY <1>d, <2>1, <2>2, <2>3, CreationNeutre
<1>1. CASE Lancer(p)
  BY <1>1, <1>a DEF Lancer, baseVars, En, Apres
<1>2. CASE LireCle(p)
  <2>1. CASE fichier # 0
    BY <1>2, <2>1, <1>c DEF LireCle, baseVars, En
  <2>2. CASE fichier = 0
    <3>1. PICK k \in Cles : Devenir(p, [procs[p] EXCEPT !.etape = "ouvrir", !.cle = k])
      BY <1>2, <2>2 DEF LireCle
    <3> DEFINE proc == [procs[p] EXCEPT !.etape = "ouvrir", !.cle = k]
    <3>2. ~En(p, "creer") /\ ~En(p, "examiner")
      BY <1>2 DEF LireCle, En
    <3>3. proc.etape = "ouvrir" /\ proc.plan = {}
      BY <1>0, <1>t, <3>2 DEF Demarrant, Plan, En
    <3>4. QED BY <1>2, <3>1, <3>2, <3>3, CreationNeutre DEF LireCle, baseVars, Apres
  <2>3. QED BY <2>1, <2>2
<1>3. CASE OuvrirCle(p)
  BY <1>3, <1>a DEF OuvrirCle, baseVars, En, Apres
<1>4. CASE EcrireCle(p)
  BY <1>4, <1>c DEF EcrireCle, baseVars, En
<1>5. CASE Examiner(p)
  BY <1>5, CreationExaminer
<1>6. CASE Creer(p)
  <2>1. PICK o \in Objets \ schema :
          /\ Premier(o, Plan(p))
          /\ schema' = schema \cup {o}
          /\ Devenir(p, [procs[p] EXCEPT !.plan = @ \ {o}])
    BY <1>6 DEF Creer, Plan
  <2>2. En(p, "creer")
    BY <1>6 DEF Creer
  <2>3. CASE o \in Tables
    BY <2>1, <2>2, <2>3, CreationTable
  <2>4. CASE o \notin Tables
    BY <2>1, <2>2, <2>4, CreationIndex
  <2>5. QED BY <2>3, <2>4
<1>7. CASE FinCreation(p)
  BY <1>7, CreationFin
<1>8. CASE Suivre(p)
  BY <1>8, <1>a, <1>b DEF Suivre, baseVars, En, Apres, DemarrageTypeOK
<1>9. CASE CreerVersion(p)
  BY <1>9, <1>a, <1>b DEF CreerVersion, En, Apres
<1>10. CASE Inscrire(p)
  BY <1>10, <1>b DEF Inscrire, En, Apres
<1>11. CASE LireDistribution(p)
  <2>1. CASE Mourir(p)
    BY <1>11, <2>1, CreationNeutre DEF LireDistribution, Mourir, AZero, baseVars, En, Apres
  <2>2. CASE \E d \in Distributions : Suite(p, d) \/ Aller(p, "ajouter")
    BY <1>11, <2>2, <1>a, <1>d DEF LireDistribution, baseVars, En, Apres
  <2>3. QED BY <1>11, <2>1, <2>2 DEF LireDistribution
<1>12. CASE Ajouter(p)
  BY <1>12, <1>d DEF Ajouter, En, Apres
<1>13. QED
  BY <1>1, <1>2, <1>3, <1>4, <1>5, <1>6, <1>7, <1>8, <1>9, <1>10, <1>11, <1>12
  DEF EtapeDemarrage

-----------------------------------------------------------------------------
LEMMA DemarrageInitInv == DemarrageInit => IInvDemarrage
<1> SUFFICES ASSUME DemarrageInit PROVE IInvDemarrage
  OBVIOUS
<1>1. DemarrageTypeOK
  BY AZeroType, DemarrageAssumption DEF DemarrageInit, DemarrageTypeOK
<1>2. \A p \in Processus : procs[p] = AZero
  BY DEF DemarrageInit
<1>3. Catalogage
  BY <1>2 DEF Catalogage, En, Pret, AZero
<1>4. \A p \in Processus : Plan(p) = {} /\ procs[p].etape = "arret"
  BY <1>2 DEF Plan, AZero
<1>5. Plans /\ Manques /\ Ordre /\ Releve
  BY <1>4 DEF Plans, Manques, Ordre, Releve, IndexDu, En, DemarrageInit
<1>6. QED BY <1>1, <1>3, <1>5 DEF IInvDemarrage

LEMMA DemarrageNextInv ==
  ASSUME IInvDemarrage, [DemarrageNext]_demarrageVars
  PROVE  IInvDemarrage'
<1>0. DemarrageTypeOK /\ Catalogage /\ (SansPanne => Creation)
  BY DEF IInvDemarrage, Creation
<1>1. ASSUME NEW p \in Processus, EtapeDemarrage(p)
      PROVE  IInvDemarrage'
  <2>1. DemarrageTypeOK'
    BY <1>0, <1>1, EtapeType
  <2>2. Catalogage'
    BY <1>0, <1>1, <2>1, CatalogageInv
  <2>3. pannes' = pannes
    BY <1>1 DEF EtapeDemarrage, Lancer, LireCle, OuvrirCle, EcrireCle, Examiner, Creer,
                FinCreation, Suivre, CreerVersion, Inscrire, LireDistribution, Ajouter
  <2>4. SansPanne' => Creation'
    BY <1>0, <1>1, <2>3, CreationInv DEF SansPanne
  <2>5. QED BY <2>1, <2>2, <2>4 DEF IInvDemarrage, Creation
<1>2. ASSUME NEW p \in Processus, PanneDe(p)
      PROVE  IInvDemarrage'
  <2>1. DemarrageTypeOK' /\ ~SansPanne' /\ catalogue' = catalogue
    BY <1>0, <1>2, PanneDeEffet DEF baseVars
  <2>2. Catalogage'
    BY <1>0, <1>2, <2>1, CatalogagePanne
  <2>3. QED BY <2>1, <2>2 DEF IInvDemarrage
<1>3. ASSUME UNCHANGED demarrageVars
      PROVE  IInvDemarrage'
  BY <1>3
  DEF demarrageVars, baseVars, IInvDemarrage, DemarrageTypeOK, Catalogage, Plans, Manques,
      Ordre, Releve, SansPanne, EnTete, IndexDu, Plan, En, Pret
<1>4. QED BY <1>1, <1>2, <1>3 DEF DemarrageNext

(* The invariant holds of any number of starting processes.                *)
THEOREM InvarianceDemarrage == DemarrageSpec => []IInvDemarrage
<1>1. DemarrageInit => IInvDemarrage
  BY DemarrageInitInv
<1>2. IInvDemarrage /\ [DemarrageNext]_demarrageVars => IInvDemarrage'
  BY DemarrageNextInv
<1>3. QED BY <1>1, <1>2, PTL DEF DemarrageSpec

(* init_db never returns to a process without every distribution in the    *)
(* catalogue, whatever the conflicts and the deaths.                       *)
THEOREM CatalogueToujoursComplet == DemarrageSpec => []CatalogueComplet
<1>1. IInvDemarrage => CatalogueComplet
  BY DEF IInvDemarrage, Catalogage, CatalogueComplet
<1>2. QED BY <1>1, InvarianceDemarrage, PTL

(* Without faults, the concurrent create_all of any number of processes    *)
(* leave a whole schema: somebody always creates what the others leave.    *)
THEOREM SchemaJamaisAbandonne == DemarrageSpec => []SchemaSansPanne
<1>1. ASSUME IInvDemarrage
      PROVE  SchemaSansPanne
  <2> SUFFICES ASSUME SansPanne, NEW p \in Processus, Pret(p),
                      \A q \in Processus : ~En(q, "creer")
               PROVE  schema = Objets
    BY DEF SchemaSansPanne
  <2>1. Plans /\ Manques /\ Ordre /\ Releve /\ schema \subseteq Objets
    BY <1>1 DEF IInvDemarrage, DemarrageTypeOK
  <2>2. schema # {}
    BY <2>1 DEF Releve, Pret, En
  <2>3. Tables \subseteq schema
    BY <2>1, <2>2 DEF Releve, EnTete
  <2>4. \A o \in Objets : TableDe[o] \in schema
    BY <2>3, TablesObjets
  <2>5. \A o \in Objets \ schema : FALSE
    BY <2>1, <2>4 DEF Manques, Plans
  <2>6. QED BY <2>1, <2>5
<1>2. IInvDemarrage => SchemaSansPanne
  BY <1>1
<1>3. QED BY <1>2, InvarianceDemarrage, PTL

(* Whatever the interleaving, the locks and the deaths, each process is at *)
(* a step of its own start, with a plan drawn from the tables, a key it    *)
(* drew or read, and at most TENTATIVES attempts of create_all.            *)
THEOREM DemarrageTypeCorrect == DemarrageSpec => []DemarrageTypeOK
<1>1. IInvDemarrage => DemarrageTypeOK
  BY DEF IInvDemarrage
<1>2. QED BY <1>1, InvarianceDemarrage, PTL
=============================================================================
