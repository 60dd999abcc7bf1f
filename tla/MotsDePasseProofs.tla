-------------------------- MODULE MotsDePasseProofs ---------------------------
(***************************************************************************)
(* Proofs about MotsDePasse: the vault shows passwords that some machine   *)
(* was given, and the right one unless a fault or an overlap has come      *)
(* between the row and the machine since the last operation that went      *)
(* through alone.                                                          *)
(***************************************************************************)
EXTENDS MotsDePasse, TLAPS

(* What a process at work knows: its container exists or existed, its      *)
(* password was drawn, and given to a machine before it goes to the row.   *)
TacheOK(a) ==
  /\ a \in Procs => taches[a].etape \in {"repos", "setpass", "ecrire"}
  /\ a = Faucheur => taches[a].etape \in {"repos", "run", "deplacer", "ecrire"}
  /\ taches[a].etape # "repos" =>
       /\ taches[a].cid \in Conteneurs
       /\ machines[taches[a].cid].etat # "jamais"
       /\ taches[a].mdp \in tires
  /\ taches[a].etape \in {"deplacer", "ecrire"} => taches[a].mdp \in donnes

Taches ==
  /\ \A a \in Acteurs : TacheOK(a)
  /\ machines[ligne.cid].etat # "jamais"

(* The process that works alone: what it has done, and to which machine.   *)
SeulOK(a) ==
  /\ taches[a].etape = "setpass" =>
       /\ taches[a].cid = ligne.cid
       /\ machines[ligne.cid].etat \in {"prete", "supprimee"}
  /\ taches[a].etape = "deplacer" => Promet(taches[a].cid, taches[a].mdp)
  /\ taches[a].etape = "ecrire" => Promet(ligne.cid, taches[a].mdp)

Ecrivent == \E a \in Acteurs : taches[a].etape = "ecrire"

Confiance ==
  /\ fiable /\ Occupes # {} => seul # Rien
  /\ seul # Rien => Occupes \subseteq {seul} /\ SeulOK(seul)
  /\ fiable /\ ~Ecrivent => Accord

IInvMdp == MotsDePasseTypeOK /\ Taches /\ JamaisInvente /\ Confiance

USE DEF Acteurs

LEMMA InitIInvMdp == MotsDePasseInit => IInvMdp
<1> SUFFICES ASSUME MotsDePasseInit
             PROVE  IInvMdp
  OBVIOUS
<1>1. /\ ligne \in Ligne
      /\ machines \in [Conteneurs -> Machine]
      /\ taches \in [Acteurs -> Tache]
      /\ tires \subseteq Secrets
      /\ donnes \subseteq tires
      /\ seul \in Acteurs \cup {Rien}
      /\ fiable \in BOOLEAN
  BY MotsDePasseAssumption DEF MotsDePasseInit, Ligne, Machine, Tache, Repos
<1>2. pannes \in 0..MaxPannes
  BY MotsDePasseAssumption DEF MotsDePasseInit
<1>3. Taches
  BY MotsDePasseAssumption DEF MotsDePasseInit, Taches, TacheOK, Repos
<1>4. JamaisInvente
  BY DEF MotsDePasseInit, JamaisInvente
<1>5. Confiance
  BY MotsDePasseAssumption DEF MotsDePasseInit, Confiance, Accord, Promet, Occupes, Repos
<1> QED
  BY <1>1, <1>2, <1>3, <1>4, <1>5 DEF IInvMdp, MotsDePasseTypeOK

-----------------------------------------------------------------------------
(* A fault leaves the bound.                                               *)
LEMMA PanneMdpType ==
  ASSUME MotsDePasseTypeOK, NEW f, PanneMdp(f)
  PROVE  pannes' \in 0..MaxPannes
BY MotsDePasseAssumption DEF MotsDePasseTypeOK, PanneMdp

(* generate_password, and the row that was read.                           *)
LEMMA CommencerGarde ==
  ASSUME IInvMdp, NEW a \in Acteurs, NEW etape \in {"setpass", "run"},
         a \in Procs => etape = "setpass", a = Faucheur => etape = "run",
         Commencer(a, etape), UNCHANGED <<ligne, machines, donnes>>
  PROVE  /\ tires' \subseteq Secrets /\ donnes' \subseteq tires'
         /\ taches' \in [Acteurs -> Tache]
         /\ seul' \in Acteurs \cup {Rien}
         /\ fiable' \in BOOLEAN
         /\ Taches' /\ JamaisInvente' /\ Confiance'
<1>1. PICK s \in Secrets \ tires :
        /\ tires' = tires \cup {s}
        /\ taches' = [taches EXCEPT ![a] = [etape |-> etape, cid |-> ligne.cid, mdp |-> s]]
  BY DEF Commencer
<1>2. taches[a].etape = "repos" /\ Entrer(a)
  BY DEF Commencer
<1>3. tires' \subseteq Secrets /\ donnes' \subseteq tires'
  BY <1>1 DEF IInvMdp, MotsDePasseTypeOK
<1>4. taches' \in [Acteurs -> Tache]
  BY <1>1 DEF IInvMdp, MotsDePasseTypeOK, Tache, Ligne
<1>5. seul' \in Acteurs \cup {Rien}
  BY <1>2 DEF Entrer
<1>6. fiable' \in BOOLEAN
  BY <1>2 DEF Entrer
<1>7. Taches'
  BY <1>1, <1>4, MotsDePasseAssumption DEF IInvMdp, MotsDePasseTypeOK, Taches, TacheOK, Ligne
<1>8. JamaisInvente'
  BY DEF IInvMdp, JamaisInvente
<1>9. Confiance'
  <2>1. CASE Occupes = {} /\ machines[ligne.cid].etat = "prete"
    <3>1. seul' = a /\ fiable' = fiable
      BY <1>2, <2>1 DEF Entrer, IInvMdp, MotsDePasseTypeOK
    <3>2. Occupes' \subseteq {a}
      BY <1>1, <2>1 DEF Occupes, IInvMdp, MotsDePasseTypeOK
    <3>3. ~Ecrivent
      BY <2>1 DEF Occupes, Ecrivent
    <3>4. fiable => Accord
      BY <3>3 DEF IInvMdp, Confiance
    <3>5. SeulOK(a)'
      BY <1>1, <2>1 DEF SeulOK, IInvMdp, MotsDePasseTypeOK
    <3>6. a # Rien
      BY MotsDePasseAssumption
    <3>7. Accord' = Accord
      BY DEF Accord, Promet
    <3> QED
      BY <3>1, <3>2, <3>4, <3>5, <3>6, <3>7 DEF Confiance
  <2>2. CASE ~(Occupes = {} /\ machines[ligne.cid].etat = "prete")
    BY <1>2, <2>2 DEF Entrer, Confiance
  <2> QED
    BY <2>1, <2>2
<1> QED
  BY <1>3, <1>4, <1>5, <1>6, <1>7, <1>8, <1>9

LEMMA DebutGarde ==
  ASSUME IInvMdp, DebutReprise \/ \E p \in Procs : DebutRotation(p)
  PROVE  IInvMdp'
<1>1. ASSUME NEW p \in Procs, DebutRotation(p)
      PROVE  IInvMdp'
  <2>1. p # Faucheur
    BY MotsDePasseAssumption
  <2>2. /\ tires' \subseteq Secrets /\ donnes' \subseteq tires'
        /\ taches' \in [Acteurs -> Tache]
        /\ seul' \in Acteurs \cup {Rien}
        /\ fiable' \in BOOLEAN
        /\ Taches' /\ JamaisInvente' /\ Confiance'
    BY <1>1, <2>1, CommencerGarde DEF DebutRotation
  <2> QED
    BY <1>1, <2>2 DEF IInvMdp, MotsDePasseTypeOK, DebutRotation
<1>2. CASE DebutReprise
  <2>1. /\ tires' \subseteq Secrets /\ donnes' \subseteq tires'
        /\ taches' \in [Acteurs -> Tache]
        /\ seul' \in Acteurs \cup {Rien}
        /\ fiable' \in BOOLEAN
        /\ Taches' /\ JamaisInvente' /\ Confiance'
    BY <1>2, CommencerGarde, MotsDePasseAssumption DEF DebutReprise
  <2>2. pannes' \in 0..MaxPannes
    BY <1>2, PanneMdpType DEF IInvMdp, DebutReprise
  <2> QED
    BY <1>2, <2>1, <2>2 DEF IInvMdp, MotsDePasseTypeOK, DebutReprise
<1> QED
  BY <1>1, <1>2

-----------------------------------------------------------------------------
(* The end of what a process does, when it is not about to write the row.  *)
LEMMA FinirGarde ==
  ASSUME IInvMdp, NEW a \in Acteurs, Finir(a)
  PROVE  /\ taches' \in [Acteurs -> Tache]
         /\ \A b \in Acteurs : taches'[b] = IF b = a THEN Repos ELSE taches[b]
         /\ Occupes' \subseteq Occupes
         /\ taches[a].etape # "ecrire" /\ ~Ecrivent' => ~Ecrivent
<1>1. \A b \in Acteurs : taches'[b] = IF b = a THEN Repos ELSE taches[b]
  BY DEF Finir, IInvMdp, MotsDePasseTypeOK
<1>2. taches' \in [Acteurs -> Tache]
  BY DEF Finir, IInvMdp, MotsDePasseTypeOK, Repos, Tache
<1>3. Occupes' \subseteq Occupes
  BY <1>1 DEF Occupes, Repos
<1>4. taches[a].etape # "ecrire" /\ ~Ecrivent' => ~Ecrivent
  BY <1>1 DEF Ecrivent
<1> QED
  BY <1>1, <1>2, <1>3, <1>4

(* docker exec gives the machine its new password.                         *)
LEMMA SetpassReussiGarde ==
  ASSUME IInvMdp, NEW p \in Procs, SetpassReussi(p)
  PROVE  IInvMdp'
<1> DEFINE c == taches[p].cid
           s == taches[p].mdp
<1>1. /\ taches[p].etape = "setpass"
      /\ c \in Conteneurs /\ s \in tires
      /\ machines' = [machines EXCEPT ![c].courant = s]
      /\ donnes' = donnes \cup {s}
      /\ taches' = [taches EXCEPT ![p].etape = "ecrire"]
      /\ UNCHANGED <<ligne, tires, seul, fiable, pannes>>
  BY DEF SetpassReussi, Setpass, Avancer, IInvMdp, Taches, TacheOK
<1>2. MotsDePasseTypeOK'
  BY <1>1 DEF IInvMdp, MotsDePasseTypeOK, Tache, Machine
<1>3. \A d \in Conteneurs : machines'[d].etat = machines[d].etat
  BY <1>1 DEF IInvMdp, MotsDePasseTypeOK
<1>4. \A b \in Acteurs : /\ b # p => taches'[b] = taches[b]
                          /\ taches'[b].cid = taches[b].cid
                          /\ taches'[b].mdp = taches[b].mdp
  BY <1>1 DEF IInvMdp, MotsDePasseTypeOK
<1>5. taches'[p].etape = "ecrire"
  BY <1>1 DEF IInvMdp, MotsDePasseTypeOK
<1>6. Taches'
  <2>1. ASSUME NEW b \in Acteurs
        PROVE  TacheOK(b)'
    <3>1. CASE b = p
      BY <1>1, <1>3, <1>4, <1>5, <3>1, MotsDePasseAssumption
         DEF IInvMdp, Taches, TacheOK
    <3>2. CASE b # p
      <4>1. taches'[b] = taches[b] /\ TacheOK(b)
        BY <1>4, <3>2 DEF IInvMdp, Taches
      <4> QED
        BY <1>1, <1>3, <4>1 DEF TacheOK
    <3> QED
      BY <3>1, <3>2
  <2>2. machines'[ligne'.cid].etat # "jamais"
    BY <1>1, <1>3 DEF IInvMdp, Taches, MotsDePasseTypeOK, Ligne
  <2> QED
    BY <2>1, <2>2 DEF Taches
<1>7. JamaisInvente'
  BY <1>1 DEF IInvMdp, JamaisInvente
<1>8. Confiance'
  <2>1. Occupes' = Occupes /\ p \in Occupes
    BY <1>1, <1>4, <1>5 DEF Occupes
  <2>2. Ecrivent'
    BY <1>5 DEF Ecrivent
  <2>3. ASSUME seul # Rien
        PROVE  SeulOK(p)' /\ seul = p
    <3>1. seul = p /\ SeulOK(p)
      BY <2>1, <2>3 DEF IInvMdp, Confiance
    <3>2. c = ligne.cid /\ machines[c].etat \in {"prete", "supprimee"}
      BY <1>1, <3>1 DEF SeulOK
    <3>3. machines'[c].etat = machines[c].etat /\ machines'[c].courant = s
      BY <1>1 DEF IInvMdp, MotsDePasseTypeOK
    <3>4. taches'[p].mdp = s /\ ligne' = ligne
      BY <1>1, <1>4
    <3> QED
      BY <1>5, <3>1, <3>2, <3>3, <3>4 DEF SeulOK, Promet
  <2> QED
    BY <1>1, <2>1, <2>2, <2>3 DEF IInvMdp, Confiance
<1> QED
  BY <1>2, <1>6, <1>7, <1>8 DEF IInvMdp

(* What FinirGarde becomes for the tasks, when the machines stay known.    *)
LEMMA TachesFinir ==
  ASSUME IInvMdp, NEW a \in Acteurs, Finir(a),
         \A c \in Conteneurs : machines[c].etat # "jamais" => machines'[c].etat # "jamais",
         donnes \subseteq donnes', tires' = tires, ligne'.cid = ligne.cid
  PROVE  Taches'
<1>1. ASSUME NEW b \in Acteurs
      PROVE  TacheOK(b)'
  <2>1. taches'[b] = Repos \/ taches'[b] = taches[b]
    BY FinirGarde
  <2>2. TacheOK(b)
    BY DEF IInvMdp, Taches
  <2> QED
    BY <2>1, <2>2 DEF TacheOK, Repos
<1>2. machines'[ligne'.cid].etat # "jamais"
  BY DEF IInvMdp, Taches, MotsDePasseTypeOK, Ligne
<1> QED
  BY <1>1, <1>2 DEF Taches

(* ... and for the trust, when the row and its machine stay as they were.  *)
LEMMA ConfianceFinir ==
  ASSUME IInvMdp, NEW a \in Acteurs, taches[a].etape \notin {"repos", "ecrire"}, Finir(a),
         UNCHANGED <<seul, fiable>>, ligne'.cid = ligne.cid, ligne'.mdp = ligne.mdp,
         machines'[ligne.cid] = machines[ligne.cid]
  PROVE  Confiance'
<1>1. Occupes' \subseteq Occupes /\ a \in Occupes
  BY FinirGarde DEF Occupes
<1>2. fiable' /\ Occupes' # {} => seul' # Rien
  BY <1>1 DEF IInvMdp, Confiance
<1>3. ASSUME seul # Rien
      PROVE  Occupes' \subseteq {seul'} /\ SeulOK(seul)'
  <2>1. seul = a /\ Occupes \subseteq {seul}
    BY <1>1, <1>3 DEF IInvMdp, Confiance
  <2>2. taches'[a] = Repos
    BY FinirGarde
  <2> QED
    BY <1>1, <2>1, <2>2 DEF SeulOK, Repos
<1>4. fiable' /\ ~Ecrivent' => Accord'
  <2>1. Accord' = Accord
    BY DEF Accord, Promet
  <2> QED
    BY <2>1, FinirGarde DEF IInvMdp, Confiance
<1> QED
  BY <1>2, <1>3, <1>4 DEF Confiance

LEMMA SetpassSansReponseGarde ==
  ASSUME IInvMdp, NEW p \in Procs, SetpassSansReponse(p)
  PROVE  IInvMdp'
<1>1. /\ taches[p].cid \in Conteneurs /\ taches[p].mdp \in tires
      /\ machines' = [machines EXCEPT ![taches[p].cid].courant = taches[p].mdp]
      /\ donnes' = donnes \cup {taches[p].mdp}
      /\ Finir(p)
      /\ seul' = Rien /\ fiable' = FALSE
      /\ UNCHANGED <<ligne, tires>>
  BY DEF SetpassSansReponse, Setpass, Troubler, IInvMdp, Taches, TacheOK
<1>2. pannes' \in 0..MaxPannes
  BY PanneMdpType DEF IInvMdp, SetpassSansReponse
<1>3. machines' \in [Conteneurs -> Machine]
  BY <1>1 DEF IInvMdp, MotsDePasseTypeOK, Machine
<1>4. MotsDePasseTypeOK'
  BY <1>1, <1>2, <1>3, FinirGarde DEF IInvMdp, MotsDePasseTypeOK
<1>5. \A d \in Conteneurs : machines'[d].etat = machines[d].etat
  BY <1>1 DEF IInvMdp, MotsDePasseTypeOK
<1>6. Taches'
  BY <1>1, <1>5, TachesFinir
<1>7. JamaisInvente'
  BY <1>1 DEF IInvMdp, JamaisInvente
<1>8. Confiance'
  BY <1>1 DEF Confiance
<1> QED
  BY <1>4, <1>6, <1>7, <1>8 DEF IInvMdp

LEMMA SetpassRefuseGarde ==
  ASSUME IInvMdp, NEW p \in Procs, SetpassRefuse(p)
  PROVE  IInvMdp'
<1>1. /\ taches[p].etape = "setpass" /\ Finir(p)
      /\ UNCHANGED <<ligne, machines, tires, donnes, seul, fiable>>
  BY DEF SetpassRefuse, EchecSetpass
<1>2. pannes' \in 0..MaxPannes
  BY PanneMdpType DEF IInvMdp, MotsDePasseTypeOK, SetpassRefuse, EchecSetpass
<1>3. MotsDePasseTypeOK'
  BY <1>1, <1>2, FinirGarde DEF IInvMdp, MotsDePasseTypeOK
<1>4. Taches'
  BY <1>1, TachesFinir
<1>5. JamaisInvente'
  BY <1>1 DEF IInvMdp, JamaisInvente
<1>6. Confiance'
  BY <1>1, ConfianceFinir
<1> QED
  BY <1>3, <1>4, <1>5, <1>6 DEF IInvMdp

(* The row receives a password that a machine was given; a process that    *)
(* has worked alone has given it to the machine of the row.                *)
LEMMA EcrireMdpGarde ==
  ASSUME IInvMdp, NEW a \in Acteurs, EcrireMdp(a)
  PROVE  IInvMdp'
<1>1. /\ taches[a].etape = "ecrire" /\ Finir(a)
      /\ taches[a].mdp \in donnes
      /\ ligne' = [ligne EXCEPT !.mdp = taches[a].mdp]
      /\ fiable' = (fiable \/ seul = a)
      /\ seul' = IF seul = a THEN Rien ELSE seul
      /\ UNCHANGED <<machines, tires, donnes, pannes>>
  BY DEF EcrireMdp, IInvMdp, Taches, TacheOK
<1>2. ligne' \in Ligne /\ ligne'.cid = ligne.cid /\ ligne'.mdp = taches[a].mdp
  BY <1>1 DEF IInvMdp, MotsDePasseTypeOK, Ligne
<1>3. fiable' \in BOOLEAN
  BY <1>1 DEF IInvMdp, MotsDePasseTypeOK
<1>4. seul' \in Acteurs \cup {Rien}
  BY <1>1 DEF IInvMdp, MotsDePasseTypeOK
<1>5. MotsDePasseTypeOK'
  BY <1>1, <1>2, <1>3, <1>4, FinirGarde DEF IInvMdp, MotsDePasseTypeOK
<1>6. Taches'
  BY <1>1, <1>2, TachesFinir
<1>7. JamaisInvente'
  BY <1>1, <1>2 DEF JamaisInvente
<1>8. Confiance'
  <2>1. a \in Occupes /\ a # Rien
    BY <1>1, MotsDePasseAssumption DEF Occupes
  <2>2. CASE seul = a
    <3>1. Occupes' = {}
      <4>1. Occupes \subseteq {a}
        BY <2>1, <2>2 DEF IInvMdp, Confiance
      <4>2. taches'[a] = Repos
        BY <1>1, FinirGarde
      <4>3. Occupes' \subseteq Occupes
        BY <1>1, FinirGarde
      <4>4. a \notin Occupes'
        BY <4>2 DEF Occupes, Repos
      <4> QED
        BY <4>1, <4>3, <4>4
    <3>2. Promet(ligne.cid, taches[a].mdp)
      BY <1>1, <2>1, <2>2 DEF IInvMdp, Confiance, SeulOK
    <3>3. Accord'
      BY <1>1, <1>2, <3>2 DEF Accord, Promet
    <3> QED
      BY <1>1, <2>2, <3>1, <3>3 DEF Confiance
  <2>3. CASE seul # a
    <3>1. seul = Rien /\ ~fiable
      BY <2>1, <2>3 DEF IInvMdp, Confiance
    <3> QED
      BY <1>1, <2>3, <3>1 DEF Confiance
  <2> QED
    BY <2>2, <2>3
<1> QED
  BY <1>5, <1>6, <1>7, <1>8 DEF IInvMdp

-----------------------------------------------------------------------------
(* The container that a recovery creates is not the one of the row.        *)
LEMMA CreerGarde ==
  ASSUME IInvMdp, NEW c \in Conteneurs, Creer(c)
  PROVE  /\ machines' \in [Conteneurs -> Machine]
         /\ \A d \in Conteneurs : machines'[d] =
              IF d = c THEN [etat |-> "demarre", creation |-> taches[Faucheur].mdp,
                             courant |-> Rien]
                       ELSE machines[d]
         /\ c # ligne.cid /\ machines[c].etat = "jamais"
         /\ taches[Faucheur].etape = "run" /\ taches[Faucheur].mdp \in tires
         /\ taches[Faucheur].cid # c
         /\ donnes' = donnes \cup {taches[Faucheur].mdp}
<1>1. taches[Faucheur].etape = "run" /\ taches[Faucheur].mdp \in tires
  BY DEF Creer, IInvMdp, Taches, TacheOK
<1>2. taches[Faucheur].mdp \in Secrets
  BY <1>1 DEF IInvMdp, MotsDePasseTypeOK
<1>3. machines' \in [Conteneurs -> Machine]
  BY <1>2 DEF Creer, IInvMdp, MotsDePasseTypeOK, Machine
<1>4. c # ligne.cid /\ machines[c].etat = "jamais" /\ taches[Faucheur].cid # c
  BY <1>1 DEF Creer, IInvMdp, Taches, TacheOK
<1> QED
  BY <1>1, <1>3, <1>4 DEF Creer, IInvMdp, MotsDePasseTypeOK

LEMMA RecreerReussiGarde ==
  ASSUME IInvMdp, NEW c \in Conteneurs, RecreerReussi(c)
  PROVE  IInvMdp'
<1> DEFINE s == taches[Faucheur].mdp
<1>1. /\ Creer(c)
      /\ taches' = [taches EXCEPT ![Faucheur].etape = "deplacer", ![Faucheur].cid = c]
      /\ UNCHANGED <<ligne, tires, seul, fiable, pannes>>
  BY DEF RecreerReussi
<1>2. /\ machines'[c] = [etat |-> "demarre", creation |-> s, courant |-> Rien]
      /\ \A d \in Conteneurs : d # c => machines'[d] = machines[d]
      /\ machines' \in [Conteneurs -> Machine]
      /\ c # ligne.cid /\ machines[c].etat = "jamais"
      /\ taches[Faucheur].etape = "run" /\ s \in tires
      /\ donnes' = donnes \cup {s}
  BY <1>1, CreerGarde
<1>3. /\ \A b \in Acteurs : b # Faucheur => taches'[b] = taches[b]
      /\ taches'[Faucheur].etape = "deplacer" /\ taches'[Faucheur].cid = c
      /\ taches'[Faucheur].mdp = s
  BY <1>1 DEF IInvMdp, MotsDePasseTypeOK
<1>4. taches' \in [Acteurs -> Tache]
  BY <1>1 DEF IInvMdp, MotsDePasseTypeOK, Tache
<1>5. MotsDePasseTypeOK'
  BY <1>1, <1>2, <1>4 DEF IInvMdp, MotsDePasseTypeOK
<1>6. Taches'
  <2>1. ASSUME NEW b \in Acteurs
        PROVE  TacheOK(b)'
    <3>1. CASE b = Faucheur
      BY <1>1, <1>2, <1>3, <3>1, MotsDePasseAssumption DEF TacheOK
    <3>2. CASE b # Faucheur
      <4>1. taches'[b] = taches[b] /\ TacheOK(b)
        BY <1>3, <3>2 DEF IInvMdp, Taches
      <4>2. taches[b].etape # "repos" =>
              machines'[taches[b].cid] = machines[taches[b].cid]
        BY <1>2, <4>1 DEF TacheOK
      <4> QED
        BY <1>1, <1>2, <4>1, <4>2, <3>2 DEF TacheOK
    <3> QED
      BY <3>1, <3>2
  <2>2. machines'[ligne'.cid].etat # "jamais"
    BY <1>1, <1>2 DEF IInvMdp, Taches, MotsDePasseTypeOK, Ligne
  <2> QED
    BY <2>1, <2>2 DEF Taches
<1>7. JamaisInvente'
  BY <1>1, <1>2 DEF IInvMdp, JamaisInvente
<1>8. Confiance'
  <2>1. Occupes' = Occupes /\ Faucheur \in Occupes
    BY <1>2, <1>3 DEF Occupes
  <2>2. ~Ecrivent' => ~Ecrivent
    BY <1>2, <1>3 DEF Ecrivent
  <2>3. Accord' = Accord
    BY <1>1, <1>2 DEF Accord, Promet, IInvMdp, MotsDePasseTypeOK, Ligne
  <2>4. ASSUME seul # Rien
        PROVE  SeulOK(seul)'
    <3>1. seul = Faucheur
      BY <2>1, <2>4 DEF IInvMdp, Confiance
    <3>2. SeulOK(Faucheur)'
      BY <1>2, <1>3 DEF SeulOK, Promet
    <3> QED
      BY <1>1, <3>1, <3>2
  <2> QED
    BY <1>1, <2>1, <2>2, <2>3, <2>4 DEF IInvMdp, Confiance
<1> QED
  BY <1>5, <1>6, <1>7, <1>8 DEF IInvMdp

LEMMA RecreerEchoueGarde ==
  ASSUME IInvMdp, RecreerEchoue
  PROVE  IInvMdp'
<1>1. /\ taches[Faucheur].etape = "run" /\ Finir(Faucheur)
      /\ ligne' = [ligne EXCEPT !.running = FALSE]
      /\ UNCHANGED <<machines, donnes, pannes, tires, seul, fiable>>
  BY DEF RecreerEchoue, Renoncer
<1>2. ligne' \in Ligne /\ ligne'.cid = ligne.cid /\ ligne'.mdp = ligne.mdp
  BY <1>1 DEF IInvMdp, MotsDePasseTypeOK, Ligne
<1>3. MotsDePasseTypeOK'
  BY <1>1, <1>2, FinirGarde DEF IInvMdp, MotsDePasseTypeOK
<1>4. Taches'
  BY <1>1, <1>2, TachesFinir
<1>5. JamaisInvente'
  BY <1>1, <1>2 DEF IInvMdp, JamaisInvente
<1>6. Confiance'
  BY <1>1, <1>2, ConfianceFinir
<1> QED
  BY <1>3, <1>4, <1>5, <1>6 DEF IInvMdp

LEMMA RecreerSansReponseGarde ==
  ASSUME IInvMdp, NEW c \in Conteneurs, RecreerSansReponse(c)
  PROVE  IInvMdp'
<1>1. /\ Creer(c) /\ Finir(Faucheur)
      /\ ligne' = [ligne EXCEPT !.running = FALSE]
      /\ UNCHANGED <<tires, seul, fiable>>
  BY DEF RecreerSansReponse, Renoncer
<1>2. ligne' \in Ligne /\ ligne'.cid = ligne.cid /\ ligne'.mdp = ligne.mdp
  BY <1>1 DEF IInvMdp, MotsDePasseTypeOK, Ligne
<1>3. pannes' \in 0..MaxPannes
  BY PanneMdpType DEF IInvMdp, RecreerSansReponse
<1>4. /\ machines' \in [Conteneurs -> Machine]
      /\ taches[Faucheur].etape = "run" /\ taches[Faucheur].mdp \in tires
      /\ donnes' = donnes \cup {taches[Faucheur].mdp}
      /\ machines'[ligne.cid] = machines[ligne.cid]
      /\ \A d \in Conteneurs : machines[d].etat # "jamais" => machines'[d].etat # "jamais"
  BY <1>1, CreerGarde DEF IInvMdp, MotsDePasseTypeOK, Ligne
<1>5. MotsDePasseTypeOK'
  BY <1>1, <1>2, <1>3, <1>4, FinirGarde DEF IInvMdp, MotsDePasseTypeOK
<1>6. Taches'
  BY <1>1, <1>2, <1>4, TachesFinir
<1>7. JamaisInvente'
  BY <1>2, <1>4 DEF IInvMdp, JamaisInvente
<1>8. Confiance'
  BY <1>1, <1>2, <1>4, ConfianceFinir
<1> QED
  BY <1>5, <1>6, <1>7, <1>8 DEF IInvMdp

LEMMA DeplacerGarde ==
  ASSUME IInvMdp, Deplacer
  PROVE  IInvMdp'
<1> DEFINE c == taches[Faucheur].cid
<1>1. /\ taches[Faucheur].etape = "deplacer"
      /\ c \in Conteneurs /\ machines[c].etat # "jamais"
      /\ ligne' = [ligne EXCEPT !.running = TRUE, !.cid = c]
      /\ taches' = [taches EXCEPT ![Faucheur].etape = "ecrire"]
      /\ UNCHANGED <<machines, tires, donnes, seul, fiable, pannes>>
  BY DEF Deplacer, Avancer, IInvMdp, Taches, TacheOK
<1>2. ligne' \in Ligne /\ ligne'.cid = c /\ ligne'.mdp = ligne.mdp
  BY <1>1 DEF IInvMdp, MotsDePasseTypeOK, Ligne
<1>3. taches' \in [Acteurs -> Tache]
  BY <1>1 DEF IInvMdp, MotsDePasseTypeOK, Tache
<1>4. /\ \A b \in Acteurs : b # Faucheur => taches'[b] = taches[b]
      /\ taches'[Faucheur].etape = "ecrire"
      /\ taches'[Faucheur].cid = c
      /\ taches'[Faucheur].mdp = taches[Faucheur].mdp
  BY <1>1 DEF IInvMdp, MotsDePasseTypeOK
<1>5. MotsDePasseTypeOK'
  BY <1>1, <1>2, <1>3 DEF IInvMdp, MotsDePasseTypeOK
<1>6. Taches'
  <2>1. ASSUME NEW b \in Acteurs
        PROVE  TacheOK(b)'
    BY <1>1, <1>4, MotsDePasseAssumption DEF IInvMdp, Taches, TacheOK
  <2> QED
    BY <1>1, <1>2, <2>1 DEF Taches
<1>7. JamaisInvente'
  BY <1>1, <1>2 DEF IInvMdp, JamaisInvente
<1>8. Confiance'
  <2>1. Occupes' = Occupes /\ Faucheur \in Occupes
    BY <1>1, <1>4 DEF Occupes
  <2>2. Ecrivent'
    BY <1>4 DEF Ecrivent
  <2>3. ASSUME seul # Rien
        PROVE  SeulOK(seul)'
    <3>1. seul = Faucheur /\ Promet(c, taches[Faucheur].mdp)
      BY <1>1, <2>1, <2>3 DEF IInvMdp, Confiance, SeulOK
    <3>2. SeulOK(Faucheur)'
      BY <1>1, <1>2, <1>4, <3>1 DEF SeulOK, Promet
    <3> QED
      BY <1>1, <3>1, <3>2
  <2> QED
    BY <1>1, <2>1, <2>2, <2>3 DEF IInvMdp, Confiance
<1> QED
  BY <1>5, <1>6, <1>7, <1>8 DEF IInvMdp

-----------------------------------------------------------------------------
(* The machines change, and keep what they promise.                        *)
LEMMA ConfianceMachines ==
  ASSUME IInvMdp, UNCHANGED <<ligne, taches, seul, fiable>>,
         \A d \in Conteneurs, s \in Secrets : Promet(d, s) => Promet(d, s)',
         \A d \in Conteneurs : machines[d].etat \in {"prete", "supprimee"}
                               => machines'[d].etat \in {"prete", "supprimee"}
  PROVE  Confiance'
<1>1. Occupes' = Occupes /\ Ecrivent' = Ecrivent
  BY DEF Occupes, Ecrivent
<1>2. ligne.cid \in Conteneurs /\ ligne.mdp \in Secrets
  BY DEF IInvMdp, MotsDePasseTypeOK, Ligne
<1>3. Accord => Accord'
  BY <1>2 DEF Accord, Promet
<1>4. ASSUME NEW a \in Acteurs, SeulOK(a)
      PROVE  SeulOK(a)'
  <2>1. taches[a].etape # "repos" =>
          taches[a].cid \in Conteneurs /\ taches[a].mdp \in Secrets
    BY DEF IInvMdp, MotsDePasseTypeOK, Taches, TacheOK
  <2>2. taches[a].etape = "setpass" => taches'[a].cid = ligne'.cid
                                       /\ machines'[ligne'.cid].etat \in {"prete", "supprimee"}
    BY <1>2, <1>4 DEF SeulOK
  <2>3. taches[a].etape = "deplacer" => Promet(taches[a].cid, taches[a].mdp)'
    BY <1>4, <2>1 DEF SeulOK, Promet
  <2>4. taches[a].etape = "ecrire" => Promet(ligne.cid, taches[a].mdp)'
    BY <1>2, <1>4, <2>1 DEF SeulOK, Promet
  <2> QED
    BY <2>2, <2>3, <2>4 DEF SeulOK
<1> QED
  BY <1>1, <1>3, <1>4 DEF IInvMdp, MotsDePasseTypeOK, Confiance

(* A machine that starts has the password that was promised for it.        *)
LEMMA AppliquerGarde ==
  ASSUME IInvMdp, NEW c \in Conteneurs, Appliquer(c)
  PROVE  IInvMdp'
<1>1. /\ machines[c].etat = "demarre"
      /\ machines' = [machines EXCEPT ![c].etat = "prete", ![c].courant = machines[c].creation]
      /\ UNCHANGED <<ligne, taches, tires, donnes, seul, fiable, pannes>>
  BY DEF Appliquer
<1>2. /\ machines'[c].etat = "prete" /\ machines'[c].courant = machines[c].creation
      /\ \A d \in Conteneurs : d # c => machines'[d] = machines[d]
      /\ machines' \in [Conteneurs -> Machine]
  BY <1>1 DEF IInvMdp, MotsDePasseTypeOK, Machine
<1>3. MotsDePasseTypeOK'
  BY <1>1, <1>2 DEF IInvMdp, MotsDePasseTypeOK
<1>4. \A d \in Conteneurs : machines[d].etat # "jamais" => machines'[d].etat # "jamais"
  BY <1>1, <1>2
<1>5. Taches'
  BY <1>1, <1>4 DEF IInvMdp, MotsDePasseTypeOK, Taches, TacheOK, Ligne
<1>6. JamaisInvente'
  BY <1>1 DEF IInvMdp, JamaisInvente
<1>7. \A d \in Conteneurs, s \in Secrets : Promet(d, s) => Promet(d, s)'
  BY <1>1, <1>2 DEF Promet
<1>8. Confiance'
  <2>1. \A d \in Conteneurs : machines[d].etat \in {"prete", "supprimee"}
                               => machines'[d].etat \in {"prete", "supprimee"}
    BY <1>2
  <2> QED
    BY <1>1, <1>7, <2>1, ConfianceMachines
<1> QED
  BY <1>3, <1>5, <1>6, <1>8 DEF IInvMdp

(* A machine that goes promises nothing any more.                          *)
LEMMA DetruireGarde ==
  ASSUME IInvMdp, NEW c \in Conteneurs, Detruire(c)
  PROVE  IInvMdp'
<1>1. /\ machines' = [machines EXCEPT ![c].etat = "supprimee"]
      /\ UNCHANGED <<ligne, taches, tires, donnes, seul, fiable, pannes>>
  BY DEF Detruire
<1>2. /\ machines'[c].etat = "supprimee"
      /\ \A d \in Conteneurs : d # c => machines'[d] = machines[d]
      /\ machines' \in [Conteneurs -> Machine]
  BY <1>1 DEF IInvMdp, MotsDePasseTypeOK, Machine
<1>3. MotsDePasseTypeOK'
  BY <1>1, <1>2 DEF IInvMdp, MotsDePasseTypeOK
<1>4. \A d \in Conteneurs : machines[d].etat # "jamais" => machines'[d].etat # "jamais"
  BY <1>2
<1>5. Taches'
  BY <1>1, <1>4 DEF IInvMdp, MotsDePasseTypeOK, Taches, TacheOK, Ligne
<1>6. JamaisInvente'
  BY <1>1 DEF IInvMdp, JamaisInvente
<1>7. \A d \in Conteneurs, s \in Secrets : Promet(d, s) => Promet(d, s)'
  BY <1>2 DEF Promet
<1>8. Confiance'
  <2>1. \A d \in Conteneurs : machines[d].etat \in {"prete", "supprimee"}
                               => machines'[d].etat \in {"prete", "supprimee"}
    BY <1>2
  <2> QED
    BY <1>1, <1>7, <2>1, ConfianceMachines
<1> QED
  BY <1>3, <1>5, <1>6, <1>8 DEF IInvMdp

LEMMA RedemarrerGarde ==
  ASSUME IInvMdp, NEW c \in Conteneurs, Redemarrer(c)
  PROVE  IInvMdp'
<1>1. /\ machines' = [machines EXCEPT ![c].etat = "demarre"]
      /\ seul' = Rien /\ fiable' = FALSE
      /\ UNCHANGED <<ligne, taches, tires, donnes>>
  BY DEF Redemarrer, Troubler
<1>2. pannes' \in 0..MaxPannes
  BY PanneMdpType DEF IInvMdp, Redemarrer
<1>3. machines' \in [Conteneurs -> Machine]
  BY <1>1 DEF IInvMdp, MotsDePasseTypeOK, Machine
<1>4. MotsDePasseTypeOK'
  BY <1>1, <1>2, <1>3 DEF IInvMdp, MotsDePasseTypeOK
<1>5. \A d \in Conteneurs : machines[d].etat # "jamais" => machines'[d].etat # "jamais"
  BY <1>1 DEF IInvMdp, MotsDePasseTypeOK
<1>6. Taches'
  BY <1>1, <1>5 DEF IInvMdp, MotsDePasseTypeOK, Taches, TacheOK, Ligne
<1>7. JamaisInvente'
  BY <1>1 DEF IInvMdp, JamaisInvente
<1>8. Confiance'
  BY <1>1 DEF Confiance
<1> QED
  BY <1>4, <1>6, <1>7, <1>8 DEF IInvMdp

LEMMA CloreGarde ==
  ASSUME IInvMdp, Clore
  PROVE  IInvMdp'
<1>1. /\ ligne' = [ligne EXCEPT !.running = FALSE]
      /\ UNCHANGED <<machines, taches, tires, donnes, seul, fiable, pannes>>
  BY DEF Clore
<1>2. ligne' \in Ligne /\ ligne'.cid = ligne.cid /\ ligne'.mdp = ligne.mdp
  BY <1>1 DEF IInvMdp, MotsDePasseTypeOK, Ligne
<1>3. MotsDePasseTypeOK'
  BY <1>1, <1>2 DEF IInvMdp, MotsDePasseTypeOK
<1>4. Taches'
  BY <1>1, <1>2 DEF IInvMdp, Taches, TacheOK
<1>5. JamaisInvente'
  BY <1>1, <1>2 DEF IInvMdp, JamaisInvente
<1>6. Confiance'
  BY <1>1, <1>2 DEF IInvMdp, Confiance, Occupes, Ecrivent, Accord, Promet, SeulOK
<1> QED
  BY <1>3, <1>4, <1>5, <1>6 DEF IInvMdp

LEMMA MourirGarde ==
  ASSUME IInvMdp, NEW a \in Acteurs, Mourir(a)
  PROVE  IInvMdp'
<1>1. /\ Finir(a) /\ seul' = Rien /\ fiable' = FALSE
      /\ UNCHANGED <<ligne, machines, tires, donnes>>
  BY DEF Mourir, Troubler
<1>2. pannes' \in 0..MaxPannes
  BY PanneMdpType DEF IInvMdp, Mourir
<1>3. MotsDePasseTypeOK'
  BY <1>1, <1>2, FinirGarde DEF IInvMdp, MotsDePasseTypeOK
<1>4. Taches'
  BY <1>1, TachesFinir
<1>5. JamaisInvente'
  BY <1>1 DEF IInvMdp, JamaisInvente
<1>6. Confiance'
  BY <1>1 DEF Confiance
<1> QED
  BY <1>3, <1>4, <1>5, <1>6 DEF IInvMdp

-----------------------------------------------------------------------------
LEMMA NextIInvMdp == IInvMdp /\ [MotsDePasseNext]_mdpVars => IInvMdp'
<1> SUFFICES ASSUME IInvMdp, [MotsDePasseNext]_mdpVars
             PROVE  IInvMdp'
  OBVIOUS
<1>1. CASE \E p \in Procs : Rotation(p)
  BY <1>1, DebutGarde, SetpassReussiGarde, SetpassSansReponseGarde, SetpassRefuseGarde
     DEF Rotation
<1>2. CASE Reprise
  BY <1>2, DebutGarde, RecreerEchoueGarde, DeplacerGarde, RecreerReussiGarde,
     RecreerSansReponseGarde DEF Reprise
<1>3. CASE \E a \in Acteurs : EcrireMdp(a) \/ Mourir(a)
  BY <1>3, EcrireMdpGarde, MourirGarde
<1>4. CASE \E c \in Conteneurs : Appliquer(c) \/ Redemarrer(c) \/ Detruire(c)
  BY <1>4, AppliquerGarde, RedemarrerGarde, DetruireGarde
<1>5. CASE Clore
  BY <1>5, CloreGarde
<1>6. CASE UNCHANGED mdpVars
  BY <1>6 DEF mdpVars, IInvMdp, MotsDePasseTypeOK, Taches, TacheOK, JamaisInvente, Confiance,
             Occupes, Ecrivent, Accord, Promet, SeulOK
<1> QED
  BY <1>1, <1>2, <1>3, <1>4, <1>5, <1>6 DEF MotsDePasseNext

LEMMA InvariantMdp == MotsDePasseSpec => []IInvMdp
<1> QED
  BY InitIInvMdp, NextIInvMdp, PTL DEF MotsDePasseSpec

(* The row, the machines and the tasks keep their types.                   *)
THEOREM MotsDePasseTypeCorrect == MotsDePasseSpec => []MotsDePasseTypeOK
<1>1. IInvMdp => MotsDePasseTypeOK
  BY DEF IInvMdp
<1> QED
  BY <1>1, InvariantMdp, PTL

(* services.py writes the row last: whatever fails, the vault shows a      *)
(* password that some machine of the rental was given.                     *)
THEOREM JamaisInventeCorrect == MotsDePasseSpec => []JamaisInvente
<1>1. IInvMdp => JamaisInvente
  BY DEF IInvMdp
<1> QED
  BY <1>1, InvariantMdp, PTL

(* regenerer_mot_de_passe and recreer_ailleurs: after an operation that    *)
(* went through alone, and until a fault or an overlap, the vault shows    *)
(* the password of the machine.                                            *)
THEOREM CoffreJusteCorrect == MotsDePasseSpec => []CoffreJuste
<1>1. IInvMdp => CoffreJuste
  BY DEF IInvMdp, Confiance, CoffreJuste, Occupes, Ecrivent
<1> QED
  BY <1>1, InvariantMdp, PTL
=============================================================================
