----------------------------- MODULE MotsDePasse ------------------------------
(***************************************************************************)
(* The root password of one rental: the encrypted copy in its row, which   *)
(* the vault shows, and the one that its machine accepts.  No transaction  *)
(* covers both.  services.py changes them one after the other, for a new   *)
(* password as for a recovery, and entrypoint.sh gives a machine that      *)
(* starts again the password it was created with.                          *)
(***************************************************************************)
EXTENDS Naturals, FiniteSets

CONSTANTS
  Procs,       \* the Gunicorn processes
  Faucheur,    \* the process that recovers machines
  Conteneurs,  \* container identifiers, drawn in increasing order
  Secrets,     \* passwords, drawn in increasing order: none comes up twice
  Rien,        \* no value
  Fautes,      \* the kinds of fault a run allows
  MaxPannes    \* bound: how many faults a behaviour may have

ASSUME MotsDePasseAssumption ==
  /\ Faucheur \notin Procs
  /\ Conteneurs \subseteq Nat /\ 1 \in Conteneurs
  /\ Secrets \subseteq Nat /\ 1 \in Secrets
  /\ Rien \notin Procs \cup {Faucheur} \cup Conteneurs \cup Secrets
  /\ MaxPannes \in Nat

VARIABLES
  ligne,     \* the row of the instance
  machines,  \* the containers made for this rental
  taches,    \* what each process is doing with the password
  tires,     \* the passwords drawn so far
  donnes,    \* history: the passwords some machine was given
  seul,      \* history: the process that works alone on a sound machine
  fiable,    \* history: nothing has come between the row and the machine
  pannes

mdpVars == <<ligne, machines, taches, tires, donnes, seul, fiable, pannes>>

Acteurs == Procs \cup {Faucheur}

Ligne == [running : BOOLEAN, cid : Conteneurs, mdp : Secrets]

(* "demarre": entrypoint.sh has not applied ROOT_PASSWORD yet.             *)
Machine ==
  [etat     : {"jamais", "demarre", "prete", "supprimee"},
   creation : Secrets \cup {Rien},   \* ROOT_PASSWORD of docker run
   courant  : Secrets \cup {Rien}]   \* what chpasswd last wrote

Tache ==
  [etape : {"repos", "setpass", "run", "deplacer", "ecrire"},
   cid   : Conteneurs \cup {Rien},
   mdp   : Secrets \cup {Rien}]

Repos == [etape |-> "repos", cid |-> Rien, mdp |-> Rien]

MotsDePasseTypeOK ==
  /\ ligne \in Ligne
  /\ machines \in [Conteneurs -> Machine]
  /\ taches \in [Acteurs -> Tache]
  /\ tires \subseteq Secrets
  /\ donnes \subseteq tires
  /\ seul \in Acteurs \cup {Rien}
  /\ fiable \in BOOLEAN
  /\ pannes \in 0..MaxPannes

(* create_instance has written the password the container was created with.*)
MotsDePasseInit ==
  /\ ligne = [running |-> TRUE, cid |-> 1, mdp |-> 1]
  /\ machines = [c \in Conteneurs |->
                   IF c = 1 THEN [etat |-> "demarre", creation |-> 1, courant |-> Rien]
                            ELSE [etat |-> "jamais", creation |-> Rien, courant |-> Rien]]
  /\ taches = [a \in Acteurs |-> Repos]
  /\ tires = {1}
  /\ donnes = {1}
  /\ seul = Rien
  /\ fiable = TRUE
  /\ pannes = 0

-----------------------------------------------------------------------------
Existe(c) == machines[c].etat \in {"demarre", "prete"}

Occupes == {a \in Acteurs : taches[a].etape # "repos"}

Avancer(a, etape) == taches' = [taches EXCEPT ![a].etape = etape]

Finir(a) == taches' = [taches EXCEPT ![a] = Repos]

PanneMdp(f) ==
  /\ f \in Fautes
  /\ pannes < MaxPannes
  /\ pannes' = pannes + 1

(* history: a fault after which row and machine may differ.                *)
Troubler ==
  /\ seul' = Rien
  /\ fiable' = FALSE

(* history: process a begins, alone or not.                                *)
Entrer(a) ==
  LET calme == Occupes = {} /\ machines[ligne.cid].etat = "prete"
  IN  /\ seul' = IF calme THEN a ELSE Rien
      /\ fiable' = (fiable /\ calme)

(* generate_password, and the row as the process has read it.              *)
Commencer(a, etape) ==
  /\ taches[a].etape = "repos"
  /\ ligne.running
  /\ \E s \in Secrets \ tires :
       /\ \A r \in Secrets \ tires : s <= r
       /\ tires' = tires \cup {s}
       /\ taches' = [taches EXCEPT ![a] = [etape |-> etape, cid |-> ligne.cid, mdp |-> s]]
  /\ Entrer(a)

-----------------------------------------------------------------------------
(* regenerer_mot_de_passe                                                  *)

DebutRotation(p) ==
  /\ Commencer(p, "setpass")
  /\ UNCHANGED <<ligne, machines, donnes, pannes>>

(* docker exec entrypoint.sh setpass: the machine has the new password.    *)
Setpass(p) ==
  /\ taches[p].etape = "setpass"
  /\ Existe(taches[p].cid)
  /\ machines' = [machines EXCEPT ![taches[p].cid].courant = taches[p].mdp]
  /\ donnes' = donnes \cup {taches[p].mdp}

SetpassReussi(p) ==
  /\ Setpass(p)
  /\ Avancer(p, "ecrire")
  /\ UNCHANGED <<ligne, tires, seul, fiable, pannes>>

(* The caller hears of a failure: DOCKER_TIMEOUT has passed.               *)
SetpassSansReponse(p) ==
  /\ Setpass(p)
  /\ PanneMdp("exec_sans_reponse")
  /\ Finir(p)
  /\ Troubler
  /\ UNCHANGED <<ligne, tires>>

(* The machine is gone, or the command is refused for another reason.      *)
EchecSetpass(p) ==
  /\ taches[p].etape = "setpass"
  /\ \/ ~Existe(taches[p].cid) /\ UNCHANGED pannes
     \/ PanneMdp("exec_refuse")

(* Variant: the result of docker exec is not looked at.                    *)
SetpassRefuse_Ignore(p) ==
  /\ EchecSetpass(p)
  /\ Avancer(p, "ecrire")
  /\ UNCHANGED <<ligne, machines, tires, donnes, seul, fiable>>

SetpassRefuse(p) ==
  /\ EchecSetpass(p)
  /\ Finir(p)
  /\ UNCHANGED <<ligne, machines, tires, donnes, seul, fiable>>

(* Variant: the column is emptied when there is nothing to encrypt with.   *)
EcrireMdp_Vide(a) ==
  /\ taches[a].etape = "ecrire"
  /\ ligne' = [ligne EXCEPT !.mdp = Rien]
  /\ Finir(a)
  /\ UNCHANGED <<machines, tires, donnes, seul, fiable, pannes>>

(* set_instance_password, by a rotation or by a recovery: whatever the row *)
(* has become.                                                             *)
EcrireMdp(a) ==
  /\ taches[a].etape = "ecrire"
  /\ ligne' = [ligne EXCEPT !.mdp = taches[a].mdp]
  /\ Finir(a)
  /\ fiable' = (fiable \/ seul = a)
  /\ seul' = IF seul = a THEN Rien ELSE seul
  /\ UNCHANGED <<machines, tires, donnes, pannes>>

-----------------------------------------------------------------------------
(* recreer_ailleurs and reprendre_worker                                   *)

(* The worker was declared OFFLINE; its machines may well be alive.        *)
DebutReprise ==
  /\ PanneMdp("noeud_muet")
  /\ Commencer(Faucheur, "run")
  /\ UNCHANGED <<ligne, machines, donnes>>

(* docker run -e ROOT_PASSWORD on another node.                            *)
Creer(c) ==
  /\ taches[Faucheur].etape = "run"
  /\ machines[c].etat = "jamais"
  /\ \A d \in Conteneurs : d < c => machines[d].etat # "jamais"
  /\ machines' = [machines EXCEPT ![c] =
                    [etat |-> "demarre", creation |-> taches[Faucheur].mdp, courant |-> Rien]]
  /\ donnes' = donnes \cup {taches[Faucheur].mdp}

RecreerReussi(c) ==
  /\ Creer(c)
  /\ taches' = [taches EXCEPT ![Faucheur].etape = "deplacer", ![Faucheur].cid = c]
  /\ UNCHANGED <<ligne, tires, seul, fiable, pannes>>

(* No node, or docker run fails: the row is marked stopped.                *)
Renoncer ==
  /\ ligne' = [ligne EXCEPT !.running = FALSE]
  /\ Finir(Faucheur)
  /\ UNCHANGED <<tires, seul, fiable>>

RecreerEchoue ==
  /\ taches[Faucheur].etape = "run"
  /\ Renoncer
  /\ UNCHANGED <<machines, donnes, pannes>>

RecreerSansReponse(c) ==
  /\ Creer(c)
  /\ PanneMdp("run_sans_reponse")
  /\ Renoncer

(* Variant: the recovery stops at move_instance.                           *)
Deplacer_SansMotDePasse ==
  /\ taches[Faucheur].etape = "deplacer"
  /\ ligne' = [ligne EXCEPT !.running = TRUE, !.cid = taches[Faucheur].cid]
  /\ Finir(Faucheur)
  /\ UNCHANGED <<machines, tires, donnes, seul, fiable, pannes>>

(* move_instance; the password comes in a transaction of its own.          *)
Deplacer ==
  /\ taches[Faucheur].etape = "deplacer"
  /\ ligne' = [ligne EXCEPT !.running = TRUE, !.cid = taches[Faucheur].cid]
  /\ Avancer(Faucheur, "ecrire")
  /\ UNCHANGED <<machines, tires, donnes, seul, fiable, pannes>>

-----------------------------------------------------------------------------
(* The machines, and what else happens to them.                            *)

(* entrypoint.sh, at each start.                                           *)
Appliquer(c) ==
  /\ machines[c].etat = "demarre"
  /\ machines' = [machines EXCEPT ![c].etat = "prete", ![c].courant = machines[c].creation]
  /\ UNCHANGED <<ligne, taches, tires, donnes, seul, fiable, pannes>>

(* --restart=always: supervisord dies, the daemon or the node restarts.    *)
Redemarrer(c) ==
  /\ machines[c].etat = "prete"
  /\ PanneMdp("redemarrage")
  /\ machines' = [machines EXCEPT ![c].etat = "demarre"]
  /\ Troubler
  /\ UNCHANGED <<ligne, taches, tires, donnes>>

(* docker rm, then the status: arreter and the Faucheur; the rm alone is   *)
(* also what the purge and an administrator do.                            *)
Detruire(c) ==
  /\ Existe(c)
  /\ machines' = [machines EXCEPT ![c].etat = "supprimee"]
  /\ UNCHANGED <<ligne, taches, tires, donnes, seul, fiable, pannes>>

Clore ==
  /\ ligne.running
  /\ ~Existe(ligne.cid)
  /\ ligne' = [ligne EXCEPT !.running = FALSE]
  /\ UNCHANGED <<machines, taches, tires, donnes, seul, fiable, pannes>>

(* A process is killed, or an exception ends its work.                     *)
Mourir(a) ==
  /\ taches[a].etape # "repos"
  /\ PanneMdp("mort")
  /\ Finir(a)
  /\ Troubler
  /\ UNCHANGED <<ligne, machines, tires, donnes>>

-----------------------------------------------------------------------------
Rotation(p) ==
  \/ DebutRotation(p) \/ SetpassReussi(p) \/ SetpassSansReponse(p) \/ SetpassRefuse(p)

Reprise ==
  \/ DebutReprise \/ RecreerEchoue \/ Deplacer
  \/ \E c \in Conteneurs : RecreerReussi(c) \/ RecreerSansReponse(c)

MotsDePasseNext ==
  \/ \E p \in Procs : Rotation(p)
  \/ Reprise
  \/ \E a \in Acteurs : EcrireMdp(a) \/ Mourir(a)
  \/ \E c \in Conteneurs : Appliquer(c) \/ Redemarrer(c) \/ Detruire(c)
  \/ Clore

MotsDePasseSpec == MotsDePasseInit /\ [][MotsDePasseNext]_mdpVars

-----------------------------------------------------------------------------
(* Properties                                                              *)

(* Whatever fails, the vault never shows a password that no machine of the *)
(* rental was ever given: services.regenerer_mot_de_passe and              *)
(* recreer_ailleurs write the row last.                                    *)
JamaisInvente == ligne.mdp \in donnes

(* Machine c accepts password s, or will once it has started.              *)
Promet(c, s) ==
  CASE machines[c].etat = "prete"   -> machines[c].courant = s
    [] machines[c].etat = "demarre" -> machines[c].creation = s
    [] OTHER -> TRUE

Accord == Promet(ligne.cid, ligne.mdp)

(* The vault is wrong only after a fault or after two operations that      *)
(* overlapped, and the next rotation or recovery that goes through alone   *)
(* puts it right.                                                          *)
CoffreJuste == fiable /\ Occupes = {} => Accord
=============================================================================
