------------------------------ MODULE Sessions -------------------------------
(***************************************************************************)
(* Accounts, login throttle, session, vault and one-time display of a      *)
(* password (app.py).  A session is a signed cookie: each request carries  *)
(* the cookie the browser held when it was sent, and its answer replaces   *)
(* the whole cookie, the session being permanent (Flask sends it again     *)
(* with every answer) or modified by a message.  Requests of one browser   *)
(* overlap, and their answers arrive in any order or not at all.           *)
(***************************************************************************)
EXTENDS Naturals, FiniteSets

CONSTANTS
  Comptes,      \* the user names
  Anciens,      \* the accounts that exist at the start
  Machines,     \* the running machines
  Proprietaire, \* their owners
  Procs,        \* the requests served at once
  Rien,         \* no value
  LOGIN_MAX_FAILURES_USER,
  LOGIN_MAX_FAILURES_IP,
  VAULT_WINDOW, \* in clock ticks
  MaxTemps,     \* bound: last instant of the clock
  MaxEchecs     \* bound: failures of one account that are counted

ASSUME SessionsAssumption ==
  /\ Anciens \subseteq Comptes
  /\ Proprietaire \in [Machines -> Comptes]
  /\ Rien \notin Comptes \cup Machines
  /\ IsFiniteSet(Procs)
  /\ LOGIN_MAX_FAILURES_USER \in Nat \ {0}
  /\ LOGIN_MAX_FAILURES_IP \in Nat \ {0}
  /\ VAULT_WINDOW \in Nat \ {0}
  /\ MaxTemps \in Nat
  /\ MaxEchecs \in Nat

VARIABLES
  comptes,    \* the rows of users
  echecs,     \* the failures of each account in the window of the throttle
  navigateur, \* the cookie of the browser
  requetes,   \* the requests being served, and the answers on their way
  instant,    \* time.time()
  prouve,     \* history: the last time each account opened the vault
  connus      \* history: the accounts that logged in or registered

sessionsVars == <<comptes, echecs, navigateur, requetes, instant, prouve, connus>>

Cookie ==
  [user   : Comptes \cup {Rien},
   coffre : Nat,                    \* vault_until; 0: absent
   reveal : Machines \cup {Rien}]

Vide == [user |-> Rien, coffre |-> 0, reveal |-> Rien]

(* "verifier": the throttle is passed, the password is being checked;      *)
(* "reponse": the answer and its cookie are on their way.                  *)
Requete ==
  [etape  : {"libre", "verifier", "reponse"},
   cookie : Cookie,
   but    : {"login", "coffre"},
   compte : Comptes \cup {Rien},
   juste  : BOOLEAN,   \* the password is the right one
   ici    : BOOLEAN]   \* from the browser, or from another client

Libre ==
  [etape |-> "libre", cookie |-> Vide, but |-> "login", compte |-> Rien,
   juste |-> FALSE, ici |-> FALSE]

SessionsTypeOK ==
  /\ comptes \subseteq Comptes
  /\ echecs \in [Comptes -> 0..MaxEchecs]
  /\ navigateur \in Cookie
  /\ requetes \in [Procs -> Requete]
  /\ instant \in 1..(MaxTemps + 1)
  /\ prouve \in [Comptes -> Nat]
  /\ connus \subseteq comptes

SessionsInit ==
  /\ comptes = Anciens
  /\ echecs = [u \in Comptes |-> 0]
  /\ navigateur = Vide
  /\ requetes = [p \in Procs |-> Libre]
  /\ instant = 1
  /\ prouve = [u \in Comptes |-> 0]
  /\ connus = {}

-----------------------------------------------------------------------------
EstLibre(p) == requetes[p].etape = "libre"

(* The answer to a request of the browser, with the cookie k.              *)
Repondre(p, k) ==
  requetes' = [requetes EXCEPT ![p] =
                 [Libre EXCEPT !.etape = "reponse", !.cookie = k, !.ici = TRUE]]

(* count_recent_failures, per account and per address; one address here.   *)
EchecsDe(u) == echecs[u]

SousLimite(u) == EchecsDe(u) < LOGIN_MAX_FAILURES_USER

AdresseSousLimite ==
  LET Total[S \in SUBSET Comptes] ==
        IF S = {} THEN 0
        ELSE LET u == CHOOSE u \in S : TRUE IN echecs[u] + Total[S \ {u}]
  IN  Total[Comptes] < LOGIN_MAX_FAILURES_IP

(* record_login_attempt(success=False)                                     *)
NoterEchec(u) ==
  echecs' = [echecs EXCEPT ![u] = IF @ < MaxEchecs THEN @ + 1 ELSE @]

-----------------------------------------------------------------------------
(* login: the count, then the check of the password and what follows.      *)

Verifier(p, but, u, juste, k, ici) ==
  requetes' = [requetes EXCEPT ![p] =
                 [etape |-> "verifier", cookie |-> k, but |-> but, compte |-> u,
                  juste |-> juste, ici |-> ici]]

(* A browser that is logged in is sent to its dashboard.                   *)
DejaConnecte(p) ==
  /\ EstLibre(p)
  /\ navigateur.user # Rien
  /\ Repondre(p, navigateur)
  /\ UNCHANGED <<comptes, echecs, navigateur, instant, prouve, connus>>

(* Variant: an attempt that is refused is recorded as a failure.           *)
TropDeTentatives_Note(u) == NoterEchec(u)

(* 429: nothing is recorded.                                               *)
TropDeTentatives(u) == UNCHANGED echecs

(* Variant: an account that does not exist is not refused.                 *)
DebutLogin_SansCompte(p, u, juste) ==
  /\ EstLibre(p)
  /\ navigateur.user = Rien
  /\ IF SousLimite(u) /\ AdresseSousLimite
       THEN Verifier(p, "login", u, juste, navigateur, TRUE) /\ UNCHANGED echecs
       ELSE Repondre(p, navigateur) /\ TropDeTentatives(u)
  /\ UNCHANGED <<comptes, navigateur, instant, prouve, connus>>

DebutLogin(p, u, juste) ==
  /\ EstLibre(p)
  /\ navigateur.user = Rien
  /\ IF SousLimite(u) /\ AdresseSousLimite
       THEN Verifier(p, "login", u, juste /\ u \in comptes, navigateur, TRUE) /\ UNCHANGED echecs
       ELSE Repondre(p, navigateur) /\ TropDeTentatives(u)
  /\ UNCHANGED <<comptes, navigateur, instant, prouve, connus>>

(* Another client tries a password that is not the right one.              *)
LoginAilleurs(p, u) ==
  /\ EstLibre(p)
  /\ SousLimite(u)
  /\ AdresseSousLimite
  /\ Verifier(p, "login", u, FALSE, Vide, FALSE)
  /\ UNCHANGED <<comptes, echecs, navigateur, instant, prouve, connus>>

(* Variant: the session is not cleared.                                    *)
NouvelleSession_SansClear(k, u) == [k EXCEPT !.user = u]

(* session.clear(), then the account.                                      *)
NouvelleSession(k, u) == [Vide EXCEPT !.user = u]

LoginReussi(p) ==
  /\ requetes[p].etape = "verifier"
  /\ requetes[p].but = "login"
  /\ requetes[p].juste
  /\ Repondre(p, NouvelleSession(requetes[p].cookie, requetes[p].compte))
  /\ connus' = connus \cup {requetes[p].compte}
  /\ UNCHANGED <<comptes, echecs, navigateur, instant, prouve>>

(* A wrong password, for the login and for the vault.                      *)
MotDePasseRefuse(p) ==
  /\ requetes[p].etape = "verifier"
  /\ ~requetes[p].juste
  /\ NoterEchec(requetes[p].compte)
  /\ IF requetes[p].ici THEN Repondre(p, requetes[p].cookie)
                        ELSE requetes' = [requetes EXCEPT ![p] = Libre]
  /\ UNCHANGED <<comptes, navigateur, instant, prouve, connus>>

(* register: the unique user name decides between concurrent requests; a   *)
(* browser that is logged in may register as well.                         *)
Inscrire(p, u) ==
  /\ EstLibre(p)
  /\ IF u \in comptes
       THEN Repondre(p, navigateur) /\ UNCHANGED <<comptes, connus>>
       ELSE /\ comptes' = comptes \cup {u}
            /\ connus' = connus \cup {u}
            /\ Repondre(p, NouvelleSession(navigateur, u))
  /\ UNCHANGED <<echecs, navigateur, instant, prouve>>

Deconnecter(p) ==
  /\ EstLibre(p)
  /\ Repondre(p, Vide)
  /\ UNCHANGED <<comptes, echecs, navigateur, instant, prouve, connus>>

-----------------------------------------------------------------------------
(* The vault.                                                              *)

(* Variant: the address is looked at instead of the account.               *)
DebutCoffre_SansCompte(p, juste) ==
  /\ EstLibre(p)
  /\ navigateur.user # Rien
  /\ Verifier(p, "coffre", navigateur.user, juste, navigateur, TRUE)
  /\ UNCHANGED <<comptes, echecs, navigateur, instant, prouve, connus>>

(* vault_unlock: the same throttle, by account only.                       *)
DebutCoffre(p, juste) ==
  /\ EstLibre(p)
  /\ navigateur.user # Rien
  /\ IF SousLimite(navigateur.user)
       THEN Verifier(p, "coffre", navigateur.user, juste, navigateur, TRUE)
       ELSE Repondre(p, navigateur)
  /\ UNCHANGED <<comptes, echecs, navigateur, instant, prouve, connus>>

CoffreOuvert(p) ==
  /\ requetes[p].etape = "verifier"
  /\ requetes[p].but = "coffre"
  /\ requetes[p].juste
  /\ Repondre(p, [requetes[p].cookie EXCEPT !.coffre = instant + VAULT_WINDOW])
  /\ prouve' = [prouve EXCEPT ![requetes[p].compte] = instant]
  /\ UNCHANGED <<comptes, echecs, navigateur, instant, connus>>

Verrouiller(p) ==
  /\ EstLibre(p)
  /\ navigateur.user # Rien
  /\ Repondre(p, [navigateur EXCEPT !.coffre = 0])
  /\ UNCHANGED <<comptes, echecs, navigateur, instant, prouve, connus>>

-----------------------------------------------------------------------------
(* The dashboard, and the password that is displayed once.                 *)

(* vault_remaining_seconds                                                 *)
CoffreVisible(k) == k.coffre > instant

(* Variant: an open vault is renewed by each page.                         *)
Afficher_Glissant(p) ==
  /\ EstLibre(p)
  /\ navigateur.user # Rien
  /\ Repondre(p, [navigateur EXCEPT !.reveal = Rien,
                                    !.coffre = IF CoffreVisible(navigateur)
                                                 THEN instant + VAULT_WINDOW ELSE @])
  /\ UNCHANGED <<comptes, echecs, navigateur, instant, prouve, connus>>

(* dashboard consumes the marker.                                          *)
Afficher(p) ==
  /\ EstLibre(p)
  /\ navigateur.user # Rien
  /\ Repondre(p, [navigateur EXCEPT !.reveal = Rien])
  /\ UNCHANGED <<comptes, echecs, navigateur, instant, prouve, connus>>

(* reveal_secret, after a rental or a new password of one's own machine.   *)
Deposer(p, mach) ==
  /\ EstLibre(p)
  /\ navigateur.user = Proprietaire[mach]
  /\ Repondre(p, [navigateur EXCEPT !.reveal = mach])
  /\ UNCHANGED <<comptes, echecs, navigateur, instant, prouve, connus>>

-----------------------------------------------------------------------------
(* The browser, the network and time.                                      *)

Recevoir(p) ==
  /\ requetes[p].etape = "reponse"
  /\ navigateur' = requetes[p].cookie
  /\ requetes' = [requetes EXCEPT ![p] = Libre]
  /\ UNCHANGED <<comptes, echecs, instant, prouve, connus>>

(* A process is killed, or the browser leaves before the answer.           *)
Perdre(p) ==
  /\ ~EstLibre(p)
  /\ requetes' = [requetes EXCEPT ![p] = Libre]
  /\ UNCHANGED <<comptes, echecs, navigateur, instant, prouve, connus>>

(* The cookie outlives PERMANENT_SESSION_LIFETIME.                         *)
CookieExpire ==
  /\ navigateur # Vide
  /\ navigateur' = Vide
  /\ UNCHANGED <<comptes, echecs, requetes, instant, prouve, connus>>

(* LOGIN_WINDOW_MINUTES pass since a failure.                              *)
Oublier(u) ==
  /\ echecs[u] > 0
  /\ echecs' = [echecs EXCEPT ![u] = @ - 1]
  /\ UNCHANGED <<comptes, navigateur, requetes, instant, prouve, connus>>

Tic ==
  /\ instant <= MaxTemps
  /\ instant' = instant + 1
  /\ UNCHANGED <<comptes, echecs, navigateur, requetes, prouve, connus>>

-----------------------------------------------------------------------------
Requeter(p) ==
  \/ DejaConnecte(p) \/ Deconnecter(p) \/ Verrouiller(p) \/ Afficher(p)
  \/ \E u \in Comptes : LoginAilleurs(p, u) \/ Inscrire(p, u)
  \/ \E u \in Comptes, juste \in BOOLEAN : DebutLogin(p, u, juste)
  \/ \E juste \in BOOLEAN : DebutCoffre(p, juste)
  \/ \E mach \in Machines : Deposer(p, mach)

Terminer(p) == LoginReussi(p) \/ MotDePasseRefuse(p) \/ CoffreOuvert(p)

SessionsNext ==
  \/ \E p \in Procs : Requeter(p) \/ Terminer(p) \/ Recevoir(p) \/ Perdre(p)
  \/ CookieExpire \/ Tic
  \/ \E u \in Comptes : Oublier(u)

SessionsSpec == SessionsInit /\ [][SessionsNext]_sessionsVars

(* A request that is being served ends, and failures get old.              *)
SessionsFairSpec ==
  /\ SessionsSpec
  /\ \A p \in Procs : WF_sessionsVars(Terminer(p))
  /\ \A u \in Comptes : WF_sessionsVars(Oublier(u))

-----------------------------------------------------------------------------
(* Properties                                                              *)

(* Every cookie: the browser's, and those of the requests and answers.     *)
Cookies == {navigateur} \cup {requetes[p].cookie : p \in Procs}

(* Failures are counted before the attempt is recorded: each of the other  *)
(* processes may add one beyond the limit, and no more.                    *)
EchecsBornes ==
  \A u \in Comptes :
    echecs[u] <= LOGIN_MAX_FAILURES_USER + Cardinality(Procs) - 1

(* Whatever order the answers of a browser come in, and whatever cookie a  *)
(* late one brings back, the vault is never open to an account longer than *)
(* VAULT_WINDOW after the last time its own password was given.            *)
CoffreBorne ==
  \A k \in Cookies : CoffreVisible(k) =>
    /\ k.user # Rien
    /\ prouve[k.user] > 0
    /\ instant < prouve[k.user] + VAULT_WINDOW

(* A cookie names an account that logged in or registered, and the machine *)
(* whose password it has displayed is one of this account: sessions of two *)
(* users are lost to one another, never mixed.                             *)
SessionPropre ==
  \A k \in Cookies :
    /\ k.user # Rien => k.user \in connus
    /\ k.reveal # Rien => k.user = Proprietaire[k.reveal]

(* A locked account is unlocked by time alone, although its user, or       *)
(* another client, goes on trying.                                         *)
VerrouLeve ==
  \A u \in Comptes : ~SousLimite(u) ~> SousLimite(u)
=============================================================================
