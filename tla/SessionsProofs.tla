---------------------------- MODULE SessionsProofs ----------------------------
(***************************************************************************)
(* Proofs about Sessions: cookies never mix two users nor keep a vault     *)
(* open beyond its window, and concurrent attempts exceed the throttle by  *)
(* one failure per further process at most, for any number of accounts,    *)
(* machines and requests.                                                  *)
(***************************************************************************)
EXTENDS Sessions, FiniteSetTheorems, TLAPS

(* A cookie that the server may have signed.                               *)
CookieOK(k) ==
  /\ k \in Cookie
  /\ k.user # Rien => k.user \in connus
  /\ k.reveal # Rien => k.user = Proprietaire[k.reveal]
  /\ k.coffre > 0 => /\ k.user # Rien
                     /\ prouve[k.user] > 0
                     /\ k.coffre <= prouve[k.user] + VAULT_WINDOW

(* A request whose password is being checked.                              *)
VerifOK(p) ==
  requetes[p].etape = "verifier" =>
    /\ requetes[p].compte \in Comptes
    /\ requetes[p].but = "login" /\ requetes[p].juste => requetes[p].compte \in comptes
    /\ requetes[p].but = "coffre" => requetes[p].cookie.user = requetes[p].compte

CookiesOK ==
  /\ CookieOK(navigateur)
  /\ \A p \in Procs : CookieOK(requetes[p].cookie) /\ VerifOK(p)
  /\ \A u \in Comptes : prouve[u] <= instant

SIInv == SessionsTypeOK /\ CookiesOK

(* What no step undoes: accounts and proofs of a password only grow.       *)
Croit ==
  /\ comptes \subseteq comptes'
  /\ connus \subseteq connus'
  /\ prouve' \in [Comptes -> Nat]
  /\ \A u \in Comptes : prouve[u] <= prouve'[u]

LEMMA VideOK == ASSUME SIInv PROVE CookieOK(Vide)
BY DEF CookieOK, Vide, Cookie

(* A cookie stays good.                                                    *)
LEMMA CookieCroit ==
  ASSUME SIInv, Croit, NEW k, CookieOK(k)
  PROVE  CookieOK(k)'
<1>1. k \in Cookie
  BY DEF CookieOK
<1>2. CASE k.coffre > 0
  <2>1. k.user \in Comptes /\ k.coffre \in Nat
    BY <1>1, <1>2 DEF CookieOK, Cookie
  <2>2. /\ prouve[k.user] \in Nat /\ prouve'[k.user] \in Nat
        /\ prouve[k.user] <= prouve'[k.user]
    BY <2>1 DEF SIInv, SessionsTypeOK, Croit
  <2> QED
    BY <1>2, <2>1, <2>2, SessionsAssumption DEF CookieOK, Croit
<1>3. CASE ~(k.coffre > 0)
  BY <1>3 DEF CookieOK, Croit
<1> QED
  BY <1>2, <1>3

(* The requests other than p keep what they know.                          *)
LEMMA AutresGarde ==
  ASSUME SIInv, Croit, NEW p \in Procs, NEW r,
         requetes' = [requetes EXCEPT ![p] = r],
         \E k : CookieOK(k)' /\ navigateur' = k,
         CookieOK(r.cookie)',
         r \in Requete,
         r.etape = "verifier" =>
           /\ r.compte \in Comptes
           /\ r.but = "login" /\ r.juste => r.compte \in comptes'
           /\ r.but = "coffre" => r.cookie.user = r.compte,
         \A u \in Comptes : prouve'[u] <= instant'
  PROVE  CookiesOK' /\ requetes' \in [Procs -> Requete]
<1>1. requetes' \in [Procs -> Requete]
  BY DEF SIInv, SessionsTypeOK
<1>2. requetes'[p] = r /\ \A q \in Procs : q # p => requetes'[q] = requetes[q]
  BY DEF SIInv, SessionsTypeOK
<1>3. CookieOK(navigateur)'
  OBVIOUS
<1>4. ASSUME NEW q \in Procs
      PROVE  CookieOK(requetes[q].cookie)' /\ VerifOK(q)'
  <2>1. CASE q = p
    BY <1>2, <2>1 DEF VerifOK
  <2>2. CASE q # p
    <3>1. requetes'[q] = requetes[q] /\ CookieOK(requetes[q].cookie) /\ VerifOK(q)
      BY <1>2, <2>2 DEF SIInv, CookiesOK
    <3>2. CookieOK(requetes[q].cookie)'
      BY <3>1, CookieCroit
    <3> QED
      BY <3>1, <3>2 DEF VerifOK, Croit
  <2> QED
    BY <2>1, <2>2
<1> QED
  BY <1>1, <1>3, <1>4 DEF CookiesOK

(* The form of most steps: request p becomes r, the accounts stay.         *)
LEMMA CalmeGarde ==
  ASSUME SIInv, NEW p \in Procs, NEW r,
         requetes' = [requetes EXCEPT ![p] = r],
         UNCHANGED <<comptes, navigateur, instant, prouve, connus>>,
         echecs' \in [Comptes -> 0..MaxEchecs],
         r \in Requete, CookieOK(r.cookie),
         r.etape = "verifier" =>
           /\ r.compte \in Comptes
           /\ r.but = "login" /\ r.juste => r.compte \in comptes
           /\ r.but = "coffre" => r.cookie.user = r.compte
  PROVE  SIInv'
<1>1. Croit
  BY DEF Croit, SIInv, SessionsTypeOK
<1>2. CookieOK(r.cookie)'
  BY <1>1, CookieCroit
<1>3. \E k : CookieOK(k)' /\ navigateur' = k
  BY <1>1, CookieCroit DEF SIInv, CookiesOK
<1>4. \A u \in Comptes : prouve'[u] <= instant'
  BY DEF SIInv, CookiesOK
<1>5. CookiesOK' /\ requetes' \in [Procs -> Requete]
  BY <1>1, <1>2, <1>3, <1>4, AutresGarde
<1> QED
  BY <1>5 DEF SIInv, SessionsTypeOK

LEMMA LibreType == Libre \in Requete /\ Vide \in Cookie /\ Libre.cookie = Vide
                   /\ Libre.etape = "libre"
BY DEF Libre, Requete, Vide, Cookie

(* An answer with a good cookie.                                           *)
LEMMA ReponseGarde ==
  ASSUME SIInv, NEW p \in Procs, NEW k, CookieOK(k), Repondre(p, k),
         UNCHANGED <<comptes, navigateur, instant, prouve, connus>>,
         echecs' \in [Comptes -> 0..MaxEchecs]
  PROVE  SIInv'
<1>1. PICK r : r = [Libre EXCEPT !.etape = "reponse", !.cookie = k, !.ici = TRUE]
  OBVIOUS
<1>2. r \in Requete /\ r.cookie = k /\ r.etape = "reponse"
  BY <1>1 DEF CookieOK, Requete, Libre
<1>3. requetes' = [requetes EXCEPT ![p] = r]
  BY <1>1 DEF Repondre
<1> QED
  BY <1>2, <1>3, CalmeGarde

(* The beginning of a check of a password.                                 *)
LEMMA VerifierGarde ==
  ASSUME SIInv, NEW p \in Procs, NEW but \in {"login", "coffre"}, NEW u \in Comptes,
         NEW juste \in BOOLEAN, NEW k, NEW ici \in BOOLEAN, CookieOK(k),
         but = "login" /\ juste => u \in comptes,
         but = "coffre" => k.user = u,
         Verifier(p, but, u, juste, k, ici),
         UNCHANGED <<comptes, echecs, navigateur, instant, prouve, connus>>
  PROVE  SIInv'
<1>1. PICK r : r = [etape |-> "verifier", cookie |-> k, but |-> but, compte |-> u,
                    juste |-> juste, ici |-> ici]
  OBVIOUS
<1>2. /\ r \in Requete /\ r.cookie = k /\ r.compte = u
      /\ r.but = but /\ r.juste = juste
  BY <1>1 DEF CookieOK, Requete
<1>3. requetes' = [requetes EXCEPT ![p] = r]
  BY <1>1 DEF Verifier
<1>4. echecs' \in [Comptes -> 0..MaxEchecs]
  BY DEF SIInv, SessionsTypeOK
<1> QED
  BY <1>2, <1>3, <1>4, CalmeGarde

LEMMA NoterEchecType ==
  ASSUME SIInv, NEW u \in Comptes, NoterEchec(u)
  PROVE  echecs' \in [Comptes -> 0..MaxEchecs]
<1>1. echecs[u] \in 0..MaxEchecs
  BY DEF SIInv, SessionsTypeOK
<1>2. (IF echecs[u] < MaxEchecs THEN echecs[u] + 1 ELSE echecs[u]) \in 0..MaxEchecs
  BY <1>1, SessionsAssumption
<1> QED
  BY <1>2 DEF NoterEchec, SIInv, SessionsTypeOK

-----------------------------------------------------------------------------
(* The requests that only change the cookie.                               *)
LEMMA PagesGarde ==
  ASSUME SIInv, NEW p \in Procs,
         \/ DejaConnecte(p) \/ Deconnecter(p) \/ Verrouiller(p) \/ Afficher(p)
         \/ \E mach \in Machines : Deposer(p, mach)
  PROVE  SIInv'
<1>1. CookieOK(navigateur) /\ echecs \in [Comptes -> 0..MaxEchecs]
  BY DEF SIInv, CookiesOK, SessionsTypeOK
<1>2. CASE DejaConnecte(p)
  BY <1>1, <1>2, ReponseGarde DEF DejaConnecte
<1>3. CASE Deconnecter(p)
  BY <1>1, <1>3, VideOK, ReponseGarde DEF Deconnecter
<1>4. CASE Verrouiller(p)
  <2>1. CookieOK([navigateur EXCEPT !.coffre = 0])
    BY <1>1 DEF CookieOK, Cookie
  <2> QED
    BY <1>1, <1>4, <2>1, ReponseGarde DEF Verrouiller
<1>5. CASE Afficher(p)
  <2>1. CookieOK([navigateur EXCEPT !.reveal = Rien])
    BY <1>1 DEF CookieOK, Cookie
  <2> QED
    BY <1>1, <1>5, <2>1, ReponseGarde DEF Afficher
<1>6. ASSUME NEW mach \in Machines, Deposer(p, mach)
      PROVE  SIInv'
  <2>1. CookieOK([navigateur EXCEPT !.reveal = mach])
    BY <1>1, <1>6 DEF CookieOK, Cookie, Deposer
  <2> QED
    BY <1>1, <1>6, <2>1, ReponseGarde DEF Deposer
<1> QED
  BY <1>2, <1>3, <1>4, <1>5, <1>6

(* The requests that give a password.                                      *)
LEMMA TentativesGarde ==
  ASSUME SIInv, NEW p \in Procs,
         \/ \E u \in Comptes : LoginAilleurs(p, u)
         \/ \E u \in Comptes, juste \in BOOLEAN : DebutLogin(p, u, juste)
         \/ \E juste \in BOOLEAN : DebutCoffre(p, juste)
  PROVE  SIInv'
<1>1. CookieOK(navigateur) /\ echecs \in [Comptes -> 0..MaxEchecs]
  BY DEF SIInv, CookiesOK, SessionsTypeOK
<1>2. ASSUME NEW u \in Comptes, LoginAilleurs(p, u)
      PROVE  SIInv'
  BY <1>2, VideOK, VerifierGarde DEF LoginAilleurs
<1>3. ASSUME NEW u \in Comptes, NEW juste \in BOOLEAN, DebutLogin(p, u, juste)
      PROVE  SIInv'
  <2>1. CASE SousLimite(u) /\ AdresseSousLimite
    <3>1. (juste /\ u \in comptes) \in BOOLEAN
      OBVIOUS
    <3>2. PICK j \in BOOLEAN : j = (juste /\ u \in comptes)
      BY <3>1
    <3>3. Verifier(p, "login", u, j, navigateur, TRUE)
      BY <1>3, <2>1, <3>2 DEF DebutLogin
    <3>4. UNCHANGED <<comptes, echecs, navigateur, instant, prouve, connus>>
      BY <1>3, <2>1 DEF DebutLogin
    <3> QED
      BY <1>1, <3>2, <3>3, <3>4, VerifierGarde
  <2>2. CASE ~(SousLimite(u) /\ AdresseSousLimite)
    BY <1>1, <1>3, <2>2, ReponseGarde DEF DebutLogin, TropDeTentatives
  <2> QED
    BY <2>1, <2>2
<1>4. ASSUME NEW juste \in BOOLEAN, DebutCoffre(p, juste)
      PROVE  SIInv'
  <2>1. PICK u \in Comptes : u = navigateur.user
    BY <1>1, <1>4 DEF CookieOK, Cookie, DebutCoffre
  <2>2. CASE SousLimite(navigateur.user)
    BY <1>1, <1>4, <2>1, <2>2, VerifierGarde DEF DebutCoffre
  <2>3. CASE ~SousLimite(navigateur.user)
    BY <1>1, <1>4, <2>3, ReponseGarde DEF DebutCoffre
  <2> QED
    BY <2>2, <2>3
<1> QED
  BY <1>2, <1>3, <1>4

LEMMA RefusGarde ==
  ASSUME SIInv, NEW p \in Procs, MotDePasseRefuse(p)
  PROVE  SIInv'
<1>1. requetes[p].compte \in Comptes /\ CookieOK(requetes[p].cookie)
  BY DEF MotDePasseRefuse, SIInv, CookiesOK, VerifOK
<1>2. echecs' \in [Comptes -> 0..MaxEchecs]
  BY <1>1, NoterEchecType DEF MotDePasseRefuse
<1>3. CASE Repondre(p, requetes[p].cookie)
  BY <1>1, <1>2, <1>3, ReponseGarde DEF MotDePasseRefuse
<1>4. CASE requetes' = [requetes EXCEPT ![p] = Libre]
  BY <1>2, <1>4, LibreType, VideOK, CalmeGarde DEF MotDePasseRefuse
<1> QED
  BY <1>3, <1>4 DEF MotDePasseRefuse

-----------------------------------------------------------------------------
(* The answers that say more than the request knew: the new session of an  *)
(* account, and the vault that opens.                                      *)
LEMMA AnnonceGarde ==
  ASSUME SIInv, NEW p \in Procs, NEW k, CookieOK(k)', Croit, Repondre(p, k),
         UNCHANGED <<echecs, navigateur, instant>>,
         comptes' \subseteq Comptes, connus' \subseteq comptes',
         \A u \in Comptes : prouve'[u] <= instant'
  PROVE  SIInv'
<1>1. PICK r : r = [Libre EXCEPT !.etape = "reponse", !.cookie = k, !.ici = TRUE]
  OBVIOUS
<1>2. k \in Cookie
  BY DEF CookieOK
<1>3. r \in Requete /\ r.cookie = k /\ r.etape = "reponse"
  BY <1>1, <1>2 DEF Requete, Libre
<1>4. requetes' = [requetes EXCEPT ![p] = r]
  BY <1>1 DEF Repondre
<1>5. \E n : CookieOK(n)' /\ navigateur' = n
  BY CookieCroit DEF SIInv, CookiesOK
<1>6. CookiesOK' /\ requetes' \in [Procs -> Requete]
  BY <1>3, <1>4, <1>5, AutresGarde
<1> QED
  BY <1>5, <1>6 DEF SIInv, SessionsTypeOK, Croit, CookieOK

LEMMA SessionNeuve ==
  ASSUME NEW k, NEW u \in Comptes, u \in connus'
  PROVE  CookieOK(NouvelleSession(k, u))'
<1>1. PICK n : n = NouvelleSession(k, u)
  OBVIOUS
<1>2. n = [user |-> u, coffre |-> 0, reveal |-> Rien]
  BY <1>1 DEF NouvelleSession, Vide
<1>3. CookieOK(n)'
  BY <1>2 DEF CookieOK, Cookie
<1> QED
  BY <1>1, <1>3

LEMMA LoginReussiGarde ==
  ASSUME SIInv, NEW p \in Procs, LoginReussi(p)
  PROVE  SIInv'
<1>1. PICK u, c : u = requetes[p].compte /\ c = requetes[p].cookie
  OBVIOUS
<1>2. u \in Comptes /\ u \in comptes
  BY <1>1 DEF LoginReussi, SIInv, CookiesOK, VerifOK
<1>3. /\ Repondre(p, NouvelleSession(c, u))
      /\ connus' = connus \cup {u}
      /\ UNCHANGED <<comptes, echecs, navigateur, instant, prouve>>
  BY <1>1 DEF LoginReussi
<1>4. PICK k : k = NouvelleSession(c, u)
  OBVIOUS
<1>5. CookieOK(k)'
  BY <1>2, <1>3, <1>4, SessionNeuve
<1>6. Croit
  BY <1>3 DEF Croit, SIInv, SessionsTypeOK
<1>7. /\ comptes' \subseteq Comptes /\ connus' \subseteq comptes'
      /\ \A v \in Comptes : prouve'[v] <= instant'
  BY <1>2, <1>3 DEF SIInv, SessionsTypeOK, CookiesOK
<1> QED
  BY <1>3, <1>4, <1>5, <1>6, <1>7, AnnonceGarde

LEMMA InscrireGarde ==
  ASSUME SIInv, NEW p \in Procs, NEW u \in Comptes, Inscrire(p, u)
  PROVE  SIInv'
<1>1. CookieOK(navigateur) /\ echecs \in [Comptes -> 0..MaxEchecs]
  BY DEF SIInv, CookiesOK, SessionsTypeOK
<1>2. CASE u \in comptes
  BY <1>1, <1>2, ReponseGarde DEF Inscrire
<1>3. CASE u \notin comptes
  <2>1. PICK c : c = navigateur
    OBVIOUS
  <2>2. /\ Repondre(p, NouvelleSession(c, u))
        /\ comptes' = comptes \cup {u} /\ connus' = connus \cup {u}
        /\ UNCHANGED <<echecs, navigateur, instant, prouve>>
    BY <1>3, <2>1 DEF Inscrire
  <2>3. PICK k : k = NouvelleSession(c, u)
    OBVIOUS
  <2>4. CookieOK(k)'
    BY <2>2, <2>3, SessionNeuve
  <2>5. Croit
    BY <2>2 DEF Croit, SIInv, SessionsTypeOK
  <2>6. /\ comptes' \subseteq Comptes /\ connus' \subseteq comptes'
        /\ \A v \in Comptes : prouve'[v] <= instant'
    BY <2>2 DEF SIInv, SessionsTypeOK, CookiesOK
  <2> QED
    BY <2>2, <2>3, <2>4, <2>5, <2>6, AnnonceGarde
<1> QED
  BY <1>2, <1>3

LEMMA CoffreOuvertGarde ==
  ASSUME SIInv, NEW p \in Procs, CoffreOuvert(p)
  PROVE  SIInv'
<1>1. PICK u, c, t : u = requetes[p].compte /\ c = requetes[p].cookie /\ t = instant
  OBVIOUS
<1>2. u \in Comptes /\ c.user = u /\ CookieOK(c) /\ t \in Nat /\ t >= 1
  BY <1>1 DEF CoffreOuvert, SIInv, CookiesOK, VerifOK, SessionsTypeOK
<1>3. PICK k : k = [c EXCEPT !.coffre = t + VAULT_WINDOW]
  OBVIOUS
<1>4. /\ Repondre(p, k)
      /\ prouve' = [prouve EXCEPT ![u] = t]
      /\ UNCHANGED <<comptes, echecs, navigateur, instant, connus>>
  BY <1>1, <1>3 DEF CoffreOuvert
<1>5. \A v \in Comptes : prouve[v] \in Nat /\ prouve[v] <= t
  BY <1>1 DEF SIInv, SessionsTypeOK, CookiesOK
<1>6. /\ prouve' \in [Comptes -> Nat] /\ prouve'[u] = t
      /\ \A v \in Comptes : v # u => prouve'[v] = prouve[v]
  BY <1>2, <1>4 DEF SIInv, SessionsTypeOK
<1>7. Croit
  BY <1>2, <1>4, <1>5, <1>6 DEF Croit
<1>8. CookieOK(k)'
  <2>1. k \in Cookie /\ k.user = u /\ k.reveal = c.reveal /\ k.coffre = t + VAULT_WINDOW
    BY <1>2, <1>3, SessionsAssumption DEF CookieOK, Cookie
  <2>2. u # Rien
    BY <1>2, SessionsAssumption
  <2>3. /\ u \in connus'
        /\ k.reveal # Rien => k.user = Proprietaire[k.reveal]
    BY <1>2, <1>4, <2>1, <2>2 DEF CookieOK
  <2>4. prouve'[u] > 0 /\ k.coffre <= prouve'[u] + VAULT_WINDOW
    BY <1>2, <1>6, <2>1, SessionsAssumption
  <2> QED
    BY <2>1, <2>2, <2>3, <2>4 DEF CookieOK
<1>9. /\ comptes' \subseteq Comptes /\ connus' \subseteq comptes'
      /\ \A v \in Comptes : prouve'[v] <= instant'
  <2>1. comptes' \subseteq Comptes /\ connus' \subseteq comptes'
    BY <1>4 DEF SIInv, SessionsTypeOK
  <2>2. ASSUME NEW v \in Comptes
        PROVE  prouve'[v] <= instant'
    BY <1>1, <1>2, <1>4, <1>5, <1>6
  <2> QED
    BY <2>1, <2>2
<1> QED
  BY <1>4, <1>7, <1>8, <1>9, AnnonceGarde

-----------------------------------------------------------------------------
(* The browser, the network and time.                                      *)
LEMMA RecevoirGarde ==
  ASSUME SIInv, NEW p \in Procs, Recevoir(p)
  PROVE  SIInv'
<1>1. /\ navigateur' = requetes[p].cookie
      /\ requetes' = [requetes EXCEPT ![p] = Libre]
      /\ UNCHANGED <<comptes, echecs, instant, prouve, connus>>
  BY DEF Recevoir
<1>2. Croit
  BY <1>1 DEF Croit, SIInv, SessionsTypeOK
<1>3. \E k : CookieOK(k)' /\ navigateur' = k
  BY <1>1, <1>2, CookieCroit DEF SIInv, CookiesOK
<1>4. CookieOK(Libre.cookie)'
  BY <1>2, VideOK, LibreType, CookieCroit
<1>5. \A u \in Comptes : prouve'[u] <= instant'
  BY <1>1 DEF SIInv, CookiesOK
<1>6. PICK r : r = Libre
  OBVIOUS
<1>7. CookieOK(r.cookie)' /\ r \in Requete /\ r.etape = "libre"
  BY <1>4, <1>6, LibreType
<1>8. CookiesOK' /\ requetes' \in [Procs -> Requete]
  BY <1>1, <1>2, <1>3, <1>5, <1>6, <1>7, AutresGarde
<1>9. navigateur' \in Cookie
  BY <1>3 DEF CookieOK
<1> QED
  BY <1>1, <1>8, <1>9 DEF SIInv, SessionsTypeOK

LEMMA PerdreGarde ==
  ASSUME SIInv, NEW p \in Procs, Perdre(p)
  PROVE  SIInv'
<1>1. echecs' \in [Comptes -> 0..MaxEchecs]
  BY DEF Perdre, SIInv, SessionsTypeOK
<1> QED
  BY <1>1, LibreType, VideOK, CalmeGarde DEF Perdre

LEMMA CookieExpireGarde ==
  ASSUME SIInv, CookieExpire
  PROVE  SIInv'
<1>1. /\ navigateur' = Vide
      /\ UNCHANGED <<comptes, echecs, requetes, instant, prouve, connus>>
  BY DEF CookieExpire
<1>2. Croit
  BY <1>1 DEF Croit, SIInv, SessionsTypeOK
<1>3. CookieOK(navigateur)'
  BY <1>1, <1>2, VideOK, CookieCroit
<1>4. ASSUME NEW q \in Procs
      PROVE  CookieOK(requetes[q].cookie)' /\ VerifOK(q)'
  <2>1. CookieOK(requetes[q].cookie) /\ VerifOK(q) /\ requetes'[q] = requetes[q]
    BY <1>1 DEF SIInv, CookiesOK
  <2> QED
    BY <1>1, <1>2, <2>1, CookieCroit DEF VerifOK
<1>5. CookiesOK'
  BY <1>1, <1>3, <1>4 DEF SIInv, CookiesOK
<1> QED
  BY <1>1, <1>5, LibreType DEF SIInv, SessionsTypeOK

(* A step that only touches the failures or the clock.                     *)
LEMMA HorlogeGarde ==
  ASSUME SIInv,
         UNCHANGED <<comptes, navigateur, requetes, prouve, connus>>,
         echecs' \in [Comptes -> 0..MaxEchecs],
         instant' \in 1..(MaxTemps + 1), instant <= instant'
  PROVE  SIInv'
<1>1. Croit
  BY DEF Croit, SIInv, SessionsTypeOK
<1>2. CookieOK(navigateur)'
  BY <1>1, CookieCroit DEF SIInv, CookiesOK
<1>3. ASSUME NEW q \in Procs
      PROVE  CookieOK(requetes[q].cookie)' /\ VerifOK(q)'
  <2>1. CookieOK(requetes[q].cookie) /\ VerifOK(q) /\ requetes'[q] = requetes[q]
    BY DEF SIInv, CookiesOK
  <2> QED
    BY <1>1, <2>1, CookieCroit DEF VerifOK
<1>4. ASSUME NEW u \in Comptes
      PROVE  prouve'[u] <= instant'
  <2>1. prouve[u] \in Nat /\ prouve[u] <= instant /\ instant \in Nat /\ instant' \in Nat
    BY SessionsAssumption DEF SIInv, SessionsTypeOK, CookiesOK
  <2> QED
    BY <2>1
<1> QED
  BY <1>2, <1>3, <1>4 DEF SIInv, SessionsTypeOK, CookiesOK

LEMMA TempsGarde ==
  ASSUME SIInv, Tic \/ \E u \in Comptes : Oublier(u)
  PROVE  SIInv'
<1>1. instant \in 1..(MaxTemps + 1) /\ echecs \in [Comptes -> 0..MaxEchecs]
  BY DEF SIInv, SessionsTypeOK
<1>2. CASE Tic
  <2>1. instant' \in 1..(MaxTemps + 1) /\ instant <= instant'
    BY <1>1, <1>2, SessionsAssumption DEF Tic
  <2> QED
    BY <1>1, <1>2, <2>1, HorlogeGarde DEF Tic
<1>3. ASSUME NEW u \in Comptes, Oublier(u)
      PROVE  SIInv'
  <2>1. echecs[u] - 1 \in 0..MaxEchecs
    BY <1>1, <1>3, SessionsAssumption DEF Oublier
  <2>2. echecs' \in [Comptes -> 0..MaxEchecs]
    BY <1>1, <1>3, <2>1 DEF Oublier
  <2> QED
    BY <1>1, <1>3, <2>2, HorlogeGarde DEF Oublier
<1> QED
  BY <1>2, <1>3

-----------------------------------------------------------------------------
LEMMA InitSIInv == SessionsInit => SIInv
<1> SUFFICES ASSUME SessionsInit
             PROVE  SIInv
  OBVIOUS
<1>1. /\ comptes \subseteq Comptes /\ connus \subseteq comptes
      /\ navigateur \in Cookie
      /\ requetes \in [Procs -> Requete]
  BY LibreType, SessionsAssumption DEF SessionsInit
<1>2. /\ echecs \in [Comptes -> 0..MaxEchecs]
      /\ instant \in 1..(MaxTemps + 1)
      /\ prouve \in [Comptes -> Nat]
  BY SessionsAssumption DEF SessionsInit
<1>3. CookiesOK
  BY LibreType DEF SessionsInit, CookiesOK, CookieOK, VerifOK, Vide
<1> QED
  BY <1>1, <1>2, <1>3 DEF SIInv, SessionsTypeOK

LEMMA NextSIInv == SIInv /\ [SessionsNext]_sessionsVars => SIInv'
<1> SUFFICES ASSUME SIInv, [SessionsNext]_sessionsVars
             PROVE  SIInv'
  OBVIOUS
<1>1. ASSUME NEW p \in Procs, Requeter(p)
      PROVE  SIInv'
  BY <1>1, PagesGarde, TentativesGarde, InscrireGarde DEF Requeter
<1>2. ASSUME NEW p \in Procs, Terminer(p) \/ Recevoir(p) \/ Perdre(p)
      PROVE  SIInv'
  BY <1>2, LoginReussiGarde, RefusGarde, CoffreOuvertGarde, RecevoirGarde, PerdreGarde
     DEF Terminer
<1>3. CASE CookieExpire \/ Tic \/ \E u \in Comptes : Oublier(u)
  BY <1>3, CookieExpireGarde, TempsGarde
<1>4. CASE UNCHANGED sessionsVars
  BY <1>4 DEF sessionsVars, SIInv, SessionsTypeOK, CookiesOK, CookieOK, VerifOK
<1> QED
  BY <1>1, <1>2, <1>3, <1>4 DEF SessionsNext

LEMMA InvariantSI == SessionsSpec => []SIInv
<1> QED
  BY InitSIInv, NextSIInv, PTL DEF SessionsSpec

(* The accounts, the cookies and the requests keep their types.            *)
THEOREM SessionsTypeCorrect == SessionsSpec => []SessionsTypeOK
<1>1. SIInv => SessionsTypeOK
  BY DEF SIInv
<1> QED
  BY <1>1, InvariantSI, PTL

(* app.py clears the session at each login and registration: no order of   *)
(* the answers mixes two accounts in one cookie.                           *)
THEOREM SessionPropreCorrect == SessionsSpec => []SessionPropre
<1>1. SIInv => SessionPropre
  BY DEF SIInv, CookiesOK, CookieOK, SessionPropre, Cookies
<1> QED
  BY <1>1, InvariantSI, PTL

(* vault_unlock and vault_remaining_seconds: no cookie, new or late, keeps *)
(* a vault open more than VAULT_WINDOW after the password was given.       *)
THEOREM CoffreBorneCorrect == SessionsSpec => []CoffreBorne
<1>1. ASSUME SIInv, NEW k \in Cookies, CoffreVisible(k)
      PROVE  /\ k.user # Rien
             /\ prouve[k.user] > 0
             /\ instant < prouve[k.user] + VAULT_WINDOW
  <2>1. CookieOK(k)
    BY <1>1 DEF SIInv, CookiesOK, Cookies
  <2>2. k.coffre \in Nat /\ instant \in Nat /\ k.coffre > instant
    BY <1>1, <2>1, SessionsAssumption DEF CookieOK, Cookie, SIInv, SessionsTypeOK, CoffreVisible
  <2>3. k.coffre > 0
    BY <2>2
  <2>4. /\ k.user # Rien /\ prouve[k.user] > 0
        /\ k.coffre <= prouve[k.user] + VAULT_WINDOW
    BY <2>1, <2>3 DEF CookieOK
  <2>5. prouve[k.user] \in Nat
    BY <1>1, <2>1, <2>4 DEF CookieOK, Cookie, SIInv, SessionsTypeOK
  <2> QED
    BY <2>2, <2>4, <2>5, SessionsAssumption
<1>2. SIInv => CoffreBorne
  BY <1>1 DEF CoffreBorne
<1> QED
  BY <1>2, InvariantSI, PTL

-----------------------------------------------------------------------------
(* The throttle.  Each request that passed the count may add a failure: an *)
(* account has at most LOGIN_MAX_FAILURES_USER - 1 of them when a request  *)
(* passes, and one request per process adds to them later.                 *)
EnVerification(u) ==
  {p \in Procs : requetes[p].etape = "verifier" /\ requetes[p].compte = u}

Marge == LOGIN_MAX_FAILURES_USER + Cardinality(Procs) - 1

EchecsAttendus ==
  \A u \in Comptes : echecs[u] + Cardinality(EnVerification(u)) <= Marge

LEMMA CardProcs ==
  /\ Cardinality(Procs) \in Nat
  /\ \A S \in SUBSET Procs :
       /\ IsFiniteSet(S)
       /\ Cardinality(S) \in Nat
       /\ Cardinality(S) <= Cardinality(Procs)
<1>1. IsFiniteSet(Procs)
  BY SessionsAssumption
<1>2. ASSUME NEW S \in SUBSET Procs
      PROVE  /\ IsFiniteSet(S)
             /\ Cardinality(S) \in Nat
             /\ Cardinality(S) <= Cardinality(Procs)
  BY <1>1, FS_Subset, FS_CardinalityType
<1> QED
  BY <1>1, <1>2, FS_CardinalityType

(* Three ways for a step to keep the sum of one account below the margin.  *)
LEMMA SommeGarde ==
  ASSUME SIInv, EchecsAttendus, NEW u \in Comptes, echecs'[u] \in Nat,
         \/ echecs'[u] <= echecs[u] /\ EnVerification(u)' \subseteq EnVerification(u)
         \/ echecs'[u] < LOGIN_MAX_FAILURES_USER
         \/ \E p \in EnVerification(u) :
              /\ echecs'[u] <= echecs[u] + 1
              /\ EnVerification(u)' \subseteq EnVerification(u) \ {p}
  PROVE  echecs'[u] + Cardinality(EnVerification(u)') <= Marge
<1> DEFINE V == EnVerification(u)
           W == EnVerification(u)'
<1>1. V \in SUBSET Procs /\ W \in SUBSET Procs
  BY DEF EnVerification
<1>2. /\ Cardinality(V) \in Nat /\ Cardinality(W) \in Nat /\ IsFiniteSet(V)
      /\ Cardinality(W) <= Cardinality(Procs) /\ Cardinality(Procs) \in Nat
  BY <1>1, CardProcs
<1>3. echecs[u] \in Nat /\ echecs[u] + Cardinality(V) <= Marge
  BY SessionsAssumption DEF SIInv, SessionsTypeOK, EchecsAttendus
<1>4. CASE echecs'[u] <= echecs[u] /\ W \subseteq V
  <2>1. Cardinality(W) <= Cardinality(V)
    BY <1>2, <1>4, FS_Subset
  <2> QED
    BY <1>2, <1>3, <1>4, <2>1, SessionsAssumption DEF Marge
<1>5. CASE echecs'[u] < LOGIN_MAX_FAILURES_USER
  BY <1>2, <1>5, SessionsAssumption DEF Marge
<1>6. ASSUME NEW p \in V, echecs'[u] <= echecs[u] + 1, W \subseteq V \ {p}
      PROVE  echecs'[u] + Cardinality(W) <= Marge
  <2>1. IsFiniteSet(V \ {p}) /\ Cardinality(V \ {p}) = Cardinality(V) - 1
    BY <1>2, FS_RemoveElement
  <2>2. Cardinality(W) <= Cardinality(V) - 1
    BY <1>6, <2>1, FS_Subset
  <2> QED
    BY <1>2, <1>3, <1>6, <2>2, SessionsAssumption DEF Marge
<1> QED
  BY <1>4, <1>5, <1>6

(* A step of request p: the account that it concerns, if any, is below its *)
(* limit, or the request leaves the check.                                 *)
LEMMA RequeteSomme ==
  ASSUME SIInv, NEW p \in Procs, NEW r, r.etape # "verifier",
         requetes' = [requetes EXCEPT ![p] = r]
  PROVE  \A u \in Comptes : EnVerification(u)' \subseteq EnVerification(u) \ {p}
BY DEF EnVerification, SIInv, SessionsTypeOK

LEMMA ReponseSomme ==
  ASSUME SIInv, NEW p \in Procs, NEW k, Repondre(p, k)
  PROVE  \A u \in Comptes : EnVerification(u)' \subseteq EnVerification(u) \ {p}
<1>1. PICK r : r = [Libre EXCEPT !.etape = "reponse", !.cookie = k, !.ici = TRUE]
  OBVIOUS
<1>2. r.etape # "verifier"
  BY <1>1 DEF Libre
<1> QED
  BY <1>1, <1>2, RequeteSomme DEF Repondre

LEMMA VerifierSomme ==
  ASSUME SIInv, EchecsAttendus, NEW p \in Procs, NEW but, NEW u \in Comptes, NEW juste,
         NEW k, NEW ici, SousLimite(u), Verifier(p, but, u, juste, k, ici), UNCHANGED echecs
  PROVE  EchecsAttendus'
<1>1. ASSUME NEW w \in Comptes
      PROVE  echecs'[w] + Cardinality(EnVerification(w)') <= Marge
  <2>1. echecs'[w] \in Nat
    BY SessionsAssumption DEF SIInv, SessionsTypeOK
  <2>2. CASE w = u
    BY <2>1, <2>2, SommeGarde DEF SousLimite, EchecsDe
  <2>3. CASE w # u
    <3>1. EnVerification(w)' \subseteq EnVerification(w)
      BY <2>3 DEF EnVerification, Verifier, SIInv, SessionsTypeOK
    <3>2. echecs'[w] <= echecs[w]
      BY SessionsAssumption DEF SIInv, SessionsTypeOK
    <3> QED
      BY <2>1, <3>1, <3>2, SommeGarde
  <2> QED
    BY <2>2, <2>3
<1> QED
  BY <1>1 DEF EchecsAttendus, Marge

(* The steps that add no failure and no check.                             *)
LEMMA CalmeSomme ==
  ASSUME SIInv, EchecsAttendus,
         echecs' \in [Comptes -> 0..MaxEchecs],
         \A u \in Comptes : echecs'[u] <= echecs[u],
         \A u \in Comptes : EnVerification(u)' \subseteq EnVerification(u)
  PROVE  EchecsAttendus'
<1>1. ASSUME NEW u \in Comptes
      PROVE  echecs'[u] + Cardinality(EnVerification(u)') <= Marge
  <2>1. echecs'[u] \in Nat
    BY SessionsAssumption
  <2> QED
    BY <2>1, SommeGarde
<1> QED
  BY <1>1 DEF EchecsAttendus, Marge

LEMMA RefusSomme ==
  ASSUME SIInv, EchecsAttendus, NEW p \in Procs, MotDePasseRefuse(p)
  PROVE  EchecsAttendus'
<1>1. PICK c : c = requetes[p].compte
  OBVIOUS
<1>2. c \in Comptes /\ requetes[p].etape = "verifier" /\ NoterEchec(c)
  BY <1>1 DEF MotDePasseRefuse, SIInv, CookiesOK, VerifOK
<1>3. \A u \in Comptes : EnVerification(u)' \subseteq EnVerification(u) \ {p}
  <2>1. PICK k : k = requetes[p].cookie
    OBVIOUS
  <2>2. CASE Repondre(p, k)
    BY <2>2, ReponseSomme
  <2>3. CASE requetes' = [requetes EXCEPT ![p] = Libre]
    BY <2>3, LibreType, RequeteSomme
  <2> QED
    BY <2>1, <2>2, <2>3 DEF MotDePasseRefuse
<1>4. echecs' \in [Comptes -> 0..MaxEchecs]
  BY <1>2, NoterEchecType
<1>5. ASSUME NEW u \in Comptes
      PROVE  echecs'[u] + Cardinality(EnVerification(u)') <= Marge
  <2>1. echecs'[u] \in Nat /\ echecs[u] \in Nat
    BY <1>4, SessionsAssumption DEF SIInv, SessionsTypeOK
  <2>2. CASE u = c
    <3>1. p \in EnVerification(u)
      BY <1>1, <1>2, <2>2 DEF EnVerification
    <3>2. echecs'[u] <= echecs[u] + 1
      BY <1>2, <2>1, <2>2, SessionsAssumption DEF NoterEchec, SIInv, SessionsTypeOK
    <3> QED
      BY <1>3, <2>1, <3>1, <3>2, SommeGarde
  <2>3. CASE u # c
    <3>1. echecs'[u] <= echecs[u]
      BY <1>2, <2>1, <2>3 DEF NoterEchec, SIInv, SessionsTypeOK
    <3>2. EnVerification(u)' \subseteq EnVerification(u)
      BY <1>3
    <3> QED
      BY <2>1, <3>1, <3>2, SommeGarde
  <2> QED
    BY <2>2, <2>3
<1> QED
  BY <1>5 DEF EchecsAttendus, Marge

(* Steps that leave the failures and end, or do not touch, a check.        *)
LEMMA FinSomme ==
  ASSUME SIInv, EchecsAttendus, UNCHANGED echecs,
         \/ \E p \in Procs : \E k : Repondre(p, k)
         \/ \E p \in Procs : requetes' = [requetes EXCEPT ![p] = Libre]
         \/ UNCHANGED requetes
  PROVE  EchecsAttendus'
<1>1. echecs' \in [Comptes -> 0..MaxEchecs]
  BY DEF SIInv, SessionsTypeOK
<1>2. \A u \in Comptes : echecs'[u] <= echecs[u]
  BY SessionsAssumption DEF SIInv, SessionsTypeOK
<1>3. \A u \in Comptes : EnVerification(u)' \subseteq EnVerification(u)
  <2>1. ASSUME NEW p \in Procs, NEW k, Repondre(p, k)
        PROVE  \A u \in Comptes : EnVerification(u)' \subseteq EnVerification(u)
    BY <2>1, ReponseSomme
  <2>2. ASSUME NEW p \in Procs, requetes' = [requetes EXCEPT ![p] = Libre]
        PROVE  \A u \in Comptes : EnVerification(u)' \subseteq EnVerification(u)
    BY <2>2, LibreType, RequeteSomme
  <2>3. CASE UNCHANGED requetes
    BY <2>3 DEF EnVerification
  <2> QED
    BY <2>1, <2>2, <2>3
<1> QED
  BY <1>1, <1>2, <1>3, CalmeSomme

LEMMA NextSomme == SIInv /\ EchecsAttendus /\ [SessionsNext]_sessionsVars => EchecsAttendus'
<1> SUFFICES ASSUME SIInv, EchecsAttendus, [SessionsNext]_sessionsVars
             PROVE  EchecsAttendus'
  OBVIOUS
<1>1. ASSUME NEW p \in Procs,
             \/ DejaConnecte(p) \/ Deconnecter(p) \/ Verrouiller(p) \/ Afficher(p)
             \/ \E mach \in Machines : Deposer(p, mach)
             \/ \E u \in Comptes : Inscrire(p, u)
             \/ LoginReussi(p) \/ CoffreOuvert(p)
      PROVE  EchecsAttendus'
  <2>1. UNCHANGED echecs /\ \E k : Repondre(p, k)
    BY <1>1 DEF DejaConnecte, Deconnecter, Verrouiller, Afficher, Deposer, Inscrire,
                LoginReussi, CoffreOuvert
  <2> QED
    BY <2>1, FinSomme
<1>2. ASSUME NEW p \in Procs, NEW u \in Comptes, LoginAilleurs(p, u)
      PROVE  EchecsAttendus'
  BY <1>2, VerifierSomme DEF LoginAilleurs
<1>3. ASSUME NEW p \in Procs, NEW u \in Comptes, NEW juste \in BOOLEAN,
             DebutLogin(p, u, juste)
      PROVE  EchecsAttendus'
  <2>1. CASE SousLimite(u) /\ AdresseSousLimite
    <3>1. PICK k, j : /\ Verifier(p, "login", u, j, k, TRUE)
                      /\ UNCHANGED echecs
      BY <1>3, <2>1 DEF DebutLogin
    <3> QED
      BY <2>1, <3>1, VerifierSomme
  <2>2. CASE ~(SousLimite(u) /\ AdresseSousLimite)
    BY <1>3, <2>2, FinSomme DEF DebutLogin, TropDeTentatives
  <2> QED
    BY <2>1, <2>2
<1>4. ASSUME NEW p \in Procs, NEW juste \in BOOLEAN, DebutCoffre(p, juste)
      PROVE  EchecsAttendus'
  <2>1. PICK u \in Comptes : u = navigateur.user
    BY <1>4 DEF DebutCoffre, SIInv, SessionsTypeOK, Cookie
  <2>2. PICK k : k = navigateur
    OBVIOUS
  <2>3. CASE SousLimite(navigateur.user)
    <3>1. Verifier(p, "coffre", u, juste, k, TRUE) /\ SousLimite(u) /\ UNCHANGED echecs
      BY <1>4, <2>1, <2>2, <2>3 DEF DebutCoffre
    <3> QED
      BY <3>1, VerifierSomme
  <2>4. CASE ~SousLimite(navigateur.user)
    BY <1>4, <2>4, FinSomme DEF DebutCoffre
  <2> QED
    BY <2>3, <2>4
<1>5. ASSUME NEW p \in Procs, MotDePasseRefuse(p)
      PROVE  EchecsAttendus'
  BY <1>5, RefusSomme
<1>6. ASSUME NEW p \in Procs, Recevoir(p) \/ Perdre(p)
      PROVE  EchecsAttendus'
  BY <1>6, FinSomme DEF Recevoir, Perdre
<1>7. CASE CookieExpire \/ Tic \/ UNCHANGED sessionsVars
  BY <1>7, FinSomme DEF CookieExpire, Tic, sessionsVars
<1>8. ASSUME NEW u \in Comptes, Oublier(u)
      PROVE  EchecsAttendus'
  <2>1. echecs' \in [Comptes -> 0..MaxEchecs]
    BY <1>8, TempsGarde DEF SIInv, SessionsTypeOK
  <2>2. \A w \in Comptes : echecs'[w] <= echecs[w]
    BY <1>8, SessionsAssumption DEF Oublier, SIInv, SessionsTypeOK
  <2>3. \A w \in Comptes : EnVerification(w)' \subseteq EnVerification(w)
    BY <1>8 DEF Oublier, EnVerification
  <2> QED
    BY <2>1, <2>2, <2>3, CalmeSomme
<1> QED
  BY <1>1, <1>2, <1>3, <1>4, <1>5, <1>6, <1>7, <1>8 DEF SessionsNext, Requeter, Terminer

LEMMA InitSomme == SessionsInit => EchecsAttendus
<1> SUFFICES ASSUME SessionsInit, NEW u \in Comptes
             PROVE  echecs[u] + Cardinality(EnVerification(u)) <= Marge
  BY DEF EchecsAttendus
<1>1. EnVerification(u) = {} /\ echecs[u] = 0
  BY LibreType DEF SessionsInit, EnVerification
<1>2. Cardinality(Procs) \in Nat
  BY CardProcs
<1> QED
  BY <1>1, <1>2, FS_EmptySet, SessionsAssumption DEF Marge

(* login and vault_unlock count before they record: concurrent attempts    *)
(* pass the limit by one failure per further process, and no more.         *)
THEOREM EchecsBornesCorrect == SessionsSpec => []EchecsBornes
<1>1. SIInv /\ EchecsAttendus => EchecsBornes
  <2> SUFFICES ASSUME SIInv, EchecsAttendus, NEW u \in Comptes
               PROVE  echecs[u] <= LOGIN_MAX_FAILURES_USER + Cardinality(Procs) - 1
    BY DEF EchecsBornes
  <2>1. EnVerification(u) \in SUBSET Procs
    BY DEF EnVerification
  <2>2. Cardinality(EnVerification(u)) \in Nat /\ Cardinality(Procs) \in Nat
    BY <2>1, CardProcs
  <2>3. echecs[u] \in Nat /\ echecs[u] + Cardinality(EnVerification(u)) <= Marge
    BY SessionsAssumption DEF SIInv, SessionsTypeOK, EchecsAttendus
  <2> QED
    BY <2>2, <2>3, SessionsAssumption DEF Marge
<1> QED
  BY <1>1, InitSomme, NextSomme, InvariantSI, PTL DEF SessionsSpec
=============================================================================
