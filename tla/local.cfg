\* One host: the node "local", which the Faucheur keeps fresh; no recovery.
SPECIFICATION Spec
CONSTANTS
  n1 = n1
  n2 = n2
  local = local
  u1 = u1
  u2 = u2
  p1 = p1
  p2 = p2
  Rien = Rien
  LOCAL_WORKER = local
  Noeuds = {local}
  WORKERS = {local}
  Enregistres = {}
  Agents = {}
  Rang <- MCRang
  Capacite <- DeuxParNoeud
  Utilisateurs = {u1}
  WebProcs = {p1, p2}
  Conteneurs = {1, 2, 3}
  Ids = {1, 2, 3}
  Durees = {1}
  MAX_INSTANCES_PER_USER = 1
  Operations = {"louer", "arreter"}
  AUTO_RECOVERY = FALSE
  RECONCILE_EVERY = 2
  MaxTemps = 1
  MaxFin = 1
  Fautes = {"run_refuse", "run_sans_reponse", "rm_refuse", "rm_sans_reponse", "echec_bdd", "mort_web", "arret_serveur", "crash_faucheur", "exception_faucheur", "suppression_admin", "ps_echec"}
  MaxPannes = 1
SYMMETRY Symetrie
INVARIANTS TypeOK TermineeDoncDetruite LocationOuverte QuotaBorne
PROPERTY RaffineBail
