\* Two registered workers with agents; recovery on, two faults, fairness.
SPECIFICATION FairSpec
CONSTANTS
  n1 = n1
  n2 = n2
  local = local
  u1 = u1
  u2 = u2
  p1 = p1
  p2 = p2
  Rien = Rien
  LOCAL_WORKER = local
  Noeuds = {n1, n2, local}
  WORKERS = {n1, n2}
  Enregistres = {n1, n2}
  Agents = {n1, n2}
  Rang <- MCRang
  Capacite <- DeuxParNoeud
  Utilisateurs = {u1}
  WebProcs = {p1}
  Conteneurs = {1, 2, 3}
  Ids = {1}
  Durees = {1}
  MAX_INSTANCES_PER_USER = 1
  Operations = {"louer", "arreter", "prolonger"}
  AUTO_RECOVERY = TRUE
  RECONCILE_EVERY = 1
  MaxTemps = 1
  MaxFin = 2
  Fautes = {"run_sans_reponse", "rm_sans_reponse", "echec_bdd", "mort_web", "crash_faucheur", "exception_faucheur", "suppression_admin", "panne_docker", "silence"}
  MaxPannes = 2
INVARIANT ExpireeDoncDetruite
PROPERTIES EcheanceHonoree OrphelinPurge FantomeArrete SignalSuivi RaffineReprise
