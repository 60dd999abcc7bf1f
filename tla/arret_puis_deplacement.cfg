\* A user stops a machine that the recovery is about to move.
SPECIFICATION Spec
CONSTANTS
  n1 = n1
  n2 = n2
  local = local
  u1 = u1
  u2 = u2
  p1 = p1
  p2 = p2
  Rien = Rien
  LOCAL_WORKER = local
  Noeuds = {n1, n2, local}
  WORKERS = {n1, n2}
  Enregistres = {n1, n2}
  Agents = {n1, n2}
  Rang <- MCRang
  Capacite <- DeuxParNoeud
  Utilisateurs = {u1}
  WebProcs = {p1}
  Conteneurs = {1, 2}
  Ids = {1}
  Durees = {1}
  MAX_INSTANCES_PER_USER = 1
  Operations = {"louer", "arreter"}
  AUTO_RECOVERY = TRUE
  RECONCILE_EVERY = 1
  MaxTemps = 1
  MaxFin = 3
  Fautes = {"silence"}
  MaxPannes = 2
INVARIANTS MachineSousLocation
