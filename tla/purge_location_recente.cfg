\* A rental is written down between the snapshot and the purge.
SPECIFICATION Spec
CONSTANTS
  n1 = n1
  n2 = n2
  local = local
  u1 = u1
  u2 = u2
  p1 = p1
  p2 = p2
  Rien = Rien
  LOCAL_WORKER = local
  Noeuds = {n1, local}
  WORKERS = {n1}
  Enregistres = {n1}
  Agents = {n1}
  Rang <- MCRang
  Capacite <- DeuxParNoeud
  Utilisateurs = {u1}
  WebProcs = {p1}
  Conteneurs = {1, 2}
  Ids = {1, 2}
  Durees = {1}
  MAX_INSTANCES_PER_USER = 1
  Operations = {"louer"}
  AUTO_RECOVERY = FALSE
  RECONCILE_EVERY = 1
  MaxTemps = 1
  MaxFin = 3
  Fautes = {}
  MaxPannes = 0
PROPERTIES MachineConnueEpargnee
