\* Two workers: n1, which create_instance declares and no agent keeps alive, and
\* n2, whose agent has yet to register; recovery on.
SPECIFICATION Spec
CONSTANTS
  n1 = n1
  n2 = n2
  local = local
  u1 = u1
  u2 = u2
  p1 = p1
  p2 = p2
  Rien = Rien
  LOCAL_WORKER = local
  Noeuds = {n1, n2, local}
  WORKERS = {n1, n2}
  Enregistres = {}
  Agents = {n2}
  Rang <- MCRang
  Capacite <- DeuxParNoeud
  Utilisateurs = {u1}
  WebProcs = {p1, p2}
  Conteneurs = {1, 2, 3}
  Ids = {1, 2}
  Durees = {1}
  MAX_INSTANCES_PER_USER = 2
  Operations = {"louer", "arreter"}
  AUTO_RECOVERY = TRUE
  RECONCILE_EVERY = 1
  MaxTemps = 0
  MaxFin = 1
  Fautes = {}
  MaxPannes = 0
SYMMETRY Symetrie
INVARIANTS ReferenceExacte UnSeulDetenteur PurgeEpargneLesConnues IInvReprise
PROPERTIES RaffineReprise DestructionMotivee
