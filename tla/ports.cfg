\* Two nodes, two processes and the Faucheur, three ports, two attempts, three
\* containers, two rows, one recovery, one fault of any kind.
SPECIFICATION PortsSpec
CONSTANTS
  n1 = n1
  n2 = n2
  p1 = p1
  p2 = p2
  f = f
  a = a
  b = b
  c = c
  Noeuds = {n1, n2}
  LOCAL_WORKER = n1
  Procs = {p1, p2}
  Faucheur = f
  PORTS = {a, b, c}
  Conteneurs = {1, 2, 3}
  Ids = {1, 2}
  Essais = 2
  Rien = Rien
  Fautes = {"run_sans_reponse", "run_refuse", "rm_refuse", "base", "mort"}
  MaxPannes = 1
  MaxReprises = 1
SYMMETRY Symetrie
INVARIANTS PortsTypeOK AdresseJuste SansPanneSansOrphelin
PROPERTY NettoyageCible
CHECK_DEADLOCK FALSE
