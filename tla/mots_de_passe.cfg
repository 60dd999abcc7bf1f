\* Two processes and the Faucheur, one machine and two recoveries of it, five
\* passwords, three faults of any kind.
SPECIFICATION MotsDePasseSpec
CONSTANTS
  p1 = p1
  p2 = p2
  f = f
  Procs = {p1, p2}
  Faucheur = f
  Conteneurs = {1, 2, 3}
  Secrets = {1, 2, 3, 4, 5}
  Rien = Rien
  Fautes = {"exec_sans_reponse", "exec_refuse", "noeud_muet", "run_sans_reponse", "redemarrage", "mort"}
  MaxPannes = 3
INVARIANTS MotsDePasseTypeOK JamaisInvente CoffreJuste
CHECK_DEADLOCK FALSE
