\* Two nodes, three requests in flight, two faults of any kind.
SPECIFICATION AgentsFairSpec
CONSTANTS
  n1 = n1
  n2 = n2
  Noeuds = {n1, n2}
  Connexions = {1, 2, 3}
  Fautes = {"arret_agent", "timeout", "perte", "panne_docker", "retard", "base_videe"}
  MaxPannes = 2
INVARIANTS AgentsTypeOK InscriptionPrise
PROPERTIES NoeudVivantDisponible NoeudMortRetire ParcAtomique
