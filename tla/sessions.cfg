\* One browser, two accounts (one of them registers during the run), two
\* processes.
SPECIFICATION SessionsFairSpec
CONSTANTS
  u1 = u1
  u2 = u2
  p1 = p1
  p2 = p2
  m1 = m1
  Rien = Rien
  Comptes = {u1, u2}
  Anciens = {u1}
  Machines = {m1}
  Proprietaire <- MCProprietaire
  Procs = {p1, p2}
  LOGIN_MAX_FAILURES_USER = 1
  LOGIN_MAX_FAILURES_IP = 3
  VAULT_WINDOW = 2
  MaxTemps = 2
  MaxEchecs = 3
INVARIANTS SessionsTypeOK EchecsBornes CoffreBorne SessionPropre
PROPERTY VerrouLeve
