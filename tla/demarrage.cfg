\* Two services start together on an empty database, with locks and deaths.
SPECIFICATION DemarrageSpec
CONSTANTS
  web = web
  faucheur = faucheur
  Processus = {web, faucheur}
  NbObjets = 4
  TableDe <- MCTableDe
  TableDistributions = 2
  NbDistributions = 2
  Cles = {1, 2, 3, 4}
  TENTATIVES = 2
  Fautes = {"verrou", "verrou_marquage", "mort"}
  MaxPannes <- DeuxVerrous
CHECK_DEADLOCK FALSE
INVARIANTS DemarrageTypeOK CatalogueComplet SchemaSansPanne
PROPERTIES SchemaEtabli BaseSuivie TousPrets
