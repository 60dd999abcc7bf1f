# InsaCloud in TLA+

A verification project for InsaCloud (`src/`): the platform that rents Docker machines for a limited
time, on one host or on several workers. The modules keep the names of the code (French), the
comments say what each definition stands for.

1. [The system](#1-the-system): components, state, operations, what is hard
2. [The modules](#2-the-modules): what each one models, and how it maps to the code
3. [The runs](#3-the-runs): questions, bounds, fairness, results
4. [The behaviours the runs refute](#4-the-behaviours-the-runs-refute)
5. [The proofs](#5-the-proofs)
6. [Abstractions](#6-abstractions)
7. [What is not modelled](#7-what-is-not-modelled)
8. [Plan](#8-plan)
9. [How to run](#9-how-to-run)

Paths without a directory are those of `src/2_webapp/`.

## 1. The system

    browser, API client                                      worker node
           |                                              +----------------+
           v                                              | worker_agent.py|
      Gunicorn: app.py, api.py (4 processes)  <--HTTP---- | (heartbeats)   |
           |  services.py                                 |                |
           |     \------ docker over SSH / local -------> | Docker daemon  |
           v                                              +----------------+
      SQLite or PostgreSQL (database.py, models.py)               ^
           ^                                                      |
           |                                                      |
      faucheur.py (one process, a loop of 10 s) ------docker------+

Nothing but the database and the Docker daemons is shared. There is no lock in the program, no queue
and no transaction that spans a docker call: every function reads the database, talks to a daemon
for up to a minute, then writes the database. That is where all the difficulty is.

| Component | State it keeps | Operations that change state | Interacts with | Hard behaviour | What makes it correct |
|---|---|---|---|---|---|
| Docker daemons (external), driven by `docker_ops.py`, `workers.py`, `faucheur.docker` | containers: existence, node, name | `run`, `rm -f`; `ps -a` reads | services, Faucheur | a command may act and still report a failure (timeout); a node unknown to `WORKERS` falls back on the local daemon | a container has at most one holder; a command about a row reaches its daemon |
| Database (`database.py`, `models.py`) | `instances`, `rentals`, `workers` | `create_instance`, `set_instance_status`, `move_instance`, `extend_instance`, `worker_heartbeat`, `register_worker`, `ensure_worker`, `mark_stale_workers_offline` | all | writes that ignore the current status; read-compute-write; two transactions in `create_instance` | rental and instance agree; end dates; quota |
| Services (`services.py`) | nothing between requests; local variables during one | `louer`, `arreter`, `prolonger`, `regenerer_mot_de_passe`, `recreer_ailleurs`, `reprendre_worker` | database, docker | stale reads, death between docker and database, clean-ups that fail | no machine lost, none destroyed that belongs to another |
| Faucheur (`faucheur.py`) | the cycle counter, the lists of the current step | `reap_expired`, `battre_pour_le_noeud_local`, `surveiller_workers`, `reconcile` | database, docker | its snapshots are old when used; an exception ends the cycle; a crash loses the OFFLINE signal | every expired rental ends, orphans are removed, phantoms stopped, silent workers recovered |
| Agents (`worker_agent.py`, heartbeat routes of `api.py`) | whether the node is registered, the back-off | `enregistrer`, `battre` | database through HTTP | late heartbeats, abandoned requests that are still handled, re-registration, Docker down, a status compared with the one that was read | a live node ends up AVAILABLE, a dead one leaves the pool |
| Start-up (`database.init_db`, `_marquer_schema_a_jour`, `crypto.load_or_create_key`) | the schema, the Alembic mark, the catalogue, the key file | creations, in autocommit on SQLite | every process that imports `database.py` | several processes at once, locks, deaths between two statements | a complete schema and catalogue, one key |
| Ports (`choose_random_port`, `_creer_conteneur`, unique indexes) | ports of the rows and of the daemons | draw, three attempts, clean-up by name | docker, database | two draws of one port, a row refused once the container runs | the address of a row is that of its machine; nothing is left behind |
| Root passwords (`regenerer_mot_de_passe`, `set_instance_password`, `entrypoint.sh`) | password in the machine, in the row | `docker exec`, then UPDATE | docker, database, a restarting container | partial failure, overlapping rotations, recovery in between, a restart that applies the first password again | the vault shows a password the machine was given, and the right one when nothing disturbed it |
| Login throttle, sessions, vault (`app.py`) | login attempts, signed cookies | login, register, unlock, reveal | database | count-then-write; whole cookie rewritten by each answer | the limits hold within the number of processes, no session mixes two users, the vault closes |
| Image cache (`docker_ops.images_presentes`) | one cached answer | read or refresh | docker | not keyed by node | a node's answer is its own |

`PROJECT.json` lists every component with its status, and every hazard at its line with the
properties that cover it.

## 2. The modules

    Docker <- Database <- Services <- Faucheur <- InsaCloud <- Invariant <- Promesses <- MCInsaCloud
                                                     |            ^
                              Bail, BailReprise (INSTANCE)        |
                                                          InsaCloudProofs <- BailProofs <- RaffinementProofs

    Demarrage <- DemarrageInvariant <- MCDemarrage
                         ^-- DemarrageProofs

    Agents      <- MCAgents         Sessions <- MCSessions
       ^-- AgentsProofs                ^-- SessionsProofs
       `-- Database (INSTANCE)
    MotsDePasse <- MCMotsDePasse    Ports    <- MCPorts
       ^-- MotsDePasseProofs           ^-- PortsProofs

An arrow is an EXTENDS. The platform is one state machine whose components share `conteneurs`,
`instances` and `parc`; each module adds its own variables and the actions that concern it, and says
what they leave UNCHANGED. `Agents`, `Sessions`, `MotsDePasse` and `Ports` look closer at parts
which the platform takes as one step or leaves out; each is a state machine of its own, and takes
from the rest of the platform only what meets its own variables (a recovery, the death of a process,
the watch of the Faucheur).

**Docker** - one operator per outcome of a command, for a caller that sees only its answer.
`RunReussi`, `RunSansReponse` (created, but the caller hears of a failure), `RunRefuse`; `RmReussi`
("No such container" is a success for both callers), `RmSansReponse`, `RmRefuse`. `Demon(n)` is the
fallback of `docker_command` on the local daemon. The environment: `PanneDocker`, `RetourDocker`,
`SuppressionAdmin`. `Panne(f)` counts the faults.

**Database** - one operator per transaction, or two when what it writes depends on what it has read.
`CreateInstance` and `InsererWorker` are the two transactions of `create_instance`; `LireFin` /
`EcrireFin` the two halves of `extend_instance`. `set_instance_status` and `move_instance` fetch the
row (`LireStatut`), and the UPDATE the ORM then sends leaves out the columns that did not change:
`Modifie` is the status after it, given the one that was read, `vu`. The rest is always written: the
end of the rental and the row lock by `set_instance_status`, the container by `move_instance`, and
the rental is read after the UPDATE, under its lock.
`SelectAvailableWorker` is `select_available_worker` with its order, its capacity test and `prefer`.
`parc[n]` is the row of `workers`: `inconnu` when there is none.

**Services** - `requetes[p]` holds the local variables of the request that process p serves (step,
user, row, container, node, dates, and the status `vu` by a transaction that has yet to write).
`DebutLouer ... Nettoyer` is `louer`: quota, `_choisir_worker`, `_creer_conteneur`,
`create_instance`, `_supprimer_sans_bruit`. `DebutArreter, Detruire, LireAvantClore, Clore` is
`arreter`, `DebutProlonger, LireLocation, EcrireLocation` is `prolonger`. `DemarrerServeur`,
`ArretServeur`, `MortWeb`, `ExceptionRequete` are the life of Gunicorn.

**Faucheur** - `faucheur` is the program counter and the lists of the loop: `DebutCycle, Faucher,
FaucherEchoue, Marquer, FinFauche` (`reap_expired`), `BattreLocal`, `Surveiller, ReprendreWorker,
ChoisirRepli, Recreer, RecreerEchoue, Deplacer, Renoncer, FinReprise` (`surveiller_workers`,
`reprendre_worker`, `recreer_ailleurs`), `ListerActives, Ps, PsEchoue, Purger, LireDisparu,
Constater, FinReconciliation` (`reconcile`), `ExceptionFaucheur` (the catch of `run_forever`) and
`CrashFaucheur`. `LireAvantEcrire` is the SELECT of the transaction that `Marquer`, `Deplacer` or
`Renoncer` ends. A fault that loses the list of the workers to recover (`SignalEnCours`) has a kind
of its own, `exception_reprise` or `crash_reprise`, so that a run may leave it out.

**InsaCloud** - the composition with the agents and the clock, `Spec`, `FairSpec` and the
properties. A late heartbeat is a fault, except for a node that `create_instance` declared and that
has no agent. **Bail** - the abstract rental: opened once, closed once, never before its machine is
gone; `InsaCloud!B` is the refinement mapping, one Bail per row. **BailReprise** - the abstract
rental when failed workers are recovered, through the mapping `InsaCloud!R`: which machine a rental
has, who may replace it, and which closed rental may open again. **Invariant** - the inductive
strengthenings. **Promesses** - what the documents and comments say and the code does not do.

**Demarrage** - the start of the processes that share one SQLite file and one key file: `LireCle,
OuvrirCle, EcrireCle` (`load_or_create_key`; `open(path, "w")` empties the file before it is
written), `Examiner, Creer, FinCreation, CreationVerrouillee` (`create_all`, its tolerated "already
exists", its five attempts), `Suivre, CreerVersion, Inscrire` (`_marquer_schema_a_jour`),
`LireDistribution, Ajouter` (the catalogue), `Lancer` (systemd), `Tuer`.

**Agents** - `agents[n]` is where the agent of n is in `tourner`, `http` the requests in flight,
`parc` the rows of workers. `Enregistrer` and `Battre` send a request and wait (`appeler`); `Lire`
is the SELECT of `register_worker` or `worker_heartbeat`, `EcrireInscription` and `EcrireBattement`
their UPDATE or INSERT and the answer, `Suite` what the agent does of its code. `Abandonner` is
`TIMEOUT_HTTP`: the agent goes on, the controller still handles the request. `LireMuets` and
`MarquerHorsLigne` are the two halves of `mark_stale_workers_offline`. `Dater` writes the status
only if the one that was read differs, as the ORM does: a mark committed in between is not undone.
`Agents!D` is the register of module `Database`, whose steps are atomic, and `ParcVu` the mapping.

**Sessions** - `navigateur` is the cookie of one browser, `requetes[p]` the request that process p
serves, with the cookie it came with. `DebutLogin` counts the failures (`count_recent_failures`),
`LoginReussi` and `MotDePasseRefuse` follow the check of the password and record the attempt;
`LoginAilleurs` is another client at the same address. `Inscrire`, `Deconnecter`, `DebutCoffre`,
`CoffreOuvert`, `Verrouiller`, `Deposer` (`reveal_secret`) and `Afficher` (a page, with
`secret_a_reveler`) are the routes. Every answer carries a whole cookie and reaches the browser by
`Recevoir`, in any order, or never (`Perdre`). `Oublier` is one failure that leaves the window.

**MotsDePasse** - `ligne` is the row of one instance, `machines` the containers made for it,
`taches[a]` the rotation or the recovery that a process is doing. `DebutRotation, SetpassReussi,
EcrireMdp` is `regenerer_mot_de_passe`; `DebutReprise, RecreerReussi, Deplacer, EcrireMdp` is
`recreer_ailleurs`, whose `move_instance` and `set_instance_password` are two transactions.
`Appliquer` is the start of `entrypoint.sh`, `Redemarrer` a restart, after which it applies
`ROOT_PASSWORD` again. `seul` and `fiable` are history variables: `fiable` becomes FALSE at a fault
or an overlap, and TRUE again once an operation has gone through alone on a machine that is ready.

**Ports** - `conteneurs[c]` has the ports that the daemon gave it, `instances[i]` those of the row,
`travaux[a]` the local variables of `_creer_conteneur`, `louer`, `arreter` or the recovery.
`TirerSsh, TirerTerm, AucunPort` (`choose_random_port`), `RunReussi, RunConflit, RunRefuse,
RunSansReponse`, `Nettoyer` with `Reessayer` (the clean-up by name and the next attempt), `Ecrire`
and `EcrireEchoue` (`create_instance` or `move_instance` under `uq_worker_port_actif`), `Defaire`
(the clean-up by identifier), `DebutArreter, Detruire, Clore`.

Definitions called `X_Something` next to a definition `X` are variants of it, each with a plausible
bug. They are used by no specification; each one, put in place of `X`, must break the property
`PROJECT.json` pairs it with.

## 3. The runs

| Run | Specification | Properties | Distinct states |
|---|---|---|---|
| `local` | `Spec`, one host, no recovery | `TypeOK` `TermineeDoncDetruite` `LocationOuverte` `QuotaBorne` `RaffineBail` | 1,195,993 |
| `reprise` | `Spec`, two workers, recovery, two processes and rows, no fault | `ReferenceExacte` `UnSeulDetenteur` `PurgeEpargneLesConnues` `IInvReprise` `RaffineReprise` `DestructionMotivee` | 1,016,646 |
| `vivacite` | `FairSpec`, two workers, recovery, two faults | `ExpireeDoncDetruite` `EcheanceHonoree` `OrphelinPurge` `FantomeArrete` `SignalSuivi` `RaffineReprise` | 204,305 |
| `demarrage` | `DemarrageSpec` | `DemarrageTypeOK` `CatalogueComplet` `SchemaSansPanne` `SchemaEtabli` `BaseSuivie` `TousPrets` | 476,653 |
| `agents` | `AgentsFairSpec` | `AgentsTypeOK` `InscriptionPrise` `NoeudVivantDisponible` `NoeudMortRetire` `ParcAtomique` | 140,986 |
| `sessions` | `SessionsFairSpec` | `SessionsTypeOK` `EchecsBornes` `CoffreBorne` `SessionPropre` `VerrouLeve` | 672,021 |
| `mots_de_passe` | `MotsDePasseSpec` | `MotsDePasseTypeOK` `JamaisInvente` `CoffreJuste` | 1,254,975 |
| `ports` | `PortsSpec` | `PortsTypeOK` `AdresseJuste` `SansPanneSansOrphelin` `NettoyageCible` | 1,432,326 |
| four `violation` runs | see section 4 | one each | - |

**What the passing runs ask.**

- `local`: whatever two concurrent processes and the Faucheur do, with a fault of any kind at any
  point, does each row behave as a rental should? `RaffineBail` is most of the answer: a row never
  reopens, and is never closed while its machine is alive (`TermineeDoncDetruite`).
  `LocationOuverte` is what is left of the agreement between instance and rental: the one runs
  exactly as long as the other is ACTIVE. Which of STOPPED and EXPIRED a closed rental is may differ
  from its instance (section 4). `QuotaBorne` says by how much the quota may be exceeded (one
  machine per other process).
- `reprise`: what survives when two processes rent and stop two machines while rows move from a node
  to another and their names are reused? A node the database has not seen is rented by fallback, and
  its first two rentals race to declare it. `ReferenceExacte` says that docker commands about a row
  still reach the daemon of its container; `UnSeulDetenteur`, that no container is held by two among
  the rows, the requests and the recovery, which is why a clean-up never destroys someone else's
  machine. `PurgeEpargneLesConnues`: the purge spares the rows it read. `RaffineReprise` is what
  `RaffineBail` becomes: a recovery gives a rental a machine that no other has; a closed rental
  never opens again, nor receives a machine, except the one its user stopped in the middle of its
  own recovery, and an expired one never has a machine. `DestructionMotivee` says who destroys the
  machine of a running rental: the stop of that very rental, the Faucheur that read it as expired, a
  purge whose snapshot did not have it, or the outside world; never the request of another rental, a
  clean-up or a recovery. `IInvReprise` is the invariant these are proved from.
- `vivacite`: after any two faults, does the platform come back by itself? The time passes in this
  run, with one rental that may be stopped, extended and moved: `ExpireeDoncDetruite` and
  `RaffineReprise` meet expiry here.
- `demarrage`: two services start on an empty database; locks (twice), a lock in the Alembic mark, a
  death, in any order.
- `agents`: does a node find its place in the pool, whatever is lost, late or abandoned? An agent
  that beats has a row (`InscriptionPrise`); a node that stays alive ends up AVAILABLE for good, a
  dead one does not stay AVAILABLE. And are the atomic heartbeats and marks of the platform a fair
  picture of transactions that read, then write? `ParcAtomique` says yes, until somebody empties the
  base: the marks take place when the rows are read, and a heartbeat that crosses them is lost.
- `sessions`: what do requests of one browser that overlap do to one another? They lose each other's
  changes, but never mix two accounts (`SessionPropre`) nor open the vault longer than
  `VAULT_WINDOW` after a password was given (`CoffreBorne`), even if a late answer brings an old
  cookie back. Concurrent attempts pass the throttle together; `EchecsBornes` says by how much.
- `mots_de_passe`: what does the vault show? Always a password that a machine of the rental was
  given (`JamaisInvente`: the row is written last), and the right one unless a fault or an overlap
  came since the last operation that went through alone (`CoffreJuste`).
- `ports`: ports are tested, then taken, and three ports for two rentals and a recovery make
  conflicts frequent. A row's address leads to its machine (`AdresseJuste`, for the terminal port
  too, which no index covers); a clean-up by name never hits a machine in use (`NettoyageCible`);
  without a fault nothing is left behind (`SansPanneSansOrphelin`).

**Bounds, and why they are enough.**

- `Conteneurs`, `Ids`: identifiers are drawn in increasing order and never come back, so they bound
  how many machines and rentals a behaviour has. `local` has three, enough for a rental, a
  concurrent one, and one that starts after another was closed. `reprise` has two rows and three
  containers: two rentals and a recovery of one of them, or a rental beside a clean-up. `vivacite`
  has one row and three containers, for two recoveries in a row; each of its properties speaks of
  one row or one container. When no container is left, `docker run` is refused,
  which the code handles as an exhausted port range. `LigneReservable` keeps a rental from starting
  when no row is left: a bound, not a behaviour.
- Two processes in `local` and `reprise`: the code relates the processes pairwise only (through the
  quota, the first row of a node, two stops of one row, and the clean-up). They are interchangeable,
  hence `SYMMETRY`, in these two runs only (safety properties). One in `vivacite`, where the
  interleavings that matter are those of a request with the Faucheur.
- `MaxPannes`: one fault of any of eleven kinds in `local`; two of nine in `vivacite`, so that two
  of them meet (a second silence during a recovery, a crash after a lost answer); none in `reprise`,
  where the silence of n1 is no fault. `exception_reprise` and `crash_reprise` are left out of
  `vivacite` because they do lose the OFFLINE signal (a hazard without a property), and what they
  cut short is in the proofs only, which allow every kind of fault.
- `MaxTemps`, `MaxFin`, `Durees`: a rental lasts one tick; the properties only compare an end date
  with the present and with another end date. The clock of `reprise` does not move (`MaxTemps` = 0):
  two rows, two processes and a recovery are as much as TLC can do there; a rental that expires
  while it is stopped or moved is in `vivacite`, and the proofs have both at once.
- `RECONCILE_EVERY` is 2 in `local` (6 in the code), so that cycles with and without a
  reconciliation alternate; 1 elsewhere, where every cycle reconciles, which includes more
  interleavings of the purge.
- `Enregistres = {}`, `Agents = {n2}` in `reprise`: the table of workers is empty, n1 is in the
  configuration and has no agent, that of n2 registers when it likes. The first rentals fall back on
  the configuration; `create_instance` declares n1 (`DeclarerWorker`), and a second rental that
  looked for the row before fails on the unique host name and cleans its container up, beside the
  row of the first. Nobody beats for n1, which falls silent, and its machines are moved to n2. The
  way back and the heartbeats that cross an OFFLINE mark are in `vivacite`.
- `demarrage`: three tables (users, distributions, instances) and the indexes of the last one stand
  for the six of `models.py`; the second one is the table the catalogue needs, and the last one has
  the index that a death can lose. Two attempts instead of five: the third to fifth repeat the
  second. Four keys: each process draws at most twice.
- `agents`: two nodes, so that a transaction of the watch marks both; three requests in flight: one
  that its agent waits for and two that were abandoned or of the other node; two faults of six
  kinds.
- `sessions`: two accounts, one of which registers during the run, one machine, two processes. The
  throttle locks at one failure of an account and three of the address; a window of two ticks and
  three instants of the clock let the vault open, close and open again. `MaxEchecs` bounds the
  failures that are counted: it is above what the throttle lets through, so that `EchecsBornes` is
  not the bound (the mutant without the count exceeds it).
- `mots_de_passe`: one rental is enough, the passwords of two have nothing in common; three
  containers for two recoveries of it; five passwords; three faults of six kinds, so that a fault
  follows a repair. It ends when the passwords are spent.
- `ports`: two attempts instead of three (the third repeats the second), three ports so that two
  machines of one node want at least one in common, one recovery, one fault of five kinds.
  Processes and ports are interchangeable (`SYMMETRY`; the run has no liveness).

**Deadlock** is checked in every run of the platform, of the agents and of the sessions. The runs
`demarrage`, `mots_de_passe` and `ports` say `CHECK_DEADLOCK FALSE`: the start-up is over once every
process is ready, and the two others stop when the passwords, rows or containers of the run are
spent.

**Fairness** (`Equite`): weak fairness of each process's steps once it has a request and of the
Faucheur's steps, because each docker call is bounded by `DOCKER_TIMEOUT` and each query by the
database's timeout, after which the code goes on along its error path; of the return of a daemon
that stopped answering, and of the clock. Nothing obliges a user to ask, the server to start, an
agent to beat, or a fault to happen: the properties must hold without. `DemarrageSpec`: weak
fairness of each process's start, including systemd's `Restart=always` (`insacloud.service.j2:28`).
`AgentsFairSpec`: the loop of an agent that runs (`tourner` never ends by itself), the requests that
reached the controller, the watch (every ten seconds) and the age of a silent node's heartbeat; no
node has to start and no daemon to come back. `SessionsFairSpec`: a request that is served ends, and
an old failure leaves the fifteen-minute window; nobody is obliged to stop trying.

**What the temporal properties say.**

- `EcheanceHonoree`: an expired rental ends, or is extended, although removals fail, the Faucheur
  crashes, and one exception ends a cycle.
- `OrphelinPurge`: what a killed request, a timeout, or a recovery leaves behind is removed.
- `FantomeArrete`: a running row without a machine does not stay running.
- `SignalSuivi`: every instance of a worker found silent ends up on a worker that answers, or
  stopped, even if the worker it is moved to falls silent in turn.
- `SchemaEtabli`: all tables end up existing; the indexes too, without faults. With a death between
  a CREATE TABLE and its CREATE INDEX they do not, ever: `create_all` skips existing tables. The
  property says precisely that.
- `BaseSuivie`: the base ends up marked, unless the "locked" error was swallowed.
- `TousPrets`: no start fails for ever.
- `NoeudVivantDisponible`: a node that stays alive is AVAILABLE for good from some time on; it
  recovers from lost requests, OFFLINE marks that crossed its heartbeat, and an emptied base.
- `NoeudMortRetire`: a node whose agent or Docker died does not stay AVAILABLE, although requests it
  sent earlier may still be handled.
- `VerrouLeve`: a locked account unlocks by time alone, because an attempt that the throttle refuses
  is not recorded (`app.py:266-271`): whoever goes on trying does not prolong the lock.

## 4. The behaviours the runs refute

Each of these runs checks one sentence of the repository, and TLC finds a behaviour of the code that
contradicts it. The findings in `PROJECT.json` quote the sentences.

- `purge_location_recente` (`MachineConnueEpargnee`). `reconcile` reads the active rows, then calls
  `docker ps`. A rental creates its container in between and writes its row. The list shows the
  container, the older rows do not: the machine is removed as an orphan, under a running row. The
  next pass marks the row stopped.
- `fauche_prolongee` (`MachineValideEpargnee`). A rental expires and is read by `reap_expired`; its
  user extends it; the Faucheur destroys the machine anyway and marks the row expired.
- `battement_pendant_reprise` (`RenonceSiInjoignable`). A worker is marked OFFLINE, its agent beats
  before the choice of a fallback, it is AVAILABLE and the least loaded: `recreer_ailleurs` refuses
  it as its own fallback and marks stopped an instance whose machine is alive and reachable.
- `arret_puis_deplacement` (`MachineSousLocation`). The user stops a machine while the Faucheur
  recreates it elsewhere. `set_instance_status` closes the rental, then `move_instance` sets the
  instance running again on the new node: a machine runs under a STOPPED rental.

Other behaviours of the same family were met while modelling and are not runs. They follow from the
actions of the modules, and nothing is claimed against them:

- two stops of one machine and its expiry: the first stop commits, the second one reads `stopped`,
  the Faucheur commits `expired` and EXPIRED, and the second stop, whose UPDATE leaves the status
  out, writes STOPPED on the rental. The instance is expired and its rental STOPPED, although
  `set_instance_status` "met sa location en cohérence" (`database.py:622`); `LocationOuverte` says
  what remains of it;
- a stop that commits between the SELECT and the UPDATE of `move_instance` survives, because
  `running` was read and is not written again: the row is stopped and has a new machine, alive,
  which the next reconciliation removes as an orphan (the step of `BailReprise!Remplacer` from
  `suspendu` to `arrete`; `OrphelinPurge`);
- two extensions read the same end date, add 1 and 2, and the one that adds 1 commits last: the date
  moves back (`LireFin`, `EcrireFin`);
- a rental that chose a worker before it was declared OFFLINE, or by the fallback on the
  configuration, is written afterwards; the watch only returns workers that are still AVAILABLE, so
  that this row is not recovered until the node beats and falls silent again;
- SQLite commits each CREATE: a process that meets "already exists" on the first table goes on and
  is ready while the other has yet to create the last one;
- two processes that start without a key file both generate a key, the second write wins, the first
  process goes on with its own;
- the quota exceeded by concurrent rentals (bounded by `QuotaBorne`), as the login throttle is
  (`EchecsBornes`);
- the container left by `docker run` after its timeout, and the old container left by a stop that
  read the row before its recovery (both removed: `OrphelinPurge`);
- a machine of an unknown node created on the local daemon (`ReferenceExacte` is stated with `Demon`
  for that reason);
- a `docker exec` that changes the password after its caller has given up, or a restart after a
  rotation: the vault shows a former password until the next rotation (`CoffreJuste` says when it is
  right);
- a logout, a lock of the vault or a consumed display that a late answer of another request undoes:
  the cookie it brings back is an older one of the same browser (`CoffreBorne` and `SessionPropre`
  bound what it gives).

## 5. The proofs

The proofs hold for every value of the constants that satisfies the named assumptions of the
modules: any number of processes, nodes, rows, containers, faults, any capacity, bound and duration.

| Module | Theorem | States |
|---|---|---|
| InsaCloudProofs | `Invariance`, `Typage`, `CommandesBienAdressees`, `DetenteurUnique`, `ExpirationSure`, `PurgeSure` | `[]IInv`, and its consequences `TypeOK`, `ReferenceExacte`, `UnSeulDetenteur`, `ExpireeDoncDetruite`, `PurgeEpargneLesConnues`, with or without recovery |
| BailProofs | `InvarianceSansReprise`, `ClotureSure`, `LocationSuitInstance`, `QuotaToujoursBorne` | `[]IInvSansReprise`, `TermineeDoncDetruite`, `LocationOuverte`, `QuotaBorne` |
| RaffinementProofs | `Raffinement` | without recovery, `Spec => RaffineBail` |
| RaffinementProofs | `InvarianceReprise`, `DestructionsMotivees`, `RaffinementReprise` | with or without recovery, `[]IInvReprise`, `DestructionMotivee`, `Spec => RaffineReprise` |
| DemarrageProofs | `InvarianceDemarrage`, `DemarrageTypeCorrect`, `CatalogueToujoursComplet`, `SchemaJamaisAbandonne` | `[]IInvDemarrage`, `DemarrageTypeOK`, `CatalogueComplet`, `SchemaSansPanne` |
| AgentsProofs | `AgentsTypeCorrect`, `InscriptionPriseCorrect`, `RegistreAtomique` | `AgentsTypeOK`, `InscriptionPrise`, `AgentsSpec => ParcAtomique` |
| SessionsProofs | `SessionsTypeCorrect`, `SessionPropreCorrect`, `CoffreBorneCorrect`, `EchecsBornesCorrect` | every safety property of `sessions` |
| MotsDePasseProofs | `MotsDePasseTypeCorrect`, `JamaisInventeCorrect`, `CoffreJusteCorrect` | every property of `mots_de_passe` |
| PortsProofs | `InvariancePorts`, `PortsTypeCorrect`, `AdresseJusteCorrecte`, `NettoyageCibleCorrect`, `SansPanneSansOrphelinCorrect` | `[]IInvPorts`, and every property of `ports` |

**`IInv`** is `TypeOK /\ Forme /\ Reference /\ UnSeulDetenteur /\ Expiration`.

- `Forme`: which fields of a row, of a request and of the Faucheur are filled in at each step;
  without it no other conjunct could be expanded.
- `Reference`: `ReferenceExacte` is not inductive, since a row takes the container and the node that
  a request or the recovery holds in memory; so these two must satisfy it as well.
- `UnSeulDetenteur` already ranges over rows, requests and the recovery. It rests on `EstNouveau`:
  an identifier is drawn once.
- `Expiration`: between the removal and the mark, the machine of the row must not come back. It
  cannot, because containers never return from `supprime`, and no step of another component changes
  the container of a row.

`IInv` is inductive only together with `RepriseOuverte` (below): `move_instance` may leave the
status it read out of its UPDATE, so that it must be known that the row it gives a machine to is not
expired. `Invariance` proves both at once.

The proof has one lemma per action (or per group that changes the same variables) and one step per
conjunct it disturbs. Actions that only take
containers away (`Usure`), leave the references of the rows alone (`LignesStables`) or add no holder
(`SansNouveauDetenteur`) are treated together, by the lemmas about these predicates.

**`IInvSansReprise`** adds, when `AUTO_RECOVERY` is off, that the Faucheur is never in the steps of
the recovery, that a stopping request holds the container its row still names, that the row it is
about to close and those `reconcile` is about to close have no machine any more, and that an
instance runs exactly as long as its rental is ACTIVE (`LocationSuitInstance`). The last one needs
`LecturesSuivies`: a transaction that read a row closed will leave its status out of the UPDATE, and
the row is still closed when it writes, because nothing opens a row again. **`Raffinement`** then
maps each step: `Enregistrer` to `Ouvrir`, the marks to `Clore` or a stutter, every removal to
`Perdre` or a stutter (a container has one holder, so that one removal changes one Bail), and the
rest to stutters.

**`IInvReprise`** is what `IInv` lacks once rows move. `RepriseOuverte`: the rows that remain to be
recovered are running, or were stopped by their users since the Faucheur read them; none is free or
expired, because the Faucheur is one process and cannot reap while it recovers. `ArretPropre`: the
container that a stopping request has read is still that of its row or, when a recovery has moved
the row meanwhile, of no row at all, and nobody can receive it any more: `run` only gives new
containers, and a row only receives the one that a request or the recovery holds (`Propre`). The run
`reprise` checks it, with the two properties below, on two rows and two processes.

**`DestructionsMotivees`** goes through the actions that remove a container. A clean-up removes what
its own request created, which by `UnSeulDetenteur` no row has; a stop, the container of its row or
of none (`ArretPropre`); the reaper, that of the row it read; the purge, none of the rows of its
snapshot when the configuration has every node (`IInvPurge`). A recovery removes no
machine of a row.

**`RaffinementReprise`** maps each step to one of `BailReprise`: `Enregistrer` to `Ouvrir`,
`Deplacer` to `Remplacer`, the marks to `Arreter`, `Suspendre` or `Expirer`, a removal to `Perdre`,
the end of a recovery to `Abandonner`. The state of a rental is not the status of its row alone: a
row marked stopped while the Faucheur is about to move it is `suspendu`, because `move_instance` may
set it running (`arret_puis_deplacement`). What it does depends on what it read: `Deplacer` is the
`Remplacer` that opens the rental again if the stop was committed before the SELECT, and the one
that ends in `arrete`, with a new machine, if it was committed between the SELECT and the UPDATE. A
`suspendu` also becomes `arrete` when the recovery lets go of it, all rows at once when an exception
or a crash cuts it short. `Equiper` needs
that the container of a recovery is new to every row (`UnSeulDetenteur`), `Expirer` that it is gone
(`Expiration`), `Abandonner` the two statuses of `RepriseOuverte`.

**`PurgeSure`** needs `IInvPurge` on top of `IInv`: when every node that agents or rows start from
is in `WORKERS`, so is every node that a row, a request or the Faucheur ever names. `docker` then
never falls back on another daemon, so that a daemon hosts the containers of its own rows only, and
the snapshot of its node is enough to spare them. The case it leaves out, a node missing from the
configuration, is the one where the local daemon answers for the missing one.

**`QuotaToujoursBorne`** is a count: `QuotaAttendu` adds to the machines of a user the rentals which
have passed the quota test and whose row is not written yet. A rental passes the test with less than
the quota, and each other process holds at most one, hence the margin `Cardinality(WebProcs) - 1`.
It assumes a finite, non-empty set of processes (`ServicesAssumption`) and no recovery.

**`IInvDemarrage`** is `DemarrageTypeOK`, `Catalogage` (the distributions a process has gone past
are in the catalogue) and, without faults, `Plans`, `Manques`, `Ordre` and `Releve`.
`SchemaSansPanne` alone says nothing of why processes that all leave the rest to the others do
finish: the reason is that the creator of the last table is at work and every other process lags
behind it (`EnTete`), that it plans whatever is missing (`Manques`), and that the indexes of a table
belong to the one that created it (`IndexDu`).

**`AgentsIInv`** says that an agent which beats, or which was told to register again, has a row as
long as the base was not emptied: the lemma `SuiteSort` isolates the only answer that lets an agent
into these two steps, and `RepondreGarde` that this answer is given after the row is written.
**`RegistreAtomique`** adds `Surveilles`: the rows that the watch has read stay AVAILABLE until it
marks them, since every other write restores or dates a row. So the rows that `ParcVu` shows already
OFFLINE from the reading on are those that the marks will change, marking changes nothing more, and
a heartbeat is `D!Battre`, or a stutter when it crosses the marks. `ParcVu` hides the age of an
OFFLINE row, which `est_joignable` and the watch never look at. An emptied base breaks it for
good (a row that is gone cancels the marks), which the theorem excludes by `~videe'`.

**`SIInv`** puts the same condition, `CookieOK`, on the browser's cookie and on every cookie in
flight, since an answer may bring any of them back. It is stated with facts that only grow (accounts
known, last proof of a password: `Croit`), so that an old cookie stays good (`CookieCroit`).
`EchecsBornesCorrect` needs a count: `EchecsAttendus` adds to the failures of an account the
processes that are checking a password for it; each of them passed the count, so that the sum stays
under the limit plus the other processes.

**`IInvMdp`** relates each process to the machine it has just changed (`SeulOK`): the one that works
alone is about to write the password which its machine accepts. While nobody is at work and nothing
came between, row and machine agree (`Confiance`).

**`IInvPorts`** is made of `Emplois` (what a process holds at each step, and that nobody else makes
a machine for its row), `Lignes` (a running row has the node and the ports of its container) and
`Partage` (a daemon gives a port once). `AdresseJuste` follows from the last two; `NettoyageCible`
from `Emplois`, because a running row that is being recovered is on another node than the attempt.
`SansPanneSansOrphelin` needs a second one, `IInvOrphelin`: without faults and recoveries, the
container that a stop removes is the one its row still names.

**Only model-checked**: every liveness property (fairness and ENABLED are out of the prover's
reach), and the refuted promises.

## 6. Abstractions

- *Docker*. A container is an identifier, a node and a name; images, resources and output are left
  out, ports too except in `Ports`. A name is represented by the first container created under it
  (six random hexadecimal digits: collisions are ignored, except the reuse of the name by a
  recovery, which is modelled).
  The three attempts of `_creer_conteneur` are one step that succeeds or fails, except in `Ports`.
- *Nodes*. The host name order and the order of the configuration are both `Rang`. The age of a
  heartbeat is a boolean, `frais`. `BUSY`, which the agent never sends (`worker_agent.py:211-218`),
  is left out. The reading of the workers and the count of their machines by
  `select_available_worker` are one step.
- *Agents*. A request is handled by any free process. The pauses of the loop and the back-off only
  delay. A registration is refused (400) while Docker does not answer, and the agent's own view of
  Docker is that of the moment it sends. In the platform, a heartbeat is one action, and so is a
  mark: `Agents` takes both apart.
- *Database*. A transaction of the platform is atomic when nothing it writes depends on what it
  read; `create_instance`, `extend_instance`, `set_instance_status` and `move_instance` are not. The
  status is the only column for which what the ORM leaves out matters: the others are written by one
  process, or always differ from what was read. `Ports` and `MotsDePasse` take `move_instance` and
  the closing of a row as one step each, which always sets the status: a stop that survives the
  recovery it crosses is in the platform only. In these two modules such a row would run one time
  less, and their properties speak of running rows, or of the password whatever the status.
- *Sessions*. The browser, the other client and the controller see one address. The CSRF token, the
  flash messages and the SSH key are left out; so is the content of the pages. An expiring session
  cookie is an action that may happen at any time.
- *Passwords*. A password is drawn once (the draw has 16 random characters). Encryption is the
  identity on what the row remembers, since only equality is asked of it. `chpasswd` and the VNC
  file are written in one step.
- *Ports*. `gui_port` is drawn and written like `term_port`, and left out. The choice of a node is
  any node. A name is the row it was drawn for. A hundred draws in vain mean that no port is free:
  the draws that miss a free one are an error of the same kind (`RunRefuse`).
- *Faucheur*. A row in a list is its identifier, because `container_id` and `worker` are only
  written by `create_instance` and by the Faucheur itself, which is one process. `ReprendreWorker`
  merges the two readings of `get_instances_on_worker` (`surveiller_workers` reads it for its
  message, `reprendre_worker` to act). The order of the nodes in `reconcile` and of the rows in a
  list is arbitrary, which includes the code's. `set_instance_password` after `move_instance` is
  in `MotsDePasse`. The Faucheur embedded in the development server
  (`app.py:614-617`, off by default) is not considered: there is one Faucheur.
- *Services*. Validation of the inputs, ownership and wording are left out: the requests considered
  are those that reach the database. A user's request on someone else's machine is a 404 without
  effect.
- *Gunicorn*. `app.py` is imported once (`--preload`, `2_webapp/Dockerfile:83-85` and the Ansible
  role), so start-up registers the single host once for all processes.
- *Start-up*. SQLite only: pysqlite commits each DDL at once; PostgreSQL, whose CREATE is
  transactional and which the compose file uses, is not modelled. The key is that of the vault (the
  session key is used by the web server alone). One `has_table` query is a step. The reading of
  `alembic_version` and that of `stamp` are one. A lock ends the creation of the catalogue's row as
  an uncaught error, and the mark as a swallowed one, as in the code. systemd's limit on the rate of
  restarts is ignored.

## 7. What is not modelled

Pages, templates, read-only routes and API documentation; `seed.py` and the Alembic migrations (run
by hand, alone); configuration; Ansible, Vagrant, CI and compose files: no concurrent state of their
own. Left out of modelled parts: `set_ssh_key` (one UPDATE of one column), `purge_login_attempts`
(removes rows older than any window). The image cache (`docker_ops.images_presentes`) is not keyed
by node, but its only caller asks for the local node: a stale answer only makes a `docker run` fail,
which the modules have. The content of the machines is outside the platform, but for the password
that `entrypoint.sh` applies.

## 8. Plan

Done: the platform (`Docker`, `Database`, `Services`, `Faucheur`, `InsaCloud`, `Bail`), the start-up
(`Demarrage`), then the parts that the platform coarsens (`Agents`, `Sessions`, `MotsDePasse`,
`Ports`), with their invariants, runs and proofs.

Then the contract of rentals under recovery (`BailReprise`, `IInvReprise`, `DestructionMotivee`) and
`Agents` as an implementation of the atomic heartbeats and marks of `Database`, both proved.

Next, in order:

1. What becomes of the rows whose recovery a crash of the Faucheur cuts short: which are lost, and
   what the reconciliation still does for them.
2. `ParcAtomique` across an emptied base: a mapping that drops the marks which it cancels.
3. `Ports` and `MotsDePasse` as refinements of the steps that the platform makes of them.
4. PostgreSQL's transactional start-up, beside the SQLite one of `Demarrage`.

## 9. How to run

    tlc -workers 4 -config local.cfg MCInsaCloud.tla        # likewise reprise, vivacite, ...
    tlc -workers 4 -config demarrage.cfg MCDemarrage.tla
    tlc -workers 4 -config ports.cfg MCPorts.tla            # agents, sessions, mots_de_passe: their MC module
    tlapm InsaCloudProofs.tla                               # likewise the other *Proofs modules

The passing runs take between a few seconds and about four minutes.
