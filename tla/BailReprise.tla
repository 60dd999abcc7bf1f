----------------------------- MODULE BailReprise -----------------------------
(***************************************************************************)
(* What InsaCloud promises of each rental, whether failed workers are      *)
(* recovered or not.  A rental is opened once.  Its machine is replaced by *)
(* a recovery only, and no two rentals ever share one.  A closed rental    *)
(* never opens again and gets no other machine, unless its user has closed *)
(* it in the middle of its own recovery: it is then suspended until this   *)
(* recovery is over, which may reopen it, or give a machine to a rental    *)
(* that stays closed.                                                      *)
(***************************************************************************)
CONSTANTS
  Baux,
  Machines,
  Aucune     \* no machine

VARIABLES
  bail,      \* the state of each rental
  machine,   \* the machine of each rental, dead or alive
  vivante    \* whether it exists

repriseVars == <<bail, machine, vivante>>

BailRepriseTypeOK ==
  /\ bail \in [Baux -> {"aucun", "ouvert", "suspendu", "arrete", "expire"}]
  /\ machine \in [Baux -> Machines \cup {Aucune}]
  /\ vivante \in [Baux -> BOOLEAN]

BailRepriseInit ==
  /\ bail = [b \in Baux |-> "aucun"]
  /\ machine = [b \in Baux |-> Aucune]
  /\ vivante = [b \in Baux |-> FALSE]

Passer(b, etat) == bail' = [bail EXCEPT ![b] = etat]

(* A machine that no rental has; it may be gone when the row is written.   *)
Equiper(b) ==
  /\ \E m \in Machines : /\ \A d \in Baux : machine[d] # m
                         /\ machine' = [machine EXCEPT ![b] = m]
  /\ \E v \in BOOLEAN : vivante' = [vivante EXCEPT ![b] = v]

Ouvrir(b) ==
  /\ bail[b] = "aucun"
  /\ Passer(b, "ouvert")
  /\ Equiper(b)

Remplacer(b) ==
  /\ \/ bail[b] \in {"ouvert", "suspendu"} /\ Passer(b, "ouvert")
     \/ bail[b] = "suspendu" /\ Passer(b, "arrete")
  /\ Equiper(b)

Perdre(b) ==
  /\ vivante[b]
  /\ vivante' = [vivante EXCEPT ![b] = FALSE]
  /\ UNCHANGED <<bail, machine>>

(* A rental expires only once its machine is gone.                         *)
Expirer(b) ==
  /\ bail[b] \in {"ouvert", "arrete"}
  /\ ~vivante[b]
  /\ Passer(b, "expire")
  /\ UNCHANGED <<machine, vivante>>

Arreter(b) ==
  /\ bail[b] \in {"ouvert", "expire"}
  /\ Passer(b, "arrete")
  /\ UNCHANGED <<machine, vivante>>

Suspendre(b) ==
  /\ bail[b] = "ouvert"
  /\ Passer(b, "suspendu")
  /\ UNCHANGED <<machine, vivante>>

(* A recovery ends, for one rental or, when it is cut short, for all.      *)
Abandonner(S) ==
  /\ S # {}
  /\ \A b \in S : bail[b] = "suspendu"
  /\ bail' = [b \in Baux |-> IF b \in S THEN "arrete" ELSE bail[b]]
  /\ UNCHANGED <<machine, vivante>>

(* Most steps of the platform leave every rental as it is: saying so first *)
(* changes nothing to the specification, and lets TLC settle them at once. *)
BailRepriseNext ==
  \/ UNCHANGED repriseVars
  \/ \E b \in Baux : \/ Ouvrir(b) \/ Remplacer(b) \/ Perdre(b)
                     \/ Expirer(b) \/ Arreter(b) \/ Suspendre(b)
  \/ \E S \in SUBSET Baux : Abandonner(S)

BailRepriseSpec == BailRepriseInit /\ [][BailRepriseNext]_repriseVars
=============================================================================
