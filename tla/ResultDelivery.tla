--------------------------- MODULE ResultDelivery ---------------------------
(***************************************************************************)
(* What the durable result path of the agent promises to the backend,      *)
(* without saying how: once a batch of scheduled scripts is accepted, the  *)
(* agent owes the backend an answer for every script of it, and the debt   *)
(* is discharged only after an answer went out.  The only way out is the   *)
(* declared one: results shed because the outbox is over its capacity or   *)
(* because the database file had to be quarantined.                        *)
(***************************************************************************)
CONSTANT Keys      \* the entries of all batches, one per script of a batch

VARIABLES
    owed,          \* entries the agent still has on disk
    answered,      \* entries the backend got at least one result for
    shed           \* entries given up by capacity or quarantine

avars == <<owed, answered, shed>>

AInit ==
    /\ owed = {}
    /\ answered = {}
    /\ shed = {}

Accept(S) ==
    /\ owed' = owed \cup S
    /\ UNCHANGED <<answered, shed>>

Answer(S) ==
    /\ answered' = answered \cup S
    /\ UNCHANGED <<owed, shed>>

Discharge(S) ==
    /\ S \subseteq answered \cup shed
    /\ owed' = owed \ S
    /\ UNCHANGED <<answered, shed>>

\* An entry of which another copy was accepted meanwhile stays owed.
Shed(S) ==
    /\ S \subseteq owed
    /\ owed \ S \subseteq owed' /\ owed' \subseteq owed
    /\ shed' = shed \cup S
    /\ UNCHANGED answered

ANext ==
    \E S \in SUBSET Keys : Accept(S) \/ Answer(S) \/ Discharge(S) \/ Shed(S)

ASpec == AInit /\ [][ANext]_avars

=============================================================================
