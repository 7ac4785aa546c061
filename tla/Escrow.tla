------------------------------- MODULE Escrow -------------------------------
(***************************************************************************)
(* What a hash-locked deal promises its two parties, whatever the room     *)
(* they talk in: a deal has one payer and one payee, who are different     *)
(* agents; money is locked by the payer and leaves the lock once, to the   *)
(* payee against the secret or back to the payer after the deadline.       *)
(***************************************************************************)
CONSTANTS
    Agents,
    Nobody   \* on a side nobody has taken, not an agent

VARIABLES status, payer, payee

escrowVars == <<status, payer, payee>>

Statuses == {"none", "proposed", "accepted", "locked", "claimed", "refunded", "cancelled"}

EscrowInit == status = "none" /\ payer = Nobody /\ payee = Nobody

\* One agent offers to take one of the sides.
Propose ==
    /\ status = "none" /\ status' = "proposed"
    /\ \E a \in Agents : <<payer', payee'>> \in {<<a, Nobody>>, <<Nobody, a>>}

\* Another agent takes the side left open; neither side changes hands again.
Agree ==
    /\ status = "proposed" /\ status' = "accepted"
    /\ \E a \in Agents :
          \/ payer = Nobody /\ a # payee /\ payer' = a /\ payee' = payee
          \/ payee = Nobody /\ a # payer /\ payee' = a /\ payer' = payer

Fund == status = "accepted" /\ status' = "locked" /\ UNCHANGED <<payer, payee>>

Settle == status = "locked" /\ status' \in {"claimed", "refunded"} /\ UNCHANGED <<payer, payee>>

Abandon == status \in {"proposed", "accepted"} /\ status' = "cancelled" /\ UNCHANGED <<payer, payee>>

EscrowNext == Propose \/ Agree \/ Fund \/ Settle \/ Abandon

EscrowSpec == EscrowInit /\ [][EscrowNext]_escrowVars
=============================================================================
