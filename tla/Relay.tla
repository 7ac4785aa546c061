------------------------------- MODULE Relay --------------------------------
(***************************************************************************)
(* What a transactional outbox promises: a message that was offered in a   *)
(* transaction waits until it has been sent, it may be sent again as long  *)
(* as the sender has not confirmed it, and never afterwards.               *)
(***************************************************************************)
EXTENDS Naturals

CONSTANT Messages

VARIABLES
  stage,  \* per message: none, waiting, sent (not confirmed yet), confirmed
  copies  \* per message: how often it went out

vars == <<stage, copies>>

Init ==
  /\ stage = [m \in Messages |-> "none"]
  /\ copies = [m \in Messages |-> 0]

Offer(m) ==
  /\ stage[m] = "none"
  /\ stage' = [stage EXCEPT ![m] = "waiting"]
  /\ UNCHANGED copies

Send(m) ==
  /\ stage[m] = "waiting"
  /\ stage' = [stage EXCEPT ![m] = "sent"]
  /\ copies' = [copies EXCEPT ![m] = @ + 1]

\* A sender confirms what it sent, or dies and forgets that it sent it.
Settle(to) ==
  /\ stage' = [m \in Messages |-> IF stage[m] = "sent" THEN to ELSE stage[m]]
  /\ UNCHANGED copies

Next ==
  \/ \E m \in Messages : Offer(m) \/ Send(m)
  \/ \E to \in {"confirmed", "waiting"} : Settle(to)

Spec == Init /\ [][Next]_vars
=============================================================================
